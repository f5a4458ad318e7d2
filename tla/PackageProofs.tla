--------------------------- MODULE PackageProofs ---------------------------
(***************************************************************************)
(* Theorems about the way of a package: the request that carries it         *)
(* (Uploads), the texts in it (Markup), and its storage (RevisionStorage).  *)
(*                                                                         *)
(* The invariant of Uploads says of every request how far it has come with *)
(* its package: which temporaries are open, that what it has counted is    *)
(* the running total of what it has read, and that every reference it has  *)
(* read is decided.  That is a predicate on the request's own variables,   *)
(* so a step of another request keeps it; only the field limit is shared,  *)
(* and the lock's holder is the one request that is parsing.               *)
(*                                                                         *)
(* That of the CSS validator says that its tail is the end of what it has  *)
(* read, and that it knows every match that ends there.  That of the HTML  *)
(* validator says for every element of its stack which token opened it,    *)
(* and what its flags say of the tokens.                                   *)
(*                                                                         *)
(* That of RevisionStorage speaks of one key at a time: what the call that *)
(* reserved it remembers, what its row says, which bytes are there, and    *)
(* which transaction holds its lock.  A step touches the keys of one call, *)
(* or one key; every other key is Untouched.                               *)
(***************************************************************************)
EXTENDS Uploads, Markup, RevisionStorage, FiniteSetTheorems, WellFoundedInduction, TLAPS

----------------------------------------------------------------------------
\* A set of naturals has a least element.
LEMMA LeastNatural ==
    ASSUME NEW T \in SUBSET Nat, T # {}
    PROVE  \E x \in T : \A y \in T : x <= y
<1> DEFINE R == {ss \in Nat \X Nat : ss[1] < ss[2]}
<1>1. IsWellFoundedOn(R, Nat)
  BY NatLessThanWellFounded DEF OpToRel
<1>2. PICK x \in T : \A y \in T : <<y, x>> \notin R
  <2> HIDE DEF R
  <2> QED BY <1>1, WFMin
<1>3. \A y \in T : x <= y
  <2> SUFFICES ASSUME NEW y \in T, ~(x <= y) PROVE FALSE
    OBVIOUS
  <2>1. y < x /\ x \in Nat /\ y \in Nat
    OBVIOUS
  <2>2. <<y, x>> \in R
    BY <2>1
  <2> QED BY <1>2, <2>2
<1> QED BY <1>3

\* The running totals exist: otherwise there is a least length at which they do
\* not, and those of the length before can be continued.
LEMMA SumsDefined ==
    ASSUME NEW s \in Seq(Nat)
    PROVE  /\ Sums(s)[0] = 0
           /\ \A n \in 1..Len(s) : Sums(s)[n] = Sums(s)[n - 1] + s[n]
<1> DEFINE L == Len(s)
           SumsTo(g, m) == g = [n \in 0..m |-> IF n = 0 THEN 0 ELSE g[n - 1] + s[n]]
           bad == {m \in 0..L : ~ \E g : SumsTo(g, m)}
<1>1. L \in Nat
  OBVIOUS
<1>2. \E g : SumsTo(g, L)
  <2> SUFFICES ASSUME ~ \E g : SumsTo(g, L) PROVE FALSE
    OBVIOUS
  <2>1. PICK m \in bad : \A k \in bad : m <= k
    <3>1. bad \in SUBSET Nat /\ bad # {}
      BY <1>1
    <3> HIDE DEF bad
    <3> QED BY <3>1, LeastNatural
  <2>2. m # 0
    <3>1. SumsTo([n \in 0..0 |-> 0], 0)
      OBVIOUS
    <3> QED BY <2>1, <3>1
  <2>3. m \in 1..L /\ m - 1 \in 0..L /\ m - 1 \notin bad
    <3>1. m \in 0..L
      OBVIOUS
    <3> HIDE DEF bad
    <3>2. m \in 1..L /\ m - 1 \in 0..L /\ ~(m <= m - 1)
      BY <1>1, <2>2, <3>1
    <3> QED BY <2>1, <3>2
  <2>4. PICK g : SumsTo(g, m - 1)
    BY <2>3
  <2> DEFINE h == [n \in 0..m |-> IF n = m THEN g[m - 1] + s[m] ELSE g[n]]
  <2>5. \A n \in 0..m : h[n] = IF n = 0 THEN 0 ELSE h[n - 1] + s[n]
    <3> TAKE n \in 0..m
    <3>1. CASE n = m
      BY <2>3, <3>1
    <3>2. CASE n # m
      <4>1. n \in 0..(m - 1)
        BY <2>3, <3>2
      <4>2. g[n] = IF n = 0 THEN 0 ELSE g[n - 1] + s[n]
        BY <2>4, <4>1
      <4> QED BY <2>3, <3>2, <4>1, <4>2
    <3> QED BY <3>1, <3>2
  <2>6. SumsTo(h, m)
    BY <2>5
  <2> QED BY <2>1, <2>6
<1>3. SumsTo(Sums(s), L)
  <2>1. Sums(s) = CHOOSE g : SumsTo(g, L)
    BY DEF Sums
  <2> HIDE DEF SumsTo
  <2> QED BY <1>2, <2>1
<1>4. \A n \in 0..L : Sums(s)[n] = IF n = 0 THEN 0 ELSE Sums(s)[n - 1] + s[n]
  BY <1>3
<1> QED BY <1>1, <1>4

\* They are natural numbers.
LEMMA SumsType ==
    ASSUME NEW s \in Seq(Nat)
    PROVE  \A n \in 0..Len(s) : Sums(s)[n] \in Nat
<1> DEFINE bad == {n \in 0..Len(s) : Sums(s)[n] \notin Nat}
<1> SUFFICES ASSUME bad # {} PROVE FALSE
  OBVIOUS
<1>1. PICK m \in bad : \A k \in bad : m <= k
  <2>1. bad \in SUBSET Nat
    OBVIOUS
  <2> HIDE DEF bad
  <2> QED BY <2>1, LeastNatural
<1>2. m \in 0..Len(s) /\ Sums(s)[m] \notin Nat
  OBVIOUS
<1>3. m # 0
  BY <1>2, SumsDefined
<1>4. m - 1 \in 0..Len(s) /\ m - 1 \notin bad
  <2> HIDE DEF bad
  <2>1. m \in 1..Len(s) /\ m - 1 \in 0..Len(s) /\ ~(m <= m - 1)
    BY <1>2, <1>3
  <2> QED BY <1>1, <2>1
<1>5. Sums(s)[m] = Sums(s)[m - 1] + s[m] /\ s[m] \in Nat
  BY <1>2, <1>3, SumsDefined
<1> QED BY <1>2, <1>4, <1>5

----------------------------------------------------------------------------
(* How far a request has come. *)

\* What a request knows of itself.
Standing(r) ==
    [parts |-> parts[r], phase |-> phase[r], entry |-> entry[r], chunks |-> chunk_count[r],
     bytes |-> byte_size[r], total |-> total_size[r], temporaries |-> temporaries[r],
     outcome |-> outcome[r]]

\* What becomes of a request; Plain are the issues that no property is about.
Plain == {"none", "not_stored", "malformed_multipart", "too_many_files", "missing_html",
          "multiple_html", "invalid_filename", "duplicate_filename",
          "extension_mismatch", "media_type_mismatch", "empty_file", "file_too_large",
          "total_too_large", "too_many_chunks", "invalid_utf8", "binary_content",
          "csv_too_many_rows", "csv_too_many_fields", "csv_field_too_large",
          "csv_record_too_large", "html_malformed", "html_too_complex",
          "external_dependency", "invalid_asset_reference", "invalid_csv_reference",
          "stream_error", "staging_error"}
Outcomes == Plain \cup MissingIssues \cup {"revision", "csv_malformed"}

FittingPart == {part \in FilePart : part.widest <= BytesOf(part)}
Staging == {"open", "read", "limit", "parse"}
Phases == Staging \cup {"idle", "manifest", "staged", "done"}
Standings == [parts : Seq(FittingPart), phase : Phases, entry : Nat \ {0}, chunks : Nat,
              bytes : Nat, total : Nat, temporaries : SUBSET Nat, outcome : Outcomes]

Accepted(s) == s.phase = "staged" \/ s.outcome = "revision"

\* The temporaries are those of the files staged so far and of the one at hand.
Orderly(s) ==
    /\ s.phase # "done" => s.outcome = "none"
    /\ s.phase \in {"idle", "manifest"} =>
          s.entry = 1 /\ s.chunks = 0 /\ s.bytes = 0 /\ s.total = 0
    /\ s.phase \in {"idle", "manifest", "done"} => s.temporaries = {}
    /\ s.phase = "open" => /\ s.chunks = 0 /\ s.bytes = 0
                           /\ s.temporaries = 1..(s.entry - 1)
    /\ s.phase \in {"read", "limit", "parse"} => s.temporaries = 1..s.entry
    /\ s.phase = "staged" => s.temporaries = DOMAIN s.parts
    /\ s.phase \in Staging => s.entry \in DOMAIN s.parts
    /\ s.phase \in {"limit", "parse"} => KindOf(s.parts[s.entry].name) = "csv"

Admitted(s) == s.phase \in Staging \/ Accepted(s) => ManifestIssue(s.parts) = "none"

\* What is counted is what was read.
Measured(s) ==
    /\ s.phase \in Staging =>
          /\ s.total = Sums(FileSizes(s.parts))[s.entry - 1] + s.bytes
          /\ s.bytes <= MaxFileBytes /\ s.total <= MaxTotalBytes
          /\ \A i \in 1..(s.entry - 1) : BytesOf(s.parts[i]) \in 1..MaxFileBytes
    /\ s.phase = "read" =>
          /\ s.chunks <= Len(s.parts[s.entry].chunks)
          /\ s.bytes = Sums(ChunkSizes(s.parts[s.entry]))[s.chunks]
    /\ s.phase \in {"limit", "parse"} =>
          s.bytes = BytesOf(s.parts[s.entry]) /\ s.bytes # 0
    /\ Accepted(s) => /\ PackageBytes(s.parts) <= MaxTotalBytes
                      /\ \A i \in DOMAIN s.parts : BytesOf(s.parts[i]) \in 1..MaxFileBytes

IsLocal(c) == c.reference # NoReference /\ c.reference.form = "local"
Referring(part) == KindOf(part.name) \in {"html", "css"}
Decided(ps, c) == IsLocal(c) => \E i \in Names(ps, c.reference.key) :
                                   KindOf(ps[i].name) \in c.allowed
DecidedUpTo(ps, i, n) == Referring(ps[i]) => \A k \in 1..n : Decided(ps, ps[i].chunks[k])
MissesFile(ps) == \E c \in References(ps) : IsLocal(c) /\ Names(ps, c.reference.key) = {}

\* Every reference that was read leads to a file of the package.
Linked(s) ==
    /\ s.phase \in Staging =>
          \A i \in 1..(s.entry - 1) : DecidedUpTo(s.parts, i, Len(s.parts[i].chunks))
    /\ s.phase = "read" => DecidedUpTo(s.parts, s.entry, s.chunks)
    /\ Accepted(s) =>
          \A i \in DOMAIN s.parts : DecidedUpTo(s.parts, i, Len(s.parts[i].chunks))
    /\ s.outcome \in MissingIssues => MissesFile(s.parts)

HasMalformedTable(ps) == \E i \in DOMAIN ps : ps[i].csv_issue = "csv_malformed"

InOrder(s) == /\ s \in Standings
              /\ Orderly(s) /\ Admitted(s) /\ Measured(s) /\ Linked(s)
              /\ s.outcome = "csv_malformed" => HasMalformedTable(s.parts)

\* The one request that parses holds the lock and knows the process's own limit.
LimitInOrder ==
    /\ field_limit \in Nat /\ limit_holder \in Request \cup {NoRequest}
    /\ previous_limit \in [Request -> Nat]
    /\ limit_holder = NoRequest => field_limit = DefaultFieldLimit
    /\ \A r \in Request : /\ phase[r] = "parse" <=> limit_holder = r
                          /\ limit_holder = r => /\ field_limit = OwnFieldLimit
                                                 /\ previous_limit[r] = DefaultFieldLimit

PerRequest == /\ parts \in [Request -> Seq(FittingPart)]
              /\ phase \in [Request -> Phases]
              /\ entry \in [Request -> Nat \ {0}]
              /\ chunk_count \in [Request -> Nat]
              /\ byte_size \in [Request -> Nat]
              /\ total_size \in [Request -> Nat]
              /\ temporaries \in [Request -> SUBSET Nat]
              /\ outcome \in [Request -> Outcomes]

UploadsInv == /\ PerRequest
              /\ \A r \in Request : InOrder(Standing(r))
              /\ LimitInOrder

----------------------------------------------------------------------------
(* Sizes and manifests. *)

LEMMA Limits == /\ MaxFiles \in Nat /\ MaxFileBytes \in Nat /\ MaxTotalBytes \in Nat
                /\ OwnFieldLimit \in Nat /\ MaxFileBytes <= OwnFieldLimit
BY UploadsAssumption DEF UploadsAssumption, OwnFieldLimit

\* A file's size, in chunks.
LEMMA FileFacts ==
    ASSUME NEW part \in FilePart
    PROVE  /\ ChunkSizes(part) \in Seq(Nat)
           /\ Len(ChunkSizes(part)) = Len(part.chunks) /\ Len(part.chunks) \in Nat
           /\ \A k \in 1..Len(part.chunks) : /\ ChunkSizes(part)[k] = part.chunks[k].bytes
                                             /\ part.chunks[k] \in FileChunk
           /\ BytesOf(part) = Sums(ChunkSizes(part))[Len(part.chunks)]
           /\ BytesOf(part) \in Nat
<1>1. part.chunks \in Seq(FileChunk)
  BY DEF FilePart
<1>2. \A k \in 1..Len(part.chunks) : part.chunks[k] \in FileChunk /\ part.chunks[k].bytes \in Nat
  <2>1. \A k \in 1..Len(part.chunks) : part.chunks[k] \in FileChunk
    BY <1>1
  <2>2. \A c \in FileChunk : c.bytes \in Nat
    BY DEF FileChunk
  <2> QED BY <2>1, <2>2
<1>3. /\ ChunkSizes(part) \in Seq(Nat) /\ Len(ChunkSizes(part)) = Len(part.chunks)
      /\ \A k \in 1..Len(part.chunks) : ChunkSizes(part)[k] = part.chunks[k].bytes
  BY <1>1, <1>2 DEF ChunkSizes
<1>4. BytesOf(part) = Sums(ChunkSizes(part))[Len(part.chunks)]
  BY <1>3 DEF BytesOf, Total
<1>5. Len(part.chunks) \in Nat
  BY <1>1
<1> QED BY <1>2, <1>3, <1>4, <1>5, SumsType

\* A package's size, in files.
LEMMA PackageFacts ==
    ASSUME NEW ps \in Seq(FilePart)
    PROVE  /\ Len(ps) \in Nat /\ DOMAIN ps = 1..Len(ps)
           /\ Sums(FileSizes(ps))[0] = 0
           /\ \A i \in 1..Len(ps) :
                 Sums(FileSizes(ps))[i] = Sums(FileSizes(ps))[i - 1] + BytesOf(ps[i])
           /\ \A i \in 0..Len(ps) : Sums(FileSizes(ps))[i] \in Nat
           /\ PackageBytes(ps) = Sums(FileSizes(ps))[Len(ps)]
<1>1. Len(ps) \in Nat /\ DOMAIN ps = 1..Len(ps) /\ \A i \in 1..Len(ps) : ps[i] \in FilePart
  OBVIOUS
<1>2. \A i \in 1..Len(ps) : BytesOf(ps[i]) \in Nat
  BY <1>1, FileFacts
<1>3. /\ FileSizes(ps) \in Seq(Nat) /\ Len(FileSizes(ps)) = Len(ps)
      /\ \A i \in 1..Len(ps) : FileSizes(ps)[i] = BytesOf(ps[i])
  BY <1>1, <1>2 DEF FileSizes
<1>4. PackageBytes(ps) = Sums(FileSizes(ps))[Len(ps)]
  BY <1>3 DEF PackageBytes, Total
<1> QED BY <1>1, <1>3, <1>4, SumsDefined, SumsType

\* What an accepted manifest is.
LEMMA ManifestFacts ==
    ASSUME NEW ps \in Seq(FilePart), ManifestIssue(ps) = "none"
    PROVE  /\ Cardinality(HtmlParts(ps)) = 1
           /\ Len(ps) \in 1..MaxFiles
           /\ \A i, j \in DOMAIN ps :
                 i # j => ComparisonKey(ps[i].name) # ComparisonKey(ps[j].name)
           /\ \A i \in DOMAIN ps : WellNamed(ps[i].name)
<1> DEFINE wrong == {i \in DOMAIN ps : PartIssue(ps, i) # "none"}
<1>1. Len(ps) \in Nat /\ DOMAIN ps = 1..Len(ps)
  OBVIOUS
<1>2. wrong = {}
  <2> SUFFICES ASSUME wrong # {} PROVE FALSE
    OBVIOUS
  <2>1. wrong \in SUBSET Nat
    BY <1>1
  <2>2. PICK i \in wrong : \A j \in wrong : i <= j
    <3> HIDE DEF wrong
    <3> QED BY <2>1, LeastNatural
  <2>3. (CHOOSE k \in wrong : \A j \in wrong : k <= j) \in wrong
    <3> HIDE DEF wrong
    <3> QED BY <2>2
  <2>4. PartIssue(ps, CHOOSE k \in wrong : \A j \in wrong : k <= j) # "none"
    BY <2>3
  <2> QED BY <2>4 DEF ManifestIssue
<1>3. \A i \in DOMAIN ps : PartIssue(ps, i) = "none"
  BY <1>2
<1>4. Cardinality(HtmlParts(ps)) = 1
  <2>1. HtmlParts(ps) \subseteq 1..Len(ps)
    BY <1>1 DEF HtmlParts
  <2>2. Cardinality(HtmlParts(ps)) \in Nat
    <3>1. IsFiniteSet(1..Len(ps))
      BY <1>1, FS_Interval
    <3> QED BY <2>1, <3>1, FS_Subset, FS_CardinalityType
  <2>3. ~(Cardinality(HtmlParts(ps)) = 0) /\ ~(Cardinality(HtmlParts(ps)) > 1)
    <3>1. (CASE Cardinality(HtmlParts(ps)) = 0 -> "missing_html"
             [] Cardinality(HtmlParts(ps)) > 1 -> "multiple_html"
             [] OTHER -> "none") = "none"
      BY <1>2 DEF ManifestIssue
    <3> QED BY <2>2, <3>1
  <2> QED BY <2>2, <2>3
<1>5. Len(ps) \in 1..MaxFiles
  <2>1. Len(ps) # 0
    <3> SUFFICES ASSUME Len(ps) = 0 PROVE FALSE
      OBVIOUS
    <3>1. HtmlParts(ps) = {}
      BY <1>1 DEF HtmlParts
    <3> QED BY <1>4, <3>1, FS_EmptySet
  <2>2. PartIssue(ps, Len(ps)) = "none"
    BY <1>1, <1>3, <2>1
  <2>3. ~(Len(ps) > MaxFiles)
    BY <2>2 DEF PartIssue
  <2> QED BY <1>1, <2>1, <2>3, Limits
<1>6. \A i \in DOMAIN ps : WellNamed(ps[i].name)
  BY <1>3 DEF PartIssue
<1>7. ASSUME NEW i \in DOMAIN ps, NEW j \in DOMAIN ps, i < j
      PROVE  ComparisonKey(ps[i].name) # ComparisonKey(ps[j].name)
  <2>1. i \in 1..(j - 1)
    BY <1>1, <1>7
  <2>2. PartIssue(ps, j) = "none"
    BY <1>3
  <2> QED BY <2>1, <2>2 DEF PartIssue
<1>8. \A i, j \in DOMAIN ps :
         i # j => ComparisonKey(ps[i].name) # ComparisonKey(ps[j].name)
  BY <1>1, <1>7
<1> QED BY <1>4, <1>5, <1>6, <1>8

----------------------------------------------------------------------------
(* One request's step, on its standing. *)

\* A request is refused, or its package handed over: its temporaries are closed.
LEMMA RefusedInOrder ==
    ASSUME NEW s, NEW t \in Standings, InOrder(s),
           t.parts = s.parts, t.phase = "done", t.temporaries = {},
           t.outcome = "revision" => s.phase = "staged",
           t.outcome \in MissingIssues => MissesFile(s.parts),
           t.outcome = "csv_malformed" => HasMalformedTable(s.parts)
    PROVE  InOrder(t)
BY DEF InOrder, Orderly, Admitted, Accepted, Measured, Linked, Staging

\* A form's parts are there; nothing is read yet.
LEMMA PostedInOrder ==
    ASSUME NEW s, NEW t \in Standings, InOrder(s), s.phase = "idle",
           t.phase = "manifest", t.entry = s.entry, t.chunks = s.chunks,
           t.bytes = s.bytes, t.total = s.total, t.temporaries = s.temporaries,
           t.outcome = s.outcome
    PROVE  InOrder(t)
BY DEF InOrder, Orderly, Admitted, Accepted, Measured, Linked, Staging, MissingIssues

\* The manifest is accepted: the first file is next.
LEMMA BuiltInOrder ==
    ASSUME NEW s, NEW t \in Standings, InOrder(s), s.phase = "manifest",
           ManifestIssue(s.parts) = "none",
           t.phase = "open", t.parts = s.parts, t.entry = s.entry, t.chunks = s.chunks,
           t.bytes = s.bytes, t.total = s.total, t.temporaries = s.temporaries,
           t.outcome = s.outcome
    PROVE  InOrder(t)
<1>1. t.parts \in Seq(FilePart)
  BY DEF Standings, FittingPart
<1>2. /\ Len(t.parts) \in 1..MaxFiles /\ DOMAIN t.parts = 1..Len(t.parts)
      /\ Sums(FileSizes(t.parts))[0] = 0
  BY <1>1, ManifestFacts, PackageFacts
<1>3. t.outcome = "none" /\ t.temporaries = {}
  BY DEF InOrder, Orderly
<1>4. t.entry = 1 /\ t.chunks = 0 /\ t.bytes = 0 /\ t.total = 0
  BY DEF InOrder, Orderly
<1>5. Orderly(t)
  BY <1>2, <1>3, <1>4, Limits DEF Orderly
<1>6. Measured(t)
  BY <1>2, <1>3, <1>4, Limits DEF Measured, Accepted
<1>7. Linked(t)
  BY <1>3, <1>4 DEF Linked, Accepted, MissingIssues
<1> QED BY <1>3, <1>5, <1>6, <1>7 DEF InOrder, Admitted

\* Its temporary is open: nothing of it is read yet.
LEMMA OpenedInOrder ==
    ASSUME NEW s, NEW t \in Standings, InOrder(s), s.phase = "open",
           t.phase = "read", t.parts = s.parts, t.entry = s.entry, t.chunks = s.chunks,
           t.bytes = s.bytes, t.total = s.total,
           t.temporaries = s.temporaries \cup {s.entry}, t.outcome = s.outcome
    PROVE  InOrder(t)
<1> DEFINE part == t.parts[t.entry]
<1>1. t.entry \in DOMAIN t.parts /\ t.entry \in Nat \ {0} /\ t.parts \in Seq(FittingPart)
  BY DEF InOrder, Orderly, Staging, Standings
<1>2. part \in FilePart
  BY <1>1 DEF FittingPart
<1>3. Len(part.chunks) \in Nat /\ Sums(ChunkSizes(part))[0] = 0
  BY <1>2, FileFacts, SumsDefined
<1>4. t.outcome = "none" /\ t.chunks = 0 /\ t.bytes = 0 /\ t.temporaries = 1..t.entry
  BY <1>1 DEF InOrder, Orderly
<1>5. Orderly(t)
  BY <1>1, <1>4 DEF Orderly
<1>6. Measured(t)
  BY <1>3, <1>4 DEF InOrder, Measured, Accepted, Staging
<1>7. Linked(t)
  BY <1>4 DEF InOrder, Linked, Accepted, Staging, DecidedUpTo
<1> QED BY <1>4, <1>5, <1>6, <1>7 DEF InOrder, Admitted, Staging

\* One more chunk within the limits is read, and its reference decided.
LEMMA ReadInOrder ==
    ASSUME NEW s, NEW t \in Standings, InOrder(s), s.phase = "read",
           NEW chunk,
           s.chunks < Len(s.parts[s.entry].chunks),
           chunk = s.parts[s.entry].chunks[s.chunks + 1],
           s.bytes + chunk.bytes <= MaxFileBytes,
           s.total + chunk.bytes <= MaxTotalBytes,
           Referring(s.parts[s.entry]) => Decided(s.parts, chunk),
           t.phase = "read", t.parts = s.parts, t.entry = s.entry,
           t.chunks = s.chunks + 1,
           t.bytes = s.bytes + chunk.bytes, t.total = s.total + chunk.bytes,
           t.temporaries = s.temporaries, t.outcome = s.outcome
    PROVE  InOrder(t)
<1> DEFINE part == t.parts[t.entry]
<1>1. /\ t.entry \in DOMAIN t.parts /\ t.entry \in Nat \ {0}
      /\ t.parts \in Seq(FittingPart) /\ s.chunks \in Nat /\ s.bytes \in Nat /\ s.total \in Nat
  BY DEF InOrder, Orderly, Staging, Standings
<1>2. part \in FilePart /\ t.parts \in Seq(FilePart)
  BY <1>1 DEF FittingPart
<1>3. /\ Len(part.chunks) \in Nat /\ t.chunks \in 1..Len(part.chunks)
      /\ chunk \in FileChunk /\ ChunkSizes(part)[t.chunks] = chunk.bytes
      /\ ChunkSizes(part) \in Seq(Nat) /\ Len(ChunkSizes(part)) = Len(part.chunks)
  <2>1. s.chunks < Len(part.chunks) /\ chunk = part.chunks[t.chunks]
    OBVIOUS
  <2>2. part \in FilePart /\ t.chunks = s.chunks + 1
    BY <1>2
  <2> HIDE DEF part
  <2>3. t.chunks \in 1..Len(part.chunks) /\ Len(part.chunks) \in Nat
    BY <1>1, <2>1, <2>2, FileFacts
  <2> QED BY <2>1, <2>2, <2>3, FileFacts
<1>4. chunk.bytes \in Nat
  BY <1>3 DEF FileChunk
<1>5. Sums(ChunkSizes(part))[t.chunks] = Sums(ChunkSizes(part))[s.chunks] + chunk.bytes
  <2>1. t.chunks - 1 = s.chunks
    BY <1>1
  <2> DEFINE sizes == ChunkSizes(part)
  <2>2. sizes \in Seq(Nat) /\ t.chunks \in 1..Len(sizes) /\ sizes[t.chunks] = chunk.bytes
    BY <1>3
  <2> HIDE DEF sizes
  <2>3. Sums(sizes)[t.chunks] = Sums(sizes)[t.chunks - 1] + sizes[t.chunks]
    BY <2>2, SumsDefined
  <2> QED BY <2>1, <2>2, <2>3 DEF sizes
<1>6. t.outcome = "none"
  BY DEF InOrder, Orderly
<1>7. Orderly(t)
  BY <1>6 DEF InOrder, Orderly, Staging
<1>8. Measured(t)
  <2>1. /\ s.total = Sums(FileSizes(s.parts))[s.entry - 1] + s.bytes
        /\ s.bytes = Sums(ChunkSizes(part))[s.chunks]
        /\ \A i \in 1..(s.entry - 1) : BytesOf(s.parts[i]) \in 1..MaxFileBytes
    BY DEF InOrder, Measured, Staging
  <2>2. Sums(FileSizes(s.parts))[s.entry - 1] \in Nat
    <3>1. s.entry - 1 \in 0..Len(s.parts) /\ s.parts \in Seq(FilePart)
      BY <1>1, <1>2, PackageFacts
    <3> QED BY <3>1, PackageFacts
  <2>3. t.total = Sums(FileSizes(t.parts))[t.entry - 1] + t.bytes
    <3> DEFINE before == Sums(FileSizes(s.parts))[s.entry - 1]
    <3>1. /\ before \in Nat /\ s.total = before + s.bytes
          /\ t.total = s.total + chunk.bytes /\ t.bytes = s.bytes + chunk.bytes
      BY <2>1, <2>2
    <3> HIDE DEF before
    <3>2. t.total = before + t.bytes
      BY <1>1, <1>4, <3>1
    <3> QED BY <3>2 DEF before
  <2> QED BY <1>3, <1>5, <1>6, <2>1, <2>3 DEF Measured, Accepted
<1>9. Linked(t)
  <2>1. DecidedUpTo(t.parts, t.entry, t.chunks)
    <3>1. \A k \in 1..t.chunks : k \in 1..s.chunks \/ k = s.chunks + 1
      BY <1>1
    <3>2. DecidedUpTo(s.parts, s.entry, s.chunks)
      BY DEF InOrder, Linked
    <3> QED BY <3>1, <3>2 DEF DecidedUpTo
  <2> QED BY <1>6, <2>1 DEF InOrder, Linked, Accepted, Staging
<1> QED BY <1>6, <1>7, <1>8, <1>9 DEF InOrder, Admitted, Staging

\* A table was read to its end; or the lock is taken and it is parsed.
LEMMA TableReadInOrder ==
    ASSUME NEW s, NEW t \in Standings, InOrder(s),
           \/ /\ s.phase = "read" /\ t.phase = "limit" /\ s.bytes # 0
              /\ s.chunks = Len(s.parts[s.entry].chunks)
              /\ KindOf(s.parts[s.entry].name) = "csv"
           \/ s.phase = "limit" /\ t.phase = "parse",
           t.parts = s.parts, t.entry = s.entry, t.chunks = s.chunks,
           t.bytes = s.bytes, t.total = s.total, t.temporaries = s.temporaries,
           t.outcome = s.outcome
    PROVE  InOrder(t)
<1>1. t.entry \in DOMAIN t.parts /\ t.parts \in Seq(FittingPart)
  BY DEF InOrder, Orderly, Staging, Standings
<1>2. t.parts[t.entry] \in FilePart
  BY <1>1 DEF FittingPart
<1>3. t.outcome = "none"
  BY DEF InOrder, Orderly
<1>4. Orderly(t)
  BY <1>3 DEF InOrder, Orderly, Staging
<1>5. s.bytes = BytesOf(s.parts[s.entry]) /\ s.bytes # 0
  BY <1>2, FileFacts DEF InOrder, Measured
<1>6. Measured(t)
  BY <1>3, <1>5 DEF InOrder, Measured, Accepted, Staging
<1>7. Linked(t)
  BY <1>3 DEF InOrder, Linked, Accepted, Staging
<1> QED BY <1>3, <1>4, <1>6, <1>7 DEF InOrder, Admitted, Staging

\* A file is staged: the next one, or the package.
LEMMA StagedInOrder ==
    ASSUME NEW s, NEW t \in Standings, InOrder(s),
           s.phase \in {"read", "parse"}, s.bytes # 0,
           s.phase = "read" => s.chunks = Len(s.parts[s.entry].chunks),
           t.phase = IF s.entry < Len(s.parts) THEN "open" ELSE "staged",
           t.entry = IF s.entry < Len(s.parts) THEN s.entry + 1 ELSE s.entry,
           t.chunks = 0, t.bytes = 0, t.parts = s.parts, t.total = s.total,
           t.temporaries = s.temporaries, t.outcome = s.outcome
    PROVE  InOrder(t)
<1> DEFINE e == s.entry
           sums == Sums(FileSizes(t.parts))
<1>1. /\ e \in DOMAIN t.parts /\ t.parts \in Seq(FittingPart)
      /\ s.bytes \in Nat /\ s.total \in Nat
  BY DEF InOrder, Orderly, Staging, Standings
<1>2. t.parts[e] \in FilePart /\ t.parts \in Seq(FilePart)
  BY <1>1 DEF FittingPart
<1>3. /\ Len(t.parts) \in Nat /\ DOMAIN t.parts = 1..Len(t.parts) /\ e \in 1..Len(t.parts)
      /\ sums[e] = sums[e - 1] + BytesOf(t.parts[e])
      /\ PackageBytes(t.parts) = sums[Len(t.parts)]
  BY <1>1, <1>2, PackageFacts
<1>4. t.outcome = "none" /\ t.temporaries = 1..e
  BY DEF InOrder, Orderly
<1>5. s.bytes = BytesOf(t.parts[e])
  BY <1>2, FileFacts DEF InOrder, Measured
<1>6. /\ s.total = sums[e - 1] + s.bytes
      /\ s.bytes <= MaxFileBytes /\ s.total <= MaxTotalBytes
      /\ \A i \in 1..(e - 1) : BytesOf(t.parts[i]) \in 1..MaxFileBytes
  BY DEF InOrder, Measured, Staging
<1>7. s.total = sums[e]
  BY <1>3, <1>5, <1>6
<1>8. \A i \in 1..e : BytesOf(t.parts[i]) \in 1..MaxFileBytes
  <2>1. \A i \in 1..e : i \in 1..(e - 1) \/ i = e
    BY <1>3
  <2>2. BytesOf(t.parts[e]) \in 1..MaxFileBytes
    BY <1>1, <1>5, <1>6, Limits
  <2> QED BY <1>6, <2>1, <2>2
<1>9. \A i \in 1..e : DecidedUpTo(t.parts, i, Len(t.parts[i].chunks))
  <2>1. \A i \in 1..e : i \in 1..(e - 1) \/ i = e
    BY <1>3
  <2>2. \A i \in 1..(e - 1) : DecidedUpTo(t.parts, i, Len(t.parts[i].chunks))
    BY DEF InOrder, Linked, Staging
  <2>3. DecidedUpTo(t.parts, e, Len(t.parts[e].chunks))
    <3>1. CASE s.phase = "read"
      BY <3>1 DEF InOrder, Linked
    <3>2. CASE s.phase = "parse"
      BY <3>2 DEF InOrder, Orderly, DecidedUpTo, Referring
    <3> QED BY <3>1, <3>2
  <2> QED BY <2>1, <2>2, <2>3
<1>10. ManifestIssue(t.parts) = "none"
  BY DEF InOrder, Admitted, Staging
<1> HIDE DEF sums, e
<1>11. CASE e < Len(t.parts)
  <2>1. t.phase = "open" /\ t.entry = e + 1 /\ t.entry - 1 = e
    BY <1>3, <1>11 DEF e
  <2>2. Orderly(t)
    BY <1>3, <1>4, <1>11, <2>1 DEF Orderly
  <2>3. Measured(t)
    <3>1. t.total = sums[t.entry - 1] + t.bytes /\ t.total <= MaxTotalBytes
      BY <1>1, <1>6, <1>7, <2>1
    <3> QED BY <1>4, <1>8, <2>1, <3>1, Limits DEF Measured, Accepted, sums
  <2>4. Linked(t)
    BY <1>4, <1>9, <2>1 DEF Linked, Accepted, MissingIssues
  <2> QED BY <1>4, <1>10, <2>2, <2>3, <2>4 DEF InOrder, Admitted
<1>12. CASE ~(e < Len(t.parts))
  <2>1. t.phase = "staged" /\ e = Len(t.parts)
    BY <1>3, <1>12 DEF e
  <2>2. Orderly(t)
    BY <1>3, <1>4, <2>1 DEF Orderly, Staging
  <2>3. Measured(t)
    BY <1>3, <1>6, <1>7, <1>8, <2>1 DEF Measured, Accepted, Staging
  <2>4. Linked(t)
    BY <1>3, <1>4, <1>9, <2>1 DEF Linked, Accepted, Staging, MissingIssues
  <2> QED BY <1>4, <1>10, <2>2, <2>3, <2>4 DEF InOrder, Admitted
<1> QED BY <1>11, <1>12

----------------------------------------------------------------------------
(* One request's step, in the system. *)

LEMMA StandingType ==
    ASSUME PerRequest
    PROVE  \A r \in Request : Standing(r) \in Standings
BY DEF PerRequest, Standing, Standings

\* A step that takes one request's standing from s to t, and leaves the others'.
LEMMA StandingStep ==
    ASSUME UploadsInv, PerRequest', NEW r \in Request, NEW t,
           Standing(r)' = t, InOrder(t),
           \A q \in Request \ {r} : Standing(q)' = Standing(q)
    PROVE  \A q \in Request : InOrder(Standing(q)')
BY DEF UploadsInv

\* The limit stays as it is while nobody begins or ends to parse.
LEMMA LimitKept ==
    ASSUME UploadsInv, UNCHANGED limitVars,
           \A q \in Request : phase'[q] = "parse" <=> phase[q] = "parse"
    PROVE  LimitInOrder'
BY DEF UploadsInv, LimitInOrder, limitVars, OwnFieldLimit

\* A refusal, and the end of a request.
LEMMA RefuseKeeps ==
    ASSUME UploadsInv, NEW r \in Request, NEW issue \in Outcomes,
           Refuse(r, issue), UNCHANGED staging,
           issue = "revision" => phase[r] = "staged",
           issue \in MissingIssues => MissesFile(parts[r]),
           issue = "csv_malformed" => HasMalformedTable(parts[r])
    PROVE  /\ PerRequest'
           /\ \A q \in Request : InOrder(Standing(q)')
           /\ \A q \in Request : phase'[q] = IF q = r THEN "done" ELSE phase[q]
<1>1. PerRequest /\ InOrder(Standing(r))
  BY DEF UploadsInv
<1>2. /\ phase' = [phase EXCEPT ![r] = "done"]
      /\ outcome' = [outcome EXCEPT ![r] = issue]
      /\ temporaries' = [temporaries EXCEPT ![r] = {}]
  BY DEF Refuse, Goes
<1>3. PerRequest'
  BY <1>1, <1>2 DEF PerRequest, staging, Phases
<1>4. \A q \in Request : phase'[q] = IF q = r THEN "done" ELSE phase[q]
  BY <1>1, <1>2 DEF PerRequest
<1>5. \A q \in Request \ {r} : Standing(q)' = Standing(q)
  BY <1>1, <1>2 DEF PerRequest, Standing, staging
<1>6. /\ Standing(r)' \in Standings
      /\ Standing(r)'.parts = Standing(r).parts /\ Standing(r)'.phase = "done"
      /\ Standing(r)'.temporaries = {} /\ Standing(r)'.outcome = issue
  <2>1. Standing(r)' \in Standings
    BY <1>3 DEF PerRequest, Standing, Standings
  <2> QED BY <1>1, <1>2, <2>1 DEF PerRequest, Standing, staging
<1>7. Standing(r).parts = parts[r] /\ Standing(r).phase = phase[r]
  BY DEF Standing
<1>8. InOrder(Standing(r)')
  BY <1>1, <1>6, <1>7, RefusedInOrder
<1> QED BY <1>3, <1>4, <1>5, <1>8, StandingStep

\* A file is staged, and the next one opened or the package complete.
LEMMA StagesNextKeeps ==
    ASSUME UploadsInv, NEW r \in Request, StagesNext(r),
           phase[r] \in {"read", "parse"}, byte_size[r] # 0,
           phase[r] = "read" => chunk_count[r] = Len(Part(r).chunks)
    PROVE  /\ PerRequest'
           /\ \A q \in Request : InOrder(Standing(q)')
           /\ phase'[r] # "parse"
           /\ \A q \in Request \ {r} : phase'[q] = phase[q]
<1>1. PerRequest /\ InOrder(Standing(r)) /\ Standing(r) \in Standings
  BY StandingType DEF UploadsInv
<1>2. /\ phase' = [phase EXCEPT ![r] = IF entry[r] < Len(parts[r]) THEN "open" ELSE "staged"]
      /\ entry' = [entry EXCEPT ![r] = IF @ < Len(parts[r]) THEN @ + 1 ELSE @]
      /\ chunk_count' = [chunk_count EXCEPT ![r] = 0]
      /\ byte_size' = [byte_size EXCEPT ![r] = 0]
      /\ UNCHANGED <<parts, total_size, temporaries, outcome>>
  BY DEF StagesNext, Goes
<1>3. PerRequest'
  BY <1>1, <1>2 DEF PerRequest, Phases, Staging
<1>4. phase'[r] # "parse" /\ \A q \in Request \ {r} : phase'[q] = phase[q]
  BY <1>1, <1>2 DEF PerRequest
<1>5. \A q \in Request \ {r} : Standing(q)' = Standing(q)
  BY <1>1, <1>2 DEF PerRequest, Standing
<1> DEFINE s == Standing(r)
<1>6. /\ s.phase \in {"read", "parse"} /\ s.bytes # 0
      /\ s.phase = "read" => s.chunks = Len(s.parts[s.entry].chunks)
  BY DEF Standing, Part
<1>7. /\ Standing(r)' \in Standings
      /\ Standing(r)'.phase = IF s.entry < Len(s.parts) THEN "open" ELSE "staged"
      /\ Standing(r)'.entry = IF s.entry < Len(s.parts) THEN s.entry + 1 ELSE s.entry
      /\ Standing(r)'.chunks = 0 /\ Standing(r)'.bytes = 0
      /\ Standing(r)'.parts = s.parts /\ Standing(r)'.total = s.total
      /\ Standing(r)'.temporaries = s.temporaries /\ Standing(r)'.outcome = s.outcome
  <2>1. Standing(r)' \in Standings
    BY <1>3 DEF PerRequest, Standing, Standings
  <2> QED BY <1>1, <1>2, <2>1 DEF PerRequest, Standing
<1>8. InOrder(Standing(r)')
  <2> HIDE DEF s
  <2>1. InOrder(s)
    BY <1>1 DEF s
  <2> QED BY <2>1, <1>6, <1>7, StagedInOrder
<1> QED BY <1>3, <1>4, <1>5, <1>8, StandingStep

----------------------------------------------------------------------------
(* What is found wrong, and what is known when nothing is. *)

LEMMA FormIssueType == ASSUME NEW form PROVE FormIssue(form) \in Plain
BY ZenonT(30) DEF FormIssue, Plain

LEMMA ManifestIssueType == ASSUME NEW ps PROVE ManifestIssue(ps) \in Plain
<1>1. \A i : PartIssue(ps, i) \in Plain
  BY ZenonT(30) DEF PartIssue, Plain
<1>2. CASE {i \in DOMAIN ps : PartIssue(ps, i) # "none"} # {}
  BY <1>1, <1>2 DEF ManifestIssue
<1>3. CASE {i \in DOMAIN ps : PartIssue(ps, i) # "none"} = {}
  <2>1. ManifestIssue(ps) = CASE Cardinality(HtmlParts(ps)) = 0 -> "missing_html"
                              [] Cardinality(HtmlParts(ps)) > 1 -> "multiple_html"
                              [] OTHER -> "none"
    BY <1>3 DEF ManifestIssue
  <2> QED BY <2>1 DEF Plain
<1> QED BY <1>2, <1>3

\* A form's files, as a sequence.
LEMMA FormPartsType ==
    ASSUME NEW form \in Forms
    PROVE  FormParts(form) \in Seq(FittingPart)
<1>1. ASSUME NEW field \in FormFields PROVE form[field] \in Seq(FittingPart)
  <2>1. /\ form[field] \in Seq(FilePart)
        /\ \A i \in DOMAIN form[field] : form[field][i].widest <= BytesOf(form[field][i])
    BY UploadsAssumption DEF UploadsAssumption
  <2> QED BY <2>1 DEF FittingPart
<1>2. /\ form["package_files"] \in Seq(FittingPart) /\ form["files"] \in Seq(FittingPart)
      /\ form["html_file"] \in Seq(FittingPart)
      /\ form["supporting_files"] \in Seq(FittingPart)
      /\ form["csv_files"] \in Seq(FittingPart)
  BY <1>1 DEF FormFields
<1> HIDE DEF FittingPart
<1> QED BY <1>2 DEF FormParts

\* What is at hand while a file is read.
LEMMA ReadingFacts ==
    ASSUME UploadsInv, NEW r \in Request, phase[r] \in {"read", "limit", "parse"}
    PROVE  /\ parts[r] \in Seq(FilePart) /\ entry[r] \in DOMAIN parts[r]
           /\ Part(r) \in FittingPart /\ Part(r) \in FilePart
           /\ ManifestIssue(parts[r]) = "none"
           /\ chunk_count[r] \in Nat /\ byte_size[r] \in Nat /\ total_size[r] \in Nat
           /\ Len(Part(r).chunks) \in Nat
           /\ Standing(r).parts = parts[r] /\ Standing(r).phase = phase[r]
           /\ Standing(r).entry = entry[r] /\ Standing(r).parts[Standing(r).entry] = Part(r)
           /\ Standing(r).chunks = chunk_count[r]
<1>1. /\ parts[r] \in Seq(FittingPart)
      /\ chunk_count[r] \in Nat /\ byte_size[r] \in Nat /\ total_size[r] \in Nat
  BY DEF UploadsInv, PerRequest
<1>2. entry[r] \in DOMAIN parts[r] /\ ManifestIssue(parts[r]) = "none"
  BY DEF UploadsInv, InOrder, Orderly, Admitted, Standing, Staging
<1>3. Part(r) \in FittingPart
  BY <1>1, <1>2 DEF Part
<1>4. Part(r) \in FilePart /\ parts[r] \in Seq(FilePart)
  BY <1>1, <1>3 DEF FittingPart
<1>5. Len(Part(r).chunks) \in Nat
  BY <1>4, FileFacts
<1> QED BY <1>1, <1>2, <1>3, <1>4, <1>5 DEF Standing, Part

Resolutions == {"ok", "external_dependency", "invalid_asset_reference",
                "invalid_csv_reference"} \cup MissingIssues

\* A reference that resolves leads to a file of the package, and one that is
\* reported as missing to none.
LEMMA ReferenceFacts ==
    ASSUME NEW r \in Request, parts[r] \in Seq(FilePart),
           NEW c, c.reference # NoReference
    PROVE  LET found == ResolveAssetReference(c.reference, KnownKinds(r), c.allowed) IN
           /\ found \in Resolutions
           /\ found = "ok" => Decided(parts[r], c)
           /\ found \in MissingIssues =>
                 IsLocal(c) /\ Names(parts[r], c.reference.key) = {}
<1> DEFINE ref == c.reference
           found == ResolveAssetReference(ref, KnownKinds(r), c.allowed)
           keys == {ComparisonKey(parts[r][i].name) : i \in DOMAIN parts[r]}
<1>1. /\ DOMAIN KnownKinds(r) = keys
      /\ \A key \in keys : KnownKinds(r)[key] = UPLOAD_EXTENSION_TO_KIND[key.extension]
  BY DEF KnownKinds
<1>2. found \in Resolutions
  BY DEF ResolveAssetReference, Resolutions, MissingIssues
<1>3. ASSUME found = "ok" PROVE Decided(parts[r], c)
  <2> SUFFICES ASSUME IsLocal(c)
               PROVE  \E i \in Names(parts[r], ref.key) : KindOf(parts[r][i].name) \in c.allowed
    BY DEF Decided
  <2>1. ref.form = "local"
    BY DEF IsLocal
  <2>2. ref.key \in DOMAIN KnownKinds(r) /\ KnownKinds(r)[ref.key] \in c.allowed
    BY <1>3, <2>1 DEF ResolveAssetReference, MissingIssues
  <2>3. PICK i \in DOMAIN parts[r] : ref.key = ComparisonKey(parts[r][i].name)
    BY <1>1, <2>2
  <2>4. KindOf(parts[r][i].name) = KnownKinds(r)[ref.key]
    BY <1>1, <2>3 DEF KindOf, ComparisonKey
  <2> QED BY <2>2, <2>3, <2>4 DEF Names
<1>4. ASSUME found \in MissingIssues
      PROVE  IsLocal(c) /\ Names(parts[r], ref.key) = {}
  <2>0. ref.form = "local"
    BY <1>4 DEF ResolveAssetReference, MissingIssues
  <2>1. ref.form = "local" /\ ref.key \notin DOMAIN KnownKinds(r)
    <3> DEFINE kinds == KnownKinds(r)
    <3> HIDE DEF kinds
    <3>1. ResolveAssetReference(ref, kinds, c.allowed) \in MissingIssues
      BY <1>4 DEF kinds
    <3>2. ref.key \notin DOMAIN kinds
      BY <3>1, <2>0 DEF ResolveAssetReference, MissingIssues
    <3> QED BY <2>0, <3>2 DEF kinds
  <2>2. Names(parts[r], ref.key) = {}
    BY <1>1, <2>1 DEF Names
  <2> QED BY <2>1, <2>2 DEF IsLocal
<1> QED BY <1>2, <1>3, <1>4

\* The checks on a chunk.
LEMMA ChunkFacts ==
    ASSUME UploadsInv, NEW r \in Request, phase[r] = "read",
           chunk_count[r] < Len(Part(r).chunks)
    PROVE  /\ ChunkIssue(r) \in Plain \cup MissingIssues
           /\ ChunkIssue(r) \in MissingIssues => MissesFile(parts[r])
           /\ ChunkIssue(r) = "none" =>
                 /\ byte_size[r] + NextChunk(r).bytes <= MaxFileBytes
                 /\ total_size[r] + NextChunk(r).bytes <= MaxTotalBytes
                 /\ Referring(Part(r)) => Decided(parts[r], NextChunk(r))
           /\ NextChunk(r) \in FileChunk
<1> DEFINE chunk == NextChunk(r)
           k == chunk_count[r] + 1
           found == ResolveAssetReference(chunk.reference, KnownKinds(r), chunk.allowed)
<1>1. /\ parts[r] \in Seq(FilePart) /\ entry[r] \in DOMAIN parts[r] /\ Part(r) \in FilePart
      /\ chunk_count[r] \in Nat /\ Len(Part(r).chunks) \in Nat
      /\ byte_size[r] \in Nat /\ total_size[r] \in Nat
  BY ReadingFacts
<1>2. k \in 1..Len(Part(r).chunks) /\ chunk = Part(r).chunks[k]
  BY <1>1 DEF NextChunk
<1>3. chunk \in FileChunk
  <2> HIDE DEF k, chunk
  <2> QED BY <1>1, <1>2, FileFacts
<1>4. chunk.bytes \in Nat /\ chunk.issue \in TextIssue
  BY <1>3 DEF FileChunk
<1>5. Referring(Part(r)) => chunk \in References(parts[r])
  <2>1. k \in DOMAIN Part(r).chunks
    BY <1>1, <1>2 DEF FilePart
  <2> HIDE DEF k, chunk
  <2>2. SUFFICES ASSUME Referring(Part(r)) PROVE chunk \in References(parts[r])
    OBVIOUS
  <2> DEFINE e == entry[r]
             ps == parts[r]
             Read(i) == {ps[i].chunks[n] : n \in DOMAIN ps[i].chunks}
  <2>3. chunk \in Read(e)
    BY <1>2, <2>1 DEF Part
  <2>4. e \in {j \in DOMAIN ps : KindOf(ps[j].name) \in {"html", "css"}}
    BY <1>1, <2>2 DEF Referring, Part
  <2> HIDE DEF e, Read, ps
  <2>5. chunk \in UNION {Read(i) : i \in {j \in DOMAIN ps : KindOf(ps[j].name) \in {"html", "css"}}}
    BY <2>3, <2>4
  <2> QED BY <2>5 DEF References, Read, ps
<1>6. chunk.reference # NoReference =>
         /\ found \in Resolutions
         /\ found = "ok" => Decided(parts[r], chunk)
         /\ found \in MissingIssues =>
               IsLocal(chunk) /\ Names(parts[r], chunk.reference.key) = {}
  <2> HIDE DEF chunk
  <2> QED BY <1>1, ReferenceFacts
<1>7. /\ Kind(r) \in {"html", "css"} <=> Referring(Part(r))
  BY DEF Kind, Referring
<1>8. ChunkIssue(r) =
         IF k > MaxChunks THEN "too_many_chunks"
         ELSE IF byte_size[r] + chunk.bytes > MaxFileBytes THEN "file_too_large"
         ELSE IF total_size[r] + chunk.bytes > MaxTotalBytes THEN "total_too_large"
         ELSE IF Kind(r) \in TextKinds /\ chunk.issue # "none" THEN chunk.issue
         ELSE IF Referring(Part(r)) /\ chunk.reference # NoReference
         THEN IF found = "ok" THEN "none" ELSE found
         ELSE "none"
  BY <1>7 DEF ChunkIssue
<1> HIDE DEF chunk, k, found
<1>9. ChunkIssue(r) \in Plain \cup MissingIssues
  BY <1>4, <1>6, <1>8 DEF TextIssue, Plain, Resolutions, MissingIssues
<1>10. ASSUME ChunkIssue(r) \in MissingIssues PROVE MissesFile(parts[r])
  <2>1. /\ Referring(Part(r)) /\ chunk.reference # NoReference
        /\ found \in MissingIssues
    BY <1>4, <1>8, <1>10 DEF TextIssue, MissingIssues
  <2> QED BY <1>5, <1>6, <2>1 DEF MissesFile
<1>11. ASSUME ChunkIssue(r) = "none"
       PROVE  /\ byte_size[r] + chunk.bytes <= MaxFileBytes
              /\ total_size[r] + chunk.bytes <= MaxTotalBytes
              /\ Referring(Part(r)) => Decided(parts[r], chunk)
  <2>1. /\ ~(byte_size[r] + chunk.bytes > MaxFileBytes)
        /\ ~(total_size[r] + chunk.bytes > MaxTotalBytes)
        /\ Referring(Part(r)) /\ chunk.reference # NoReference => found \in {"ok", "none"}
    <3>1. ~(k > MaxChunks)
      BY <1>8, <1>11
    <3>2. ~(byte_size[r] + chunk.bytes > MaxFileBytes)
      BY <1>8, <1>11, <3>1
    <3>3. ~(total_size[r] + chunk.bytes > MaxTotalBytes)
      BY <1>8, <1>11, <3>1, <3>2
    <3>4. ~(Kind(r) \in TextKinds /\ chunk.issue # "none")
      BY <1>8, <1>11, <3>1, <3>2, <3>3
    <3>5. Referring(Part(r)) /\ chunk.reference # NoReference => found \in {"ok", "none"}
      BY <1>8, <1>11, <3>1, <3>2, <3>3, <3>4
    <3> QED BY <3>2, <3>3, <3>5
  <2>2. /\ byte_size[r] + chunk.bytes <= MaxFileBytes
        /\ total_size[r] + chunk.bytes <= MaxTotalBytes
    BY <1>1, <1>4, <2>1, Limits
  <2>3. found # "none"
    BY DEF found, ResolveAssetReference
  <2>4. chunk.reference = NoReference => Decided(parts[r], chunk)
    BY DEF Decided, IsLocal
  <2> QED BY <1>6, <2>1, <2>2, <2>3, <2>4
<1> QED BY <1>3, <1>9, <1>10, <1>11 DEF chunk

\* A table that is found malformed is: its fields fit the limit that is set.
LEMMA TableFacts ==
    ASSUME UploadsInv, NEW r \in Request, phase[r] = "parse"
    PROVE  /\ CsvIssue(r) \in Plain \cup {"csv_malformed"}
           /\ CsvIssue(r) = "csv_malformed" => HasMalformedTable(parts[r])
<1>1. /\ entry[r] \in DOMAIN parts[r] /\ Part(r) \in FittingPart /\ Part(r) \in FilePart
      /\ byte_size[r] \in Nat
  BY ReadingFacts
<1>2. Part(r).widest \in Nat /\ Part(r).csv_issue \in TableIssue
  BY <1>1 DEF FilePart
<1>3. byte_size[r] = BytesOf(Part(r)) /\ byte_size[r] <= MaxFileBytes
  BY DEF UploadsInv, InOrder, Measured, Standing, Part, Staging
<1>4. Part(r).widest <= BytesOf(Part(r))
  BY <1>1 DEF FittingPart
<1>5. field_limit = OwnFieldLimit
  BY DEF UploadsInv, LimitInOrder
<1>6. ~(Part(r).widest > field_limit)
  BY <1>1, <1>2, <1>3, <1>4, <1>5, Limits
<1>7. CsvIssue(r) = IF Part(r).widest > MaxFieldBytes THEN "csv_field_too_large"
                                                      ELSE Part(r).csv_issue
  BY <1>6 DEF CsvIssue
<1> QED BY <1>1, <1>2, <1>7 DEF TableIssue, HasMalformedTable, Part, Plain

----------------------------------------------------------------------------
(* The invariant. *)

LEMMA UploadInitHolds == UploadInit => UploadsInv
<1> SUFFICES ASSUME UploadInit PROVE UploadsInv
  OBVIOUS
<1>1. PerRequest
  BY DEF UploadInit, PerRequest, Phases, Outcomes, Plain
<1>2. ASSUME NEW r \in Request PROVE InOrder(Standing(r))
  <2>1. /\ Standing(r) \in Standings /\ Standing(r).phase = "idle"
        /\ Standing(r).entry = 1 /\ Standing(r).chunks = 0 /\ Standing(r).bytes = 0
        /\ Standing(r).total = 0 /\ Standing(r).temporaries = {}
        /\ Standing(r).outcome = "none"
    BY <1>1, StandingType DEF UploadInit, Standing
  <2> HIDE DEF Standing
  <2> QED BY <2>1 DEF InOrder, Orderly, Admitted, Accepted, Measured, Linked, Staging, MissingIssues
<1>3. LimitInOrder
  <2>1. \A r \in Request : phase[r] # "parse" /\ limit_holder # r
    BY UploadsAssumption DEF UploadInit, UploadsAssumption
  <2> QED BY <2>1, UploadsAssumption DEF UploadInit, UploadsAssumption, LimitInOrder
<1> QED BY <1>1, <1>2, <1>3 DEF UploadsInv

\* What every refusal outside a parse leaves.
LEMMA RefusedKeeps ==
    ASSUME UploadsInv, NEW r \in Request, NEW issue \in Outcomes,
           Refuse(r, issue), UNCHANGED staging, UNCHANGED limitVars, phase[r] # "parse",
           issue = "revision" => phase[r] = "staged",
           issue \in MissingIssues => MissesFile(parts[r]),
           issue # "csv_malformed"
    PROVE  UploadsInv'
<1>1. /\ PerRequest'
      /\ \A q \in Request : InOrder(Standing(q)')
      /\ \A q \in Request : phase'[q] = IF q = r THEN "done" ELSE phase[q]
  BY RefuseKeeps
<1>2. LimitInOrder'
  BY <1>1, LimitKept
<1> QED BY <1>1, <1>2 DEF UploadsInv

\* What a step that leaves a request's file to be read further leaves.
LEMMA AdvancedKeeps ==
    ASSUME UploadsInv, NEW r \in Request, PerRequest', InOrder(Standing(r)'),
           UNCHANGED limitVars, phase[r] # "parse", phase'[r] # "parse",
           \A q \in Request \ {r} : Standing(q)' = Standing(q)
    PROVE  UploadsInv'
<1>1. \A q \in Request : InOrder(Standing(q)')
  BY StandingStep
<1>2. \A q \in Request : phase'[q] = "parse" <=> phase[q] = "parse"
  <2>1. \A q \in Request : Standing(q).phase = phase[q] /\ Standing(q)'.phase = phase'[q]
    BY DEF Standing
  <2> QED BY <2>1
<1>3. LimitInOrder'
  BY <1>2, LimitKept
<1> QED BY <1>1, <1>3 DEF UploadsInv

LEMMA PostKeeps ==
    ASSUME UploadsInv, NEW r \in Request, NEW form \in Forms, post(r, form)
    PROVE  UploadsInv'
<1>1. PerRequest /\ phase[r] = "idle" /\ InOrder(Standing(r))
  BY DEF UploadsInv, post
<1>2. FormIssue(form) \in Plain /\ FormParts(form) \in Seq(FittingPart)
  BY FormIssueType, FormPartsType
<1>3. CASE FormIssue(form) # "none"
  <2>1. /\ Refuse(r, FormIssue(form)) /\ UNCHANGED staging /\ UNCHANGED limitVars
    BY <1>3 DEF post, staging
  <2>2. /\ FormIssue(form) \in Outcomes
        /\ FormIssue(form) \notin {"revision", "csv_malformed"} \cup MissingIssues
    BY <1>2 DEF Outcomes, Plain, MissingIssues
  <2> QED BY <1>1, <2>1, <2>2, RefusedKeeps
<1>4. CASE FormIssue(form) = "none"
  <2>1. /\ parts' = [parts EXCEPT ![r] = FormParts(form)]
        /\ phase' = [phase EXCEPT ![r] = "manifest"]
        /\ UNCHANGED <<temporaries, outcome, entry, chunk_count, byte_size, total_size>>
        /\ UNCHANGED limitVars
    BY <1>4 DEF post, Goes
  <2>2. PerRequest'
    BY <1>1, <1>2, <2>1 DEF PerRequest, Phases
  <2>3. /\ \A q \in Request \ {r} : Standing(q)' = Standing(q)
        /\ phase'[r] = "manifest"
    BY <1>1, <2>1 DEF PerRequest, Standing
  <2>4. /\ Standing(r)' \in Standings /\ Standing(r).phase = "idle"
        /\ Standing(r)'.phase = "manifest"
        /\ Standing(r)'.entry = Standing(r).entry /\ Standing(r)'.chunks = Standing(r).chunks
        /\ Standing(r)'.bytes = Standing(r).bytes /\ Standing(r)'.total = Standing(r).total
        /\ Standing(r)'.temporaries = Standing(r).temporaries
        /\ Standing(r)'.outcome = Standing(r).outcome
    <3>1. Standing(r)' \in Standings
      BY <2>2 DEF PerRequest, Standing, Standings
    <3> QED BY <1>1, <2>1, <2>3, <3>1 DEF Standing
  <2>5. InOrder(Standing(r)')
    BY <1>1, <2>4, PostedInOrder
  <2> QED BY <1>1, <2>1, <2>2, <2>3, <2>5, AdvancedKeeps
<1> QED BY <1>3, <1>4

LEMMA BuildManifestKeeps ==
    ASSUME UploadsInv, NEW r \in Request, build_manifest(r)
    PROVE  UploadsInv'
<1>1. PerRequest /\ phase[r] = "manifest" /\ InOrder(Standing(r))
  BY DEF UploadsInv, build_manifest
<1>2. ManifestIssue(parts[r]) \in Plain
  BY ManifestIssueType
<1>3. CASE ManifestIssue(parts[r]) # "none"
  <2>1. /\ Refuse(r, ManifestIssue(parts[r])) /\ UNCHANGED staging /\ UNCHANGED limitVars
    BY <1>3 DEF build_manifest
  <2>2. /\ ManifestIssue(parts[r]) \in Outcomes
        /\ ManifestIssue(parts[r]) \notin {"revision", "csv_malformed"} \cup MissingIssues
    BY <1>2 DEF Outcomes, Plain, MissingIssues
  <2> QED BY <1>1, <2>1, <2>2, RefusedKeeps
<1>4. CASE ManifestIssue(parts[r]) = "none"
  <2>1. /\ phase' = [phase EXCEPT ![r] = "open"]
        /\ UNCHANGED <<staging, temporaries, outcome>> /\ UNCHANGED limitVars
    BY <1>4 DEF build_manifest, Goes
  <2>2. PerRequest'
    BY <1>1, <2>1 DEF PerRequest, Phases, Staging, staging
  <2>3. /\ \A q \in Request \ {r} : Standing(q)' = Standing(q)
        /\ phase'[r] = "open"
    BY <1>1, <2>1 DEF PerRequest, Standing, staging
  <2>4. /\ Standing(r)' \in Standings /\ Standing(r).phase = "manifest"
        /\ Standing(r).parts = parts[r] /\ Standing(r)'.phase = "open"
        /\ Standing(r)'.parts = Standing(r).parts
        /\ Standing(r)'.entry = Standing(r).entry /\ Standing(r)'.chunks = Standing(r).chunks
        /\ Standing(r)'.bytes = Standing(r).bytes /\ Standing(r)'.total = Standing(r).total
        /\ Standing(r)'.temporaries = Standing(r).temporaries
        /\ Standing(r)'.outcome = Standing(r).outcome
    <3>1. Standing(r)' \in Standings
      BY <2>2 DEF PerRequest, Standing, Standings
    <3> QED BY <1>1, <2>1, <2>3, <3>1 DEF Standing, staging
  <2>5. InOrder(Standing(r)')
    BY <1>1, <1>4, <2>4, BuiltInOrder
  <2> QED BY <1>1, <2>1, <2>2, <2>3, <2>5, AdvancedKeeps
<1> QED BY <1>3, <1>4

LEMMA OpenTemporaryKeeps ==
    ASSUME UploadsInv, NEW r \in Request, open_temporary(r)
    PROVE  UploadsInv'
<1>1. PerRequest /\ phase[r] = "open" /\ InOrder(Standing(r))
  BY DEF UploadsInv, open_temporary
<1>2. /\ temporaries' = [temporaries EXCEPT ![r] = @ \cup {entry[r]}]
      /\ phase' = [phase EXCEPT ![r] = "read"]
      /\ UNCHANGED <<staging, outcome>> /\ UNCHANGED limitVars
  BY DEF open_temporary, Goes
<1>3. PerRequest'
  BY <1>1, <1>2 DEF PerRequest, Phases, Staging, staging
<1>4. \A q \in Request \ {r} : Standing(q)' = Standing(q)
  BY <1>1, <1>2 DEF PerRequest, Standing, staging
<1>5. phase'[r] = "read"
  BY <1>1, <1>2 DEF PerRequest
<1>6. /\ Standing(r)' \in Standings /\ Standing(r).phase = "open"
      /\ Standing(r)'.phase = "read" /\ Standing(r)'.parts = Standing(r).parts
      /\ Standing(r)'.entry = Standing(r).entry /\ Standing(r)'.chunks = Standing(r).chunks
      /\ Standing(r)'.bytes = Standing(r).bytes /\ Standing(r)'.total = Standing(r).total
      /\ Standing(r)'.temporaries = Standing(r).temporaries \cup {Standing(r).entry}
      /\ Standing(r)'.outcome = Standing(r).outcome
  <2>1. Standing(r)' \in Standings
    BY <1>3 DEF PerRequest, Standing, Standings
  <2>2. temporaries'[r] = temporaries[r] \cup {entry[r]}
    BY <1>1, <1>2 DEF PerRequest
  <2> QED BY <1>1, <1>2, <1>5, <2>1, <2>2 DEF Standing, staging
<1>7. InOrder(Standing(r)')
  BY <1>1, <1>6, OpenedInOrder
<1> QED BY <1>1, <1>2, <1>3, <1>4, <1>5, <1>7, AdvancedKeeps

LEMMA ReadChunkKeeps ==
    ASSUME UploadsInv, NEW r \in Request, read_chunk(r)
    PROVE  UploadsInv'
<1> DEFINE chunk == NextChunk(r)
           s == Standing(r)
<1>1. /\ PerRequest /\ phase[r] = "read" /\ InOrder(s) /\ UNCHANGED limitVars
      /\ chunk_count[r] < Len(Part(r).chunks)
  BY DEF UploadsInv, read_chunk
<1>2. /\ ChunkIssue(r) \in Plain \cup MissingIssues
      /\ ChunkIssue(r) \in MissingIssues => MissesFile(parts[r])
      /\ ChunkIssue(r) = "none" =>
            /\ byte_size[r] + chunk.bytes <= MaxFileBytes
            /\ total_size[r] + chunk.bytes <= MaxTotalBytes
            /\ Referring(Part(r)) => Decided(parts[r], chunk)
      /\ chunk \in FileChunk
  BY <1>1, ChunkFacts
<1>3. CASE ChunkIssue(r) # "none"
  <2>1. Refuse(r, ChunkIssue(r)) /\ UNCHANGED staging
    BY <1>3 DEF read_chunk
  <2>2. ChunkIssue(r) \in Outcomes /\ ChunkIssue(r) \notin {"revision", "csv_malformed"}
    BY <1>2 DEF Outcomes, Plain, MissingIssues
  <2> QED BY <1>1, <1>2, <2>1, <2>2, RefusedKeeps
<1>4. CASE ChunkIssue(r) = "none"
  <2>1. /\ chunk_count' = [chunk_count EXCEPT ![r] = @ + 1]
        /\ byte_size' = [byte_size EXCEPT ![r] = @ + chunk.bytes]
        /\ total_size' = [total_size EXCEPT ![r] = @ + chunk.bytes]
        /\ UNCHANGED <<parts, phase, entry, temporaries, outcome>>
    BY <1>4 DEF read_chunk
  <2>2. chunk.bytes \in Nat
    BY <1>2 DEF FileChunk
  <2> HIDE DEF chunk, s
  <2>3. PerRequest'
    <3>1. chunk_count[r] + 1 \in Nat /\ byte_size[r] + chunk.bytes \in Nat
          /\ total_size[r] + chunk.bytes \in Nat
      BY <1>1, <2>2 DEF PerRequest
    <3>2. /\ chunk_count' \in [Request -> Nat] /\ byte_size' \in [Request -> Nat]
          /\ total_size' \in [Request -> Nat]
      BY <1>1, <2>1, <3>1 DEF PerRequest
    <3> QED BY <1>1, <2>1, <3>2 DEF PerRequest
  <2>4. \A q \in Request \ {r} : Standing(q)' = Standing(q)
    BY <1>1, <2>1 DEF PerRequest, Standing
  <2>5. /\ chunk_count'[r] = chunk_count[r] + 1
        /\ byte_size'[r] = byte_size[r] + chunk.bytes
        /\ total_size'[r] = total_size[r] + chunk.bytes
    BY <1>1, <2>1 DEF PerRequest
  <2>6. /\ s.parts = parts[r] /\ s.phase = phase[r] /\ s.entry = entry[r]
        /\ s.chunks = chunk_count[r] /\ s.bytes = byte_size[r] /\ s.total = total_size[r]
        /\ s.parts[s.entry] = Part(r)
    BY DEF Standing, Part, s
  <2>7. /\ Standing(r)' \in Standings
        /\ Standing(r)'.phase = "read" /\ Standing(r)'.parts = s.parts
        /\ Standing(r)'.entry = s.entry /\ Standing(r)'.chunks = s.chunks + 1
        /\ Standing(r)'.bytes = s.bytes + chunk.bytes
        /\ Standing(r)'.total = s.total + chunk.bytes
        /\ Standing(r)'.temporaries = s.temporaries /\ Standing(r)'.outcome = s.outcome
    <3>1. Standing(r)' \in Standings
      BY <2>3 DEF PerRequest, Standing, Standings
    <3> QED BY <1>1, <2>1, <2>5, <3>1 DEF Standing, s
  <2>8. chunk = s.parts[s.entry].chunks[s.chunks + 1]
    BY <2>6 DEF NextChunk, chunk
  <2>9. InOrder(Standing(r)')
    BY <1>1, <1>2, <1>4, <2>6, <2>7, <2>8, ReadInOrder
  <2> QED BY <1>1, <2>1, <2>3, <2>4, <2>9, AdvancedKeeps
<1> QED BY <1>3, <1>4

\* The end of the stream: a table is parsed next, another file is staged.
LEMMA FinishStreamKeeps ==
    ASSUME UploadsInv, NEW r \in Request, finish_stream(r)
    PROVE  UploadsInv'
<1> DEFINE s == Standing(r)
<1>1. /\ PerRequest /\ phase[r] = "read" /\ InOrder(s) /\ UNCHANGED limitVars
      /\ chunk_count[r] = Len(Part(r).chunks)
  BY DEF UploadsInv, finish_stream
<1>2. EndIssue(r) \in Plain /\ (EndIssue(r) = "none" => byte_size[r] # 0)
  BY DEF EndIssue, Plain
<1>3. CASE EndIssue(r) # "none"
  <2>1. Refuse(r, EndIssue(r)) /\ UNCHANGED staging
    BY <1>3 DEF finish_stream
  <2>2. /\ EndIssue(r) \in Outcomes
        /\ EndIssue(r) \notin {"revision", "csv_malformed"} \cup MissingIssues
    BY <1>2 DEF Outcomes, Plain, MissingIssues
  <2> QED BY <1>1, <2>1, <2>2, RefusedKeeps
<1>4. CASE EndIssue(r) = "none" /\ Kind(r) = "csv"
  <2>1. /\ phase' = [phase EXCEPT ![r] = "limit"]
        /\ UNCHANGED <<staging, temporaries, outcome>>
    BY <1>4 DEF finish_stream, Goes
  <2>2. PerRequest'
    BY <1>1, <2>1 DEF PerRequest, Phases, Staging, staging
  <2>3. phase'[r] = "limit" /\ \A q \in Request \ {r} : Standing(q)' = Standing(q)
    BY <1>1, <2>1 DEF PerRequest, Standing, staging
  <2>4. /\ s.phase = "read" /\ s.bytes # 0
        /\ s.chunks = Len(s.parts[s.entry].chunks)
        /\ KindOf(s.parts[s.entry].name) = "csv"
    BY <1>1, <1>2, <1>4 DEF Standing, Part, Kind
  <2>5. /\ Standing(r)' \in Standings
        /\ Standing(r)'.phase = "limit" /\ Standing(r)'.parts = s.parts
        /\ Standing(r)'.entry = s.entry /\ Standing(r)'.chunks = s.chunks
        /\ Standing(r)'.bytes = s.bytes /\ Standing(r)'.total = s.total
        /\ Standing(r)'.temporaries = s.temporaries /\ Standing(r)'.outcome = s.outcome
    <3>1. Standing(r)' \in Standings
      BY <2>2 DEF PerRequest, Standing, Standings
    <3> QED BY <1>1, <2>1, <2>3, <3>1 DEF Standing, staging
  <2>6. InOrder(Standing(r)')
    <3> HIDE DEF s
    <3> QED BY <1>1, <2>4, <2>5, TableReadInOrder
  <2> QED BY <1>1, <2>2, <2>3, <2>6, AdvancedKeeps
<1>5. CASE EndIssue(r) = "none" /\ Kind(r) # "csv"
  <2>1. StagesNext(r)
    BY <1>5 DEF finish_stream
  <2>2. /\ PerRequest'
        /\ \A q \in Request : InOrder(Standing(q)')
        /\ phase'[r] # "parse"
        /\ \A q \in Request \ {r} : phase'[q] = phase[q]
    BY <1>1, <1>2, <1>5, <2>1, StagesNextKeeps
  <2>3. LimitInOrder'
    BY <1>1, <2>2, LimitKept
  <2> QED BY <2>2, <2>3 DEF UploadsInv
<1> QED BY <1>3, <1>4, <1>5

\* The lock is free, so the limit is the process's own, which the request keeps.
LEMMA SetFieldLimitKeeps ==
    ASSUME UploadsInv, NEW r \in Request, set_field_limit(r)
    PROVE  UploadsInv'
<1> DEFINE s == Standing(r)
<1>1. /\ PerRequest /\ phase[r] = "limit" /\ InOrder(s) /\ LimitInOrder
      /\ limit_holder = NoRequest
      /\ limit_holder' = r
      /\ previous_limit' = [previous_limit EXCEPT ![r] = field_limit]
      /\ field_limit' = OwnFieldLimit
      /\ phase' = [phase EXCEPT ![r] = "parse"]
      /\ UNCHANGED <<staging, temporaries, outcome>>
  BY DEF UploadsInv, set_field_limit, LimitIsFree, Goes
<1>2. PerRequest'
  BY <1>1 DEF PerRequest, Phases, Staging, staging
<1>3. phase'[r] = "parse" /\ \A q \in Request \ {r} : Standing(q)' = Standing(q)
  BY <1>1 DEF PerRequest, Standing, staging
<1>4. InOrder(Standing(r)')
  <2>1. /\ Standing(r)' \in Standings /\ s.phase = "limit"
        /\ Standing(r)'.phase = "parse" /\ Standing(r)'.parts = s.parts
        /\ Standing(r)'.entry = s.entry /\ Standing(r)'.chunks = s.chunks
        /\ Standing(r)'.bytes = s.bytes /\ Standing(r)'.total = s.total
        /\ Standing(r)'.temporaries = s.temporaries /\ Standing(r)'.outcome = s.outcome
    <3>1. Standing(r)' \in Standings
      BY <1>2 DEF PerRequest, Standing, Standings
    <3> QED BY <1>1, <1>3, <3>1 DEF Standing, staging
  <2> HIDE DEF s
  <2> QED BY <1>1, <2>1, TableReadInOrder
<1>5. LimitInOrder'
  <2>1. \A q \in Request : phase[q] # "parse" /\ q # NoRequest
    BY <1>1, UploadsAssumption DEF LimitInOrder, UploadsAssumption
  <2>2. \A q \in Request : phase'[q] = "parse" <=> q = r
    BY <1>1, <2>1 DEF PerRequest
  <2>3. /\ field_limit = DefaultFieldLimit
        /\ previous_limit'[r] = DefaultFieldLimit
        /\ previous_limit' \in [Request -> Nat]
    BY <1>1 DEF LimitInOrder
  <2> QED BY <1>1, <2>1, <2>2, <2>3, Limits DEF LimitInOrder, OwnFieldLimit
<1>6. \A q \in Request : InOrder(Standing(q)')
  BY <1>2, <1>3, <1>4, StandingStep
<1> QED BY <1>2, <1>5, <1>6 DEF UploadsInv

\* The lock is given back with the limit.
LEMMA ParseCsvKeeps ==
    ASSUME UploadsInv, NEW r \in Request, parse_csv(r)
    PROVE  UploadsInv'
<1>1. /\ PerRequest /\ phase[r] = "parse" /\ InOrder(Standing(r)) /\ LimitInOrder
      /\ field_limit' = previous_limit[r] /\ limit_holder' = NoRequest
      /\ UNCHANGED previous_limit
  BY DEF UploadsInv, parse_csv
<1>2. /\ CsvIssue(r) \in Plain \cup {"csv_malformed"}
      /\ CsvIssue(r) = "csv_malformed" => HasMalformedTable(parts[r])
  BY <1>1, TableFacts
<1>3. /\ PerRequest' /\ \A q \in Request : InOrder(Standing(q)')
      /\ phase'[r] # "parse" /\ \A q \in Request \ {r} : phase'[q] = phase[q]
  <2>1. CASE CsvIssue(r) # "none"
    <3>1. Refuse(r, CsvIssue(r)) /\ UNCHANGED staging
      BY <2>1 DEF parse_csv
    <3>2. CsvIssue(r) \in Outcomes /\ CsvIssue(r) \notin {"revision"} \cup MissingIssues
      BY <1>2 DEF Outcomes, Plain, MissingIssues
    <3> QED BY <1>2, <3>1, <3>2, RefuseKeeps
  <2>2. CASE CsvIssue(r) = "none"
    <3>1. StagesNext(r)
      BY <2>2 DEF parse_csv
    <3>2. byte_size[r] # 0
      BY <1>1 DEF InOrder, Measured, Standing
    <3> QED BY <1>1, <3>1, <3>2, StagesNextKeeps
  <2> QED BY <2>1, <2>2
<1>4. LimitInOrder'
  <2>1. limit_holder = r /\ previous_limit[r] = DefaultFieldLimit
    BY <1>1 DEF LimitInOrder
  <2>2. \A q \in Request : phase'[q] # "parse" /\ q # NoRequest
    BY <1>1, <1>3, <2>1, UploadsAssumption DEF LimitInOrder, UploadsAssumption
  <2> QED BY <1>1, <2>1, <2>2 DEF LimitInOrder
<1> QED BY <1>3, <1>4 DEF UploadsInv

\* Every step keeps the invariant.
LEMMA UploadStepKeeps == UploadsInv /\ [UploadNext]_uploadVars => UploadsInv'
<1> SUFFICES ASSUME UploadsInv, [UploadNext]_uploadVars PROVE UploadsInv'
  OBVIOUS
<1>1. CASE UNCHANGED uploadVars
  <2>1. /\ UNCHANGED <<parts, phase, entry, chunk_count, byte_size, total_size, temporaries,
                       outcome>>
        /\ UNCHANGED limitVars
    BY <1>1 DEF uploadVars, staging
  <2>2. PerRequest' /\ \A q \in Request : Standing(q)' = Standing(q)
    BY <2>1 DEF UploadsInv, PerRequest, Standing
  <2>3. LimitInOrder'
    BY <2>1, LimitKept
  <2> QED BY <2>2, <2>3 DEF UploadsInv
<1>2. ASSUME NEW r \in Request, UploadStep(r) PROVE UploadsInv'
  <2>1. CASE \E form \in Forms : post(r, form)
    BY <2>1, PostKeeps
  <2>2. CASE build_manifest(r)
    BY <2>2, BuildManifestKeeps
  <2>3. CASE open_temporary(r)
    BY <2>3, OpenTemporaryKeeps
  <2>4. CASE \E issue \in {"staging_error", "stream_error"} : staging_fails(r, issue)
    <3>1. PICK issue \in {"staging_error", "stream_error"} : staging_fails(r, issue)
      BY <2>4
    <3>2. /\ phase[r] # "parse" /\ Refuse(r, issue) /\ UNCHANGED staging
          /\ UNCHANGED limitVars
      BY <3>1 DEF staging_fails
    <3>3. issue \in Outcomes
      BY DEF Outcomes, Plain, MissingIssues
    <3> QED BY <3>2, <3>3, RefusedKeeps DEF MissingIssues
  <2>5. CASE read_chunk(r)
    BY <2>5, ReadChunkKeeps
  <2>6. CASE finish_stream(r)
    BY <2>6, FinishStreamKeeps
  <2>7. CASE set_field_limit(r)
    BY <2>7, SetFieldLimitKeeps
  <2>8. CASE parse_csv(r)
    BY <2>8, ParseCsvKeeps
  <2>9. CASE \E result \in {"revision", "not_stored"} : create_upload_revision(r, result)
    <3>1. PICK result \in {"revision", "not_stored"} : create_upload_revision(r, result)
      BY <2>9
    <3>2. /\ phase[r] = "staged" /\ Refuse(r, result) /\ UNCHANGED staging
          /\ UNCHANGED limitVars
      BY <3>1 DEF create_upload_revision
    <3>3. result \in Outcomes
      BY DEF Outcomes, Plain, MissingIssues
    <3> QED BY <3>2, <3>3, RefusedKeeps DEF MissingIssues
  <2> QED BY <1>2, <2>1, <2>2, <2>3, <2>4, <2>5, <2>6, <2>7, <2>8, <2>9 DEF UploadStep
<1> QED BY <1>1, <1>2 DEF UploadNext

LEMMA UploadsInvariant == UploadSpec => []UploadsInv
<1>1. UploadInit => UploadsInv
  BY UploadInitHolds
<1>2. UploadsInv /\ [UploadNext]_uploadVars => UploadsInv'
  BY UploadStepKeeps
<1> QED BY <1>1, <1>2, PTL DEF UploadSpec

----------------------------------------------------------------------------
(* What it gives. *)

\* A request that is over has closed every temporary, whichever file, chunk or
\* parse it failed at, and a staged package has all of its own (stage_upload and
\* _stage_entry, uploads.py).
THEOREM TemporariesAreClosed == UploadSpec => []NoStrayTemporary
<1>1. UploadsInv => NoStrayTemporary
  BY DEF UploadsInv, NoStrayTemporary, InOrder, Orderly, Standing
<1> QED BY <1>1, UploadsInvariant, PTL

\* What is accepted is within every limit, although it is only counted while it
\* streams: the running totals are those of the whole package
\* (_build_manifest and _stage_entry, uploads.py).
THEOREM AcceptedPackagesFit == UploadSpec => []PackageWithinLimits
<1>1. UploadsInv => PackageWithinLimits
  <2> SUFFICES ASSUME UploadsInv, NEW r \in Request,
                      phase[r] = "staged" \/ outcome[r] = "revision"
               PROVE  /\ Cardinality(HtmlParts(parts[r])) = 1
                      /\ Len(parts[r]) <= MaxFiles
                      /\ PackageBytes(parts[r]) <= MaxTotalBytes
                      /\ \A i, j \in DOMAIN parts[r] :
                            /\ BytesOf(parts[r][i]) \in 1..MaxFileBytes
                            /\ i # j => ComparisonKey(parts[r][i].name)
                                           # ComparisonKey(parts[r][j].name)
    BY DEF PackageWithinLimits
  <2>1. parts[r] \in Seq(FilePart)
    <3>1. parts[r] \in Seq(FittingPart)
      BY DEF UploadsInv, PerRequest
    <3> QED BY <3>1 DEF FittingPart
  <2>2. InOrder(Standing(r)) /\ Accepted(Standing(r)) /\ Standing(r).parts = parts[r]
    BY DEF UploadsInv, Accepted, Standing
  <2>3. /\ ManifestIssue(parts[r]) = "none"
        /\ PackageBytes(parts[r]) <= MaxTotalBytes
        /\ \A i \in DOMAIN parts[r] : BytesOf(parts[r][i]) \in 1..MaxFileBytes
    BY <2>2 DEF InOrder, Admitted, Measured
  <2>4. /\ Cardinality(HtmlParts(parts[r])) = 1 /\ Len(parts[r]) \in 1..MaxFiles
        /\ \A i, j \in DOMAIN parts[r] :
              i # j => ComparisonKey(parts[r][i].name) # ComparisonKey(parts[r][j].name)
    BY <2>1, <2>3, ManifestFacts
  <2> QED BY <2>3, <2>4, Limits
<1> QED BY <1>1, UploadsInvariant, PTL

\* Wherever in the upload a file comes, a reference to it is decided the same way:
\* every reference of an accepted package leads to a file of the right kind, and
\* one is reported missing only when it is (_resolve_asset_reference, uploads.py).
THEOREM ReferencesNeedTheirFiles == UploadSpec => []ReferencesAreDecided
<1>1. UploadsInv => ReferencesAreDecided
  <2> SUFFICES ASSUME UploadsInv, NEW r \in Request
               PROVE  LET locals == {c \in References(parts[r]) : IsLocal(c)}
                      IN  /\ phase[r] = "staged" \/ outcome[r] = "revision" =>
                               \A c \in locals :
                                  \E i \in Names(parts[r], c.reference.key) :
                                     KindOf(parts[r][i].name) \in c.allowed
                          /\ outcome[r] \in MissingIssues =>
                               \E c \in locals : Names(parts[r], c.reference.key) = {}
    BY DEF ReferencesAreDecided, IsLocal
  <2> DEFINE ps == parts[r]
  <2>1. /\ InOrder(Standing(r)) /\ Standing(r).parts = ps
        /\ Standing(r).phase = phase[r] /\ Standing(r).outcome = outcome[r]
    BY DEF UploadsInv, Standing
  <2>2. ps \in Seq(FilePart)
    <3>1. ps \in Seq(FittingPart)
      BY DEF UploadsInv, PerRequest
    <3> QED BY <3>1 DEF FittingPart
  <2>3. ASSUME phase[r] = "staged" \/ outcome[r] = "revision",
               NEW c \in References(ps), IsLocal(c)
        PROVE  \E i \in Names(ps, c.reference.key) : KindOf(ps[i].name) \in c.allowed
    <3>1. \A i \in DOMAIN ps : DecidedUpTo(ps, i, Len(ps[i].chunks))
      BY <2>1, <2>3 DEF InOrder, Linked, Accepted
    <3>2. PICK i \in DOMAIN ps : /\ Referring(ps[i])
                                 /\ \E k \in DOMAIN ps[i].chunks : c = ps[i].chunks[k]
      BY <2>3 DEF References, Referring
    <3>3. PICK k \in DOMAIN ps[i].chunks : c = ps[i].chunks[k]
      BY <3>2
    <3>4. k \in 1..Len(ps[i].chunks)
      <4>1. ps[i] \in FilePart
        BY <2>2, <3>2
      <4>2. ps[i].chunks \in Seq(FileChunk)
        BY <4>1 DEF FilePart
      <4> QED BY <3>3, <4>2
    <3>5. Decided(ps, c)
      BY <3>1, <3>2, <3>3, <3>4 DEF DecidedUpTo
    <3> QED BY <2>3, <3>5 DEF Decided
  <2>4. outcome[r] \in MissingIssues => MissesFile(ps)
    BY <2>1 DEF InOrder, Linked
  <2> QED BY <2>3, <2>4 DEF MissesFile
<1> QED BY <1>1, UploadsInvariant, PTL

\* One process's requests share the csv module's field limit; the lock makes it
\* each parse's own and gives the process its old one back (_validate_csv,
\* uploads.py).
THEOREM FieldLimitsAreOwn == UploadSpec => []FieldLimitIsOwn
<1>1. UploadsInv => FieldLimitIsOwn
  BY DEF UploadsInv, FieldLimitIsOwn, LimitInOrder, InOrder, Standing, HasMalformedTable
<1> QED BY <1>1, UploadsInvariant, PTL

----------------------------------------------------------------------------
(* A style sheet that is read through a seam: new is a text, old an initial  *)
(* segment of it, and seen what follows the first o symbols.                 *)

Fits(text) == \A i, j \in 1..Len(text) :
                 Opens(text, i) /\ Closes(text, i, j) => j - i <= Window

\* A url(...) stands at these positions.
Stands(text, i, j) == /\ i \in 1..Len(text) /\ j \in 1..Len(text)
                      /\ Opens(text, i) /\ Closes(text, i, j)

\* Every url(...) is all right, wherever it stands.
GoodUrls(text) == \A i, j : Stands(text, i, j) => GoodMatch(text, <<i, j>>)

\* In a text whose matches are all right, every url(...) is one of them: were it
\* inside an earlier match, that one would hold more than a reference.
LEMMA GoodUrlsAreMatches ==
    ASSUME NEW S, NEW text \in Seq(S)
    PROVE  /\ (\A m \in Matches(text) : GoodMatch(text, m)) <=> GoodUrls(text)
           /\ GoodUrls(text) => \A i, j : <<i, j>> \in Matches(text) <=> Stands(text, i, j)
           /\ \A m \in Matches(text) : \E i, j : m = <<i, j>> /\ Stands(text, i, j)
<1>0. Len(text) \in Nat
  OBVIOUS
<1>1. ASSUME NEW m \in Matches(text)
      PROVE  \E i, j : m = <<i, j>> /\ Stands(text, i, j)
  <2>1. m \in (1..Len(text)) \X (1..Len(text)) /\ Opens(text, m[1]) /\ Closes(text, m[1], m[2])
    BY DEF Matches
  <2>2. PICK i \in 1..Len(text), j \in 1..Len(text) : m = <<i, j>>
    BY <2>1
  <2> QED BY <2>1, <2>2 DEF Stands
<1>2. ASSUME NEW i, NEW j, <<i, j>> \in Matches(text)
      PROVE  Stands(text, i, j)
  <2>1. PICK x, y : <<i, j>> = <<x, y>> /\ Stands(text, x, y)
    BY <1>1, <1>2
  <2> QED BY <2>1
<1>3. ASSUME \A m \in Matches(text) : GoodMatch(text, m), NEW i, NEW j, Stands(text, i, j)
      PROVE  <<i, j>> \in Matches(text)
  <2>1. /\ i \in 1..Len(text) /\ j \in 1..Len(text) /\ i < j
        /\ Is(text, i, "url(") /\ Opens(text, i) /\ Closes(text, i, j) /\ Is(text, j, ")")
        /\ \A k \in (i + 1)..(j - 1) : ~Is(text, k, ")")
    BY <1>3 DEF Stands, Opens, Closes
  <2> DEFINE Unclosed(n) == {k \in 1..(n - 1) : /\ Opens(text, k)
                                              /\ \A x \in (k + 1)..(n - 1) : ~Is(text, x, ")")}
  <2>2. ASSUME NEW n \in 1..Len(text), Opens(text, n), Closes(text, n, j), Unclosed(n) = {}
        PROVE  <<n, j>> \in Matches(text)
    BY <2>1, <2>2 DEF Matches
  <2>3. Unclosed(i) = {}
    <3> SUFFICES ASSUME Unclosed(i) # {} PROVE FALSE
      OBVIOUS
    <3>1. Unclosed(i) \in SUBSET Nat
      BY <1>0, <2>1
    <3>2. PICK k \in Unclosed(i) : \A y \in Unclosed(i) : k <= y
      <4> HIDE DEF Unclosed
      <4> QED BY <3>1, LeastNatural
    <3>3. /\ k \in 1..(i - 1) /\ k \in 1..Len(text) /\ k < j /\ Opens(text, k)
          /\ \A x \in (k + 1)..(i - 1) : ~Is(text, x, ")")
      BY <1>0, <2>1, <3>2
    <3>4. Closes(text, k, j)
      <4>1. ASSUME NEW x \in (k + 1)..(j - 1) PROVE ~Is(text, x, ")")
        <5>1. x \in (k + 1)..(i - 1) \/ x = i \/ x \in (i + 1)..(j - 1)
          BY <1>0, <2>1, <3>3
        <5>2. ~Is(text, i, ")")
          BY <2>1 DEF Is
        <5> QED BY <5>1, <5>2, <2>1, <3>3
      <4> QED BY <4>1, <2>1, <3>3 DEF Closes
    <3>5. Unclosed(k) = {}
      <4> SUFFICES ASSUME NEW y \in Unclosed(k) PROVE FALSE
        OBVIOUS
      <4>1. /\ y \in 1..(k - 1) /\ Opens(text, y) /\ y \in 1..(i - 1) /\ ~(k <= y)
            /\ \A x \in (y + 1)..(k - 1) : ~Is(text, x, ")")
        BY <1>0, <2>1, <3>3
      <4>2. PICK x \in (y + 1)..(i - 1) : Is(text, x, ")")
        BY <4>1, <3>2
      <4>3. x \notin (k + 1)..(i - 1)
        BY <4>2, <3>3
      <4>4. x # k
        BY <4>2, <3>3 DEF Opens, Is
      <4>5. x \in (y + 1)..(k - 1)
        BY <4>2, <4>3, <4>4, <4>1, <3>3, <2>1, <1>0
      <4> QED BY <4>1, <4>2, <4>5
    <3>6. GoodMatch(text, <<k, j>>)
      BY <1>3, <2>2, <3>3, <3>4, <3>5
    <3>7. j = k + 2 /\ Is(text, k + 1, "reference")
      BY <3>6 DEF GoodMatch
    <3>8. i = k + 1
      BY <3>7, <3>3, <2>1, <1>0
    <3> QED BY <3>7, <3>8, <2>1 DEF Is
  <2> QED BY <2>1, <2>2, <2>3
<1>4. (\A m \in Matches(text) : GoodMatch(text, m)) => GoodUrls(text)
  BY <1>3 DEF GoodUrls
<1>5. GoodUrls(text) => \A m \in Matches(text) : GoodMatch(text, m)
  BY <1>1 DEF GoodUrls
<1> QED BY <1>1, <1>2, <1>3, <1>4, <1>5

\* seen is what follows the first o symbols of new.
Suffix(seen, new, o) == /\ o \in Nat
                        /\ Len(new) = o + Len(seen)
                        /\ \A i \in 1..Len(seen) : seen[i] = new[o + i]

\* old is how new begins.
Prefix(old, new) == /\ Len(old) <= Len(new)
                    /\ \A i \in 1..Len(old) : old[i] = new[i]

\* What stands in the first part is read there as in the whole: \b looks back.
LEMMA PrefixesOpenAlike ==
    ASSUME NEW S, NEW old \in Seq(S), NEW new \in Seq(S), Prefix(old, new),
           NEW i \in 1..Len(old)
    PROVE  /\ i \in 1..Len(new) /\ old[i] = new[i]
           /\ StartsWord(old, i) <=> StartsWord(new, i)
           /\ Opens(old, i) <=> Opens(new, i)
           /\ StopsWord(new, i) => StopsWord(old, i)
<1>1. Len(old) \in Nat /\ Len(new) \in Nat /\ Len(old) <= Len(new)
  BY DEF Prefix
<1>2. i \in 1..Len(new) /\ old[i] = new[i]
  BY <1>1 DEF Prefix
<1>3. StartsWord(old, i) <=> StartsWord(new, i)
  <2>1. i = 1 \/ i - 1 \in 1..Len(old)
    BY <1>1
  <2> QED BY <2>1 DEF StartsWord, EndsWord, Prefix
<1>4. StopsWord(new, i) => StopsWord(old, i)
  <2>1. i = Len(old) \/ (i + 1 \in 1..Len(old) /\ i # Len(new))
    BY <1>1
  <2> QED BY <2>1 DEF StopsWord, BeginsWord, Prefix
<1> QED BY <1>2, <1>3, <1>4 DEF Opens, Is

\* What is seen has every word boundary of the whole, and one where it begins.
LEMMA SuffixesOpenMore ==
    ASSUME NEW S, NEW seen \in Seq(S), NEW new \in Seq(S), NEW o, Suffix(seen, new, o),
           NEW k \in 1..Len(seen)
    PROVE  /\ o + k \in 1..Len(new) /\ seen[k] = new[o + k]
           /\ StartsWord(new, o + k) => StartsWord(seen, k)
           /\ Opens(new, o + k) => Opens(seen, k)
           /\ StopsWord(new, o + k) => StopsWord(seen, k)
<1>1. Len(seen) \in Nat /\ Len(new) \in Nat /\ o \in Nat /\ Len(new) = o + Len(seen)
  BY DEF Suffix
<1>2. o + k \in 1..Len(new) /\ seen[k] = new[o + k]
  BY <1>1 DEF Suffix
<1>3. StartsWord(new, o + k) => StartsWord(seen, k)
  <2>1. k = 1 \/ (k - 1 \in 1..Len(seen) /\ o + (k - 1) = (o + k) - 1 /\ o + k # 1)
    BY <1>1
  <2>2. CASE k = 1
    BY <2>2 DEF StartsWord
  <2>3. CASE k - 1 \in 1..Len(seen) /\ o + (k - 1) = (o + k) - 1 /\ o + k # 1
    <3>1. seen[k - 1] = new[(o + k) - 1]
      BY <2>3 DEF Suffix
    <3> QED BY <2>3, <3>1 DEF StartsWord, EndsWord
  <2> QED BY <2>1, <2>2, <2>3
<1>4. StopsWord(new, o + k) => StopsWord(seen, k)
  <2>1. k = Len(seen) \/ (k + 1 \in 1..Len(seen) /\ o + (k + 1) = (o + k) + 1 /\ o + k # Len(new))
    BY <1>1
  <2>2. CASE k = Len(seen)
    BY <2>2 DEF StopsWord
  <2>3. CASE k + 1 \in 1..Len(seen) /\ o + (k + 1) = (o + k) + 1 /\ o + k # Len(new)
    <3>1. seen[k + 1] = new[(o + k) + 1]
      BY <2>3 DEF Suffix
    <3> QED BY <2>3, <3>1 DEF StopsWord, BeginsWord
  <2> QED BY <2>1, <2>2, <2>3
<1> QED BY <1>2, <1>3, <1>4 DEF Opens, Is

\* Two neighbours of the whole are neighbours in one part or the other, as the tail
\* is not empty: an @import, an external URL.
LEMMA PairsThroughASeam ==
    ASSUME NEW S, NEW old \in Seq(S), NEW seen \in Seq(S), NEW new \in Seq(S), NEW o,
           Prefix(old, new), Suffix(seen, new, o), o = 0 \/ Len(old) - o = Window,
           Window \in Nat \ {0}, NEW i \in Pairs(new)
    PROVE  \/ i \in Pairs(old) /\ i \in 1..Len(old) /\ i + 1 \in 1..Len(old)
           \/ \E x \in Pairs(seen) : /\ x \in 1..Len(seen) /\ x + 1 \in 1..Len(seen)
                                     /\ o + x = i /\ o + (x + 1) = i + 1
<1>1. Len(old) \in Nat /\ Len(seen) \in Nat /\ Len(new) \in Nat /\ o \in Nat
  BY DEF Suffix
<1>2. Len(new) = o + Len(seen) /\ Window \in Nat \ {0} /\ i \in 1..(Len(new) - 1)
  BY DEF Suffix, Pairs
<1>3. CASE i + 1 <= Len(old)
  BY <1>1, <1>2, <1>3 DEF Pairs
<1>4. CASE ~(i + 1 <= Len(old))
  <2>1. PICK x \in Int : x = i - o
    BY <1>1, <1>2
  <2>2. x <= Len(seen) - 1 /\ o + x = i
    BY <1>1, <1>2, <2>1
  <2>3. 1 <= x
    BY <1>1, <1>2, <1>4, <2>1
  <2>4. x \in Pairs(seen) /\ x \in 1..Len(seen) /\ x + 1 \in 1..Len(seen) /\ o + (x + 1) = i + 1
    BY <1>1, <2>1, <2>2, <2>3 DEF Pairs
  <2> QED BY <2>2, <2>4
<1> QED BY <1>3, <1>4

\* So neither is missed.
LEMMA NothingSlipsThroughASeam ==
    ASSUME NEW S, NEW old \in Seq(S), NEW seen \in Seq(S), NEW new \in Seq(S), NEW o,
           Prefix(old, new), Suffix(seen, new, o), o = 0 \/ Len(old) - o = Window,
           Window \in Nat \ {0}
    PROVE  /\ HasImport(new) => HasImport(old) \/ HasImport(seen)
           /\ HasExternalUrl(new) => HasExternalUrl(old) \/ HasExternalUrl(seen)
<1>1. ASSUME NEW i \in Pairs(new), Is(new, i, "@"), Is(new, i + 1, "import"),
             StopsWord(new, i + 1)
      PROVE  HasImport(old) \/ HasImport(seen)
  <2>1. CASE i \in Pairs(old) /\ i \in 1..Len(old) /\ i + 1 \in 1..Len(old)
    <3>1. old[i] = new[i] /\ old[i + 1] = new[i + 1] /\ StopsWord(old, i + 1)
      BY <1>1, <2>1, PrefixesOpenAlike
    <3> QED BY <1>1, <2>1, <3>1 DEF HasImport, Is
  <2>2. ASSUME NEW x \in Pairs(seen), x \in 1..Len(seen), x + 1 \in 1..Len(seen),
               o + x = i, o + (x + 1) = i + 1
        PROVE  HasImport(seen)
    <3>1. seen[x] = new[o + x] /\ seen[x + 1] = new[o + (x + 1)]
      BY <2>2, SuffixesOpenMore
    <3>2. StopsWord(seen, x + 1)
      BY <1>1, <2>2, SuffixesOpenMore
    <3> QED BY <1>1, <2>2, <3>1, <3>2 DEF HasImport, Is
  <2> QED BY <2>1, <2>2, PairsThroughASeam
<1>2. ASSUME NEW i \in Pairs(new),
             \/ Is(new, i, "scheme") /\ StartsWord(new, i) /\ Is(new, i + 1, "//")
             \/ Is(new, i, "//") /\ BeginsWord(new, i + 1)
      PROVE  HasExternalUrl(old) \/ HasExternalUrl(seen)
  <2>1. CASE i \in Pairs(old) /\ i \in 1..Len(old) /\ i + 1 \in 1..Len(old)
    <3>1. /\ old[i] = new[i] /\ old[i + 1] = new[i + 1]
          /\ StartsWord(new, i) => StartsWord(old, i)
      BY <2>1, PrefixesOpenAlike
    <3> QED BY <1>2, <2>1, <3>1 DEF HasExternalUrl, Is, BeginsWord
  <2>2. ASSUME NEW x \in Pairs(seen), x \in 1..Len(seen), x + 1 \in 1..Len(seen),
               o + x = i, o + (x + 1) = i + 1
        PROVE  HasExternalUrl(seen)
    <3>1. seen[x] = new[o + x] /\ seen[x + 1] = new[o + (x + 1)]
      BY <2>2, SuffixesOpenMore
    <3>2. StartsWord(new, i) => StartsWord(seen, x)
      BY <2>2, SuffixesOpenMore
    <3> QED BY <1>2, <2>2, <3>1, <3>2 DEF HasExternalUrl, Is, BeginsWord
  <2> QED BY <2>1, <2>2, PairsThroughASeam
<1> QED BY <1>1, <1>2 DEF HasImport, HasExternalUrl

\* A url(...) of the first part stands in the whole, is as good there, and closes
\* where it did, whatever is in front of it.
LEMMA UrlsOfAPrefix ==
    ASSUME NEW S, NEW old \in Seq(S), NEW new \in Seq(S), Prefix(old, new),
           NEW i \in 1..Len(old), NEW j \in 1..Len(old)
    PROVE  /\ Closes(old, i, j) <=> Closes(new, i, j)
           /\ Stands(old, i, j) <=> Stands(new, i, j)
           /\ Closes(old, i, j) =>
                 /\ old[i + 1] = new[i + 1]
                 /\ GoodMatch(old, <<i, j>>) <=> GoodMatch(new, <<i, j>>)
<1>1. Len(old) \in Nat /\ Len(new) \in Nat /\ Len(old) <= Len(new)
  BY DEF Prefix
<1>2. \A k \in 1..j : \A s : Is(old, k, s) <=> Is(new, k, s)
  BY <1>1 DEF Prefix, Is
<1>3. Closes(old, i, j) <=> Closes(new, i, j)
  BY <1>1, <1>2 DEF Closes
<1>4. Stands(old, i, j) <=> Stands(new, i, j)
  BY <1>1, <1>3, PrefixesOpenAlike DEF Stands
<1>5. ASSUME Closes(old, i, j)
      PROVE  /\ old[i + 1] = new[i + 1]
             /\ GoodMatch(old, <<i, j>>) <=> GoodMatch(new, <<i, j>>)
  <2>1. i + 1 \in 1..Len(old)
    BY <1>1, <1>5 DEF Closes
  <2>2. old[i + 1] = new[i + 1]
    BY <2>1 DEF Prefix
  <2> QED BY <2>2 DEF GoodMatch, Is
<1> QED BY <1>3, <1>4, <1>5

\* What is between two symbols that are seen is seen.
LEMMA UrlsOfASuffix ==
    ASSUME NEW S, NEW seen \in Seq(S), NEW new \in Seq(S), NEW o, Suffix(seen, new, o),
           NEW i \in 1..Len(seen), NEW j \in 1..Len(seen)
    PROVE  /\ Closes(seen, i, j) <=> Closes(new, o + i, o + j)
           /\ Stands(new, o + i, o + j) => Stands(seen, i, j)
           /\ Closes(seen, i, j) =>
                 /\ seen[i + 1] = new[(o + i) + 1]
                 /\ GoodMatch(seen, <<i, j>>) <=> GoodMatch(new, <<o + i, o + j>>)
<1>1. Len(seen) \in Nat /\ Len(new) \in Nat /\ o \in Nat /\ Len(new) = o + Len(seen)
  BY DEF Suffix
<1>2. \A k \in 1..Len(seen) : \A s : Is(seen, k, s) <=> Is(new, o + k, s)
  BY DEF Suffix, Is
<1>3. ASSUME Closes(seen, i, j) PROVE Closes(new, o + i, o + j)
  <2>1. ASSUME NEW k \in ((o + i) + 1)..((o + j) - 1) PROVE ~Is(new, k, ")")
    <3>1. PICK x \in Int : x = k - o
      BY <1>1
    <3>2. x \in (i + 1)..(j - 1) /\ x \in 1..Len(seen) /\ o + x = k
      BY <3>1, <1>1
    <3> QED BY <3>2, <1>2, <1>3 DEF Closes
  <2>2. o + i < o + j /\ Is(new, o + j, ")")
    BY <1>1, <1>2, <1>3 DEF Closes
  <2> QED BY <2>1, <2>2 DEF Closes
<1>4. ASSUME Closes(new, o + i, o + j) PROVE Closes(seen, i, j)
  <2>1. ASSUME NEW x \in (i + 1)..(j - 1) PROVE ~Is(seen, x, ")")
    <3>1. o + x \in ((o + i) + 1)..((o + j) - 1) /\ x \in 1..Len(seen)
      BY <1>1
    <3> QED BY <3>1, <1>2, <1>4 DEF Closes
  <2>2. i < j /\ Is(seen, j, ")")
    BY <1>1, <1>2, <1>4 DEF Closes
  <2> QED BY <2>1, <2>2 DEF Closes
<1>5. Stands(new, o + i, o + j) => Stands(seen, i, j)
  BY <1>4, SuffixesOpenMore DEF Stands
<1>6. ASSUME Closes(seen, i, j)
      PROVE  /\ seen[i + 1] = new[(o + i) + 1]
             /\ GoodMatch(seen, <<i, j>>) <=> GoodMatch(new, <<o + i, o + j>>)
  <2>1. i + 1 \in 1..Len(seen) /\ o + (i + 1) = (o + i) + 1
    BY <1>1, <1>6 DEF Closes
  <2>2. seen[i + 1] = new[(o + i) + 1]
    BY <2>1 DEF Suffix
  <2>3. j = i + 2 <=> o + j = (o + i) + 2
    BY <1>1
  <2> QED BY <2>2, <2>3 DEF GoodMatch, Is
<1> QED BY <1>3, <1>4, <1>5, <1>6

\* The files that a text which is not wrong refers to.
LEMMA FilesOfAGoodText ==
    ASSUME NEW S, NEW text \in Seq(S), ~Wrong(text)
    PROVE  /\ GoodUrls(text)
           /\ \A f : f \in FilesIn(text) <=>
                 \E i, j : /\ Stands(text, i, j)
                          /\ text[i + 1].reference.form = "local"
                          /\ f = text[i + 1].reference.key
<1>1. GoodUrls(text) /\ \A i, j : <<i, j>> \in Matches(text) <=> Stands(text, i, j)
  BY GoodUrlsAreMatches DEF Wrong
<1>2. \A m \in Matches(text) : \E i, j : m = <<i, j>> /\ Stands(text, i, j)
  BY GoodUrlsAreMatches
<1>3. ASSUME NEW f \in FilesIn(text)
      PROVE  \E i, j : /\ Stands(text, i, j)
                      /\ text[i + 1].reference.form = "local"
                      /\ f = text[i + 1].reference.key
  <2>1. PICK m \in Matches(text) : /\ text[m[1] + 1].reference.form = "local"
                                   /\ f = text[m[1] + 1].reference.key
    BY DEF FilesIn
  <2>2. PICK i, j : m = <<i, j>> /\ Stands(text, i, j)
    BY <1>2
  <2> QED BY <2>1, <2>2
<1>4. ASSUME NEW i, NEW j, Stands(text, i, j), text[i + 1].reference.form = "local"
      PROVE  text[i + 1].reference.key \in FilesIn(text)
  <2>1. <<i, j>> \in Matches(text)
    BY <1>1, <1>4
  <2> QED BY <2>1, <1>4 DEF FilesIn
<1> QED BY <1>1, <1>3, <1>4

\* Where nothing is wrong in what was read before and in what is seen now, nothing is
\* wrong in the whole, and each of its files is in one part or the other.
LEMMA ReadingThroughASeam ==
    ASSUME NEW S, NEW old \in Seq(S), NEW seen \in Seq(S), NEW new \in Seq(S), NEW o,
           Prefix(old, new), Suffix(seen, new, o), o = 0 \/ Len(old) - o = Window,
           Window \in Nat \ {0}, Fits(new), ~Wrong(old), ~Wrong(seen)
    PROVE  /\ ~Wrong(new)
           /\ FilesIn(new) \subseteq FilesIn(old) \cup FilesIn(seen)
<1>1. /\ Len(old) \in Nat /\ Len(seen) \in Nat /\ Len(new) \in Nat /\ o \in Nat
      /\ Len(new) = o + Len(seen)
  BY DEF Suffix
<1>2. GoodUrls(old) /\ GoodUrls(seen)
  BY FilesOfAGoodText
<1>3. ASSUME NEW i, NEW j, Stands(new, i, j)
      PROVE  \/ Stands(old, i, j) /\ old[i + 1] = new[i + 1] /\ GoodMatch(new, <<i, j>>)
             \/ \E a, b : /\ Stands(seen, a, b) /\ seen[a + 1] = new[i + 1]
                         /\ GoodMatch(new, <<i, j>>)
  <2>1. i \in 1..Len(new) /\ j \in 1..Len(new) /\ i < j /\ j - i <= Window
    BY <1>3 DEF Stands, Closes, Fits
  <2>2. CASE j <= Len(old)
    <3>1. i \in 1..Len(old) /\ j \in 1..Len(old)
      BY <1>1, <2>1, <2>2
    <3>2. Stands(old, i, j) /\ Closes(old, i, j)
      BY <3>1, <1>3, UrlsOfAPrefix DEF Stands
    <3> QED BY <3>1, <3>2, <1>2, UrlsOfAPrefix DEF GoodUrls
  <2>3. CASE ~(j <= Len(old))
    <3>1. i > o
      BY <1>1, <2>1, <2>3
    <3>2. PICK a \in Int : a = i - o
      BY <1>1, <2>1
    <3>3. PICK b \in Int : b = j - o
      BY <1>1, <2>1
    <3>4. a \in 1..Len(seen) /\ b \in 1..Len(seen) /\ o + a = i /\ o + b = j
      BY <1>1, <2>1, <3>1, <3>2, <3>3
    <3>5. Stands(seen, a, b) /\ Closes(seen, a, b)
      <4>1. Stands(new, o + a, o + b)
        BY <3>4, <1>3
      <4>2. Stands(seen, a, b)
        BY <3>4, <4>1, UrlsOfASuffix
      <4> QED BY <4>2 DEF Stands
    <3>6. seen[a + 1] = new[i + 1] /\ GoodMatch(new, <<i, j>>)
      <4>1. /\ seen[a + 1] = new[(o + a) + 1]
            /\ GoodMatch(seen, <<a, b>>) <=> GoodMatch(new, <<o + a, o + b>>)
        BY <3>4, <3>5, UrlsOfASuffix
      <4>2. GoodMatch(seen, <<a, b>>)
        BY <3>5, <1>2 DEF GoodUrls
      <4> QED BY <3>4, <4>1, <4>2
    <3> QED BY <3>5, <3>6
  <2> QED BY <2>2, <2>3
<1>4. GoodUrls(new)
  BY <1>3 DEF GoodUrls
<1>5. ~Wrong(new)
  BY <1>4, GoodUrlsAreMatches, NothingSlipsThroughASeam DEF Wrong
<1>6. ASSUME NEW f \in FilesIn(new) PROVE f \in FilesIn(old) \cup FilesIn(seen)
  <2>1. PICK i, j : /\ Stands(new, i, j) /\ new[i + 1].reference.form = "local"
                    /\ f = new[i + 1].reference.key
    BY <1>5, FilesOfAGoodText
  <2>2. CASE Stands(old, i, j) /\ old[i + 1] = new[i + 1]
    BY <2>1, <2>2, FilesOfAGoodText
  <2>3. CASE \E a, b : Stands(seen, a, b) /\ seen[a + 1] = new[i + 1]
    BY <2>1, <2>3, FilesOfAGoodText
  <2> QED BY <1>3, <2>1, <2>2, <2>3
<1> QED BY <1>5, <1>6

\* What is wrong in what is seen is in the whole, if only as a part of a word, and so
\* is each file that is listed.
LEMMA SeenIsThere ==
    ASSUME NEW S, NEW seen \in Seq(S), NEW new \in Seq(S), NEW o, Suffix(seen, new, o)
    PROVE  /\ Wrong(seen) => WrongIfGlued(new)
           /\ ~Wrong(seen) => FilesIn(seen) \subseteq GluedFiles(new)
<1>1. Len(seen) \in Nat /\ Len(new) \in Nat /\ o \in Nat /\ Len(new) = o + Len(seen)
  BY DEF Suffix
<1>2. ASSUME NEW i \in Pairs(seen)
      PROVE  /\ o + i \in Pairs(new)
             /\ seen[i] = new[o + i] /\ seen[i + 1] = new[(o + i) + 1]
  <2>1. /\ i \in 1..Len(seen) /\ i + 1 \in 1..Len(seen) /\ o + (i + 1) = (o + i) + 1
        /\ o + i \in 1..(Len(new) - 1)
    BY <1>1 DEF Pairs
  <2>2. seen[i] = new[o + i] /\ seen[i + 1] = new[o + (i + 1)]
    BY <2>1, SuffixesOpenMore
  <2> QED BY <2>1, <2>2 DEF Pairs
<1>3. HasImport(seen) \/ HasExternalUrl(seen) => WrongIfGlued(new)
  BY <1>2 DEF HasImport, HasExternalUrl, WrongIfGlued, Is, BeginsWord
<1>4. ASSUME NEW i, NEW j, Stands(seen, i, j)
      PROVE  /\ <<o + i, o + j>> \in GluedUrls(new)
             /\ seen[i + 1] = new[(o + i) + 1]
             /\ GoodMatch(seen, <<i, j>>) <=> GoodMatch(new, <<o + i, o + j>>)
  <2>1. i \in 1..Len(seen) /\ j \in 1..Len(seen) /\ Closes(seen, i, j) /\ Is(seen, i, "url(")
    BY <1>4 DEF Stands, Opens
  <2>2. /\ Closes(new, o + i, o + j) /\ seen[i + 1] = new[(o + i) + 1]
        /\ GoodMatch(seen, <<i, j>>) <=> GoodMatch(new, <<o + i, o + j>>)
    BY <2>1, UrlsOfASuffix
  <2>3. o + i \in 1..Len(new) /\ o + j \in 1..Len(new) /\ Is(new, o + i, "url(")
    BY <2>1, SuffixesOpenMore DEF Is
  <2> QED BY <2>2, <2>3 DEF GluedUrls
<1>5. ASSUME NEW m \in Matches(seen), ~GoodMatch(seen, m) PROVE WrongIfGlued(new)
  <2>1. PICK i, j : m = <<i, j>> /\ Stands(seen, i, j)
    BY GoodUrlsAreMatches
  <2> QED BY <2>1, <1>4, <1>5 DEF WrongIfGlued
<1>6. ASSUME ~Wrong(seen), NEW f \in FilesIn(seen) PROVE f \in GluedFiles(new)
  <2>1. PICK i, j : /\ Stands(seen, i, j) /\ seen[i + 1].reference.form = "local"
                    /\ f = seen[i + 1].reference.key
    BY <1>6, FilesOfAGoodText
  <2>2. GoodMatch(seen, <<i, j>>)
    BY <2>1, <1>6, FilesOfAGoodText DEF GoodUrls
  <2>3. PICK m \in GluedUrls(new) : m = <<o + i, o + j>>
    BY <2>1, <1>4
  <2>4. GoodMatch(new, m) /\ m[1] = o + i /\ seen[i + 1] = new[(o + i) + 1]
    BY <2>1, <2>2, <2>3, <1>4
  <2> QED BY <2>1, <2>4 DEF GluedFiles
<1> QED BY <1>3, <1>5, <1>6 DEF Wrong

\* Files that were there stay there.
LEMMA GluedFilesStay ==
    ASSUME NEW S, NEW old \in Seq(S), NEW new \in Seq(S), Prefix(old, new)
    PROVE  GluedFiles(old) \subseteq GluedFiles(new)
<1>1. SUFFICES ASSUME NEW f \in GluedFiles(old) PROVE f \in GluedFiles(new)
  OBVIOUS
<1>2. PICK m \in GluedUrls(old) : /\ GoodMatch(old, m)
                                  /\ old[m[1] + 1].reference.form = "local"
                                  /\ f = old[m[1] + 1].reference.key
  BY <1>1 DEF GluedFiles
<1>3. PICK i \in 1..Len(old), j \in 1..Len(old) :
          m = <<i, j>> /\ Is(old, i, "url(") /\ Closes(old, i, j)
  BY <1>2 DEF GluedUrls
<1>4. /\ Closes(new, i, j) /\ old[i + 1] = new[i + 1]
      /\ GoodMatch(new, <<i, j>>) /\ Is(new, i, "url(")
      /\ i \in 1..Len(new) /\ j \in 1..Len(new)
  BY <1>2, <1>3, UrlsOfAPrefix, PrefixesOpenAlike DEF Is
<1>5. <<i, j>> \in GluedUrls(new)
  BY <1>4 DEF GluedUrls
<1> QED BY <1>2, <1>3, <1>4, <1>5 DEF GluedFiles

----------------------------------------------------------------------------
(* The CSS validator, chunk by chunk.                                       *)

\* What is kept is the end of what was read: all of it, or as much as the window.
TailIsKept == \E o : /\ Suffix(css.tail, document, o)
                     /\ o = 0 \/ Len(css.tail) = Window

\* What the CSS validator has kept is the end of the text, and what it has listed is
\* right.
CssInv ==
    /\ language \in {"none", "html", "css"}
    /\ language = "none" => document = <<>> /\ verdict = "reading"
    /\ language # "css" => css = [tail |-> <<>>, references |-> {}]
    /\ language = "css" =>
          /\ document \in Seq(Symbols)
          /\ css.tail \in Seq(Symbols)
          /\ css = [tail |-> css.tail, references |-> css.references]
          /\ verdict \in {"reading", "refused", "accepted"}
          /\ verdict = "refused" => WrongIfGlued(document)
          /\ verdict # "refused" => /\ TailIsKept
                                   /\ css.references \subseteq GluedFiles(document)
          /\ Fits(document) /\ verdict # "refused" =>
                ~Wrong(document) /\ FilesIn(document) \subseteq css.references

\* What fits the window fitted it before.
LEMMA ShorterTextsFit ==
    ASSUME NEW S, NEW old \in Seq(S), NEW new \in Seq(S), Prefix(old, new), Fits(new)
    PROVE  Fits(old)
<1>1. SUFFICES ASSUME NEW i \in 1..Len(old), NEW j \in 1..Len(old),
                      Opens(old, i), Closes(old, i, j)
               PROVE  j - i <= Window
  BY DEF Fits
<1>2. i \in 1..Len(new) /\ j \in 1..Len(new) /\ Opens(new, i)
  BY <1>1, PrefixesOpenAlike
<1>3. Closes(new, i, j)
  BY <1>1, UrlsOfAPrefix
<1> QED BY <1>2, <1>3 DEF Fits

\* Nothing is wrong with an empty text.
LEMMA EmptyTexts ==
    /\ ~Wrong(<<>>) /\ FilesIn(<<>>) = {} /\ <<>> \in Seq(Symbols)
    /\ Suffix(<<>>, <<>>, 0)
<1>1. Len(<<>>) = 0
  OBVIOUS
<1>2. Matches(<<>>) = {}
  BY <1>1 DEF Matches
<1>3. Pairs(<<>>) = {}
  BY <1>1 DEF Pairs
<1>4. ~HasImport(<<>>) /\ ~HasExternalUrl(<<>>)
  BY <1>3 DEF HasImport, HasExternalUrl
<1> QED BY <1>1, <1>2, <1>4 DEF Wrong, FilesIn, Suffix

LEMMA ChunksAreTexts ==
    ASSUME NEW data \in Chunks PROVE data \in Seq(Symbols)
<1>1. PICK n \in 1..MaxChunk : data \in [1..n -> Symbols]
  BY DEF Chunks
<1>2. n \in Nat
  BY <1>1, MarkupAssumption
<1> QED BY <1>1, <1>2

\* Tail and chunk are a suffix of the text with the chunk.
LEMMA SuffixesGrow ==
    ASSUME NEW S, NEW seen \in Seq(S), NEW new \in Seq(S), NEW data \in Seq(S), NEW o,
           Suffix(seen, new, o)
    PROVE  /\ seen \o data \in Seq(S) /\ new \o data \in Seq(S)
           /\ Len(seen \o data) = Len(seen) + Len(data)
           /\ Suffix(seen \o data, new \o data, o)
           /\ Prefix(new, new \o data)
<1>1. /\ Len(seen) \in Nat /\ Len(new) \in Nat /\ Len(data) \in Nat /\ o \in Nat
      /\ Len(new) = o + Len(seen)
  BY DEF Suffix
<1>2. /\ seen \o data \in Seq(S) /\ new \o data \in Seq(S)
      /\ Len(seen \o data) = Len(seen) + Len(data)
      /\ Len(new \o data) = Len(new) + Len(data)
  OBVIOUS
<1>3. ASSUME NEW i \in 1..Len(seen \o data)
      PROVE  (seen \o data)[i] = (new \o data)[o + i]
  <2>1. CASE i <= Len(seen)
    <3>1. i \in 1..Len(seen) /\ o + i \in 1..Len(new)
      BY <2>1, <1>1, <1>2
    <3>2. (seen \o data)[i] = seen[i] /\ (new \o data)[o + i] = new[o + i]
      BY <3>1
    <3> QED BY <3>1, <3>2 DEF Suffix
  <2>2. CASE ~(i <= Len(seen))
    <3>1. PICK k \in Int : k = i - Len(seen)
      BY <1>1
    <3>2. k \in 1..Len(data) /\ i = Len(seen) + k /\ o + i = Len(new) + k
      BY <2>2, <1>1, <1>2, <3>1
    <3>3. (seen \o data)[i] = data[i - Len(seen)]
      BY <2>2, <1>1, <1>2
    <3>4. PICK j \in Int : j = o + i
      BY <1>1
    <3>5. j \in 1..Len(new \o data) /\ ~(j <= Len(new)) /\ j - Len(new) = k
      BY <3>2, <3>4, <1>1, <1>2
    <3>6. (new \o data)[j] = data[j - Len(new)]
      BY <3>5, <1>1, <1>2
    <3> QED BY <3>1, <3>3, <3>4, <3>5, <3>6
  <2> QED BY <2>1, <2>2
<1>4. Prefix(new, new \o data)
  <2>1. \A i \in 1..Len(new) : new[i] = (new \o data)[i]
    BY <1>1
  <2> QED BY <2>1, <1>1, <1>2 DEF Prefix
<1> QED BY <1>1, <1>2, <1>3, <1>4 DEF Suffix

\* The end of a suffix is a suffix, as long as the window or the whole text.
LEMMA LastOfIsKept ==
    ASSUME NEW S, NEW text \in Seq(S), NEW new \in Seq(S), NEW o,
           Suffix(text, new, o), Window \in Nat \ {0}, o = 0 \/ Len(text) >= Window
    PROVE  /\ LastOf(text) \in Seq(S)
           /\ \E x : /\ Suffix(LastOf(text), new, x)
                     /\ x = 0 \/ Len(LastOf(text)) = Window
<1>1. Len(text) \in Nat /\ Len(new) \in Nat /\ o \in Nat /\ Len(new) = o + Len(text)
  BY DEF Suffix
<1>2. CASE Len(text) > Window
  <2>1. PICK c \in Nat : c = Len(text) - Window
    BY <1>1, <1>2
  <2>2. LastOf(text) = SubSeq(text, c + 1, Len(text))
    BY <1>2, <2>1, <1>1 DEF LastOf
  <2>3. /\ LastOf(text) \in Seq(S) /\ Len(LastOf(text)) = Window
        /\ \A k \in 1..Window : LastOf(text)[k] = text[c + k]
    <3>1. Len(text) - (c + 1) + 1 = Window /\ c + 1 \in 1..Len(text) /\ c + 1 <= Len(text) + 1
      BY <1>1, <1>2, <2>1
    <3>2. Len(LastOf(text)) = Window /\ LastOf(text) \in Seq(S)
      BY <2>2, <3>1, <1>1
    <3>3. ASSUME NEW k \in 1..Window PROVE LastOf(text)[k] = text[c + k]
      <4>1. k \in 1..(Len(text) - (c + 1) + 1) /\ (c + 1) + k - 1 = c + k
        BY <3>1, <2>1, <1>1
      <4> QED BY <4>1, <2>2, <1>1
    <3> QED BY <3>2, <3>3
  <2>4. Suffix(LastOf(text), new, o + c)
    <3>1. ASSUME NEW k \in 1..Window PROVE LastOf(text)[k] = new[(o + c) + k]
      <4>1. c + k \in 1..Len(text) /\ o + (c + k) = (o + c) + k
        BY <1>1, <1>2, <2>1
      <4> QED BY <4>1, <2>3 DEF Suffix
    <3>2. o + c \in Nat /\ Len(new) = (o + c) + Window
      BY <1>1, <2>1
    <3> QED BY <2>3, <3>1, <3>2 DEF Suffix
  <2> QED BY <2>3, <2>4
<1>3. CASE ~(Len(text) > Window)
  <2>1. LastOf(text) = SubSeq(text, 1, Len(text))
    BY <1>3 DEF LastOf
  <2>2. LastOf(text) = text
    BY <2>1
  <2>3. o = 0 \/ Len(text) = Window
    BY <1>1, <1>3
  <2> QED BY <2>2, <2>3
<1> QED BY <1>2, <1>3

LEMMA MarkupInitCss == MarkupInit => CssInv
<1> SUFFICES ASSUME MarkupInit PROVE CssInv
  OBVIOUS
<1> QED BY DEF MarkupInit, CssInv

\* A chunk is read behind the tail.
LEMMA FeedKeepsCss ==
    ASSUME CssInv, NEW data \in Chunks, feed(data)
    PROVE  CssInv'
<1> DEFINE text == css.tail \o data
<1>1. data \in Seq(Symbols) /\ Window \in Nat \ {0}
  BY ChunksAreTexts, MarkupAssumption
<1>2. /\ verdict = "reading" /\ language \in {"none", "css"} /\ language' = "css"
      /\ document' = document \o data
      /\ _inspect(text, Kept(css.tail, data), "reading")
  BY DEF feed, Reads
<1>3. /\ document \in Seq(Symbols) /\ css.tail \in Seq(Symbols) /\ TailIsKept
      /\ css = [tail |-> css.tail, references |-> css.references]
      /\ css.references \subseteq GluedFiles(document)
      /\ Fits(document) => ~Wrong(document) /\ FilesIn(document) \subseteq css.references
  <2>1. CASE language = "none"
    <3>1. document = <<>> /\ css = [tail |-> <<>>, references |-> {}]
      BY <2>1 DEF CssInv
    <3>2. css.tail = <<>> /\ css.references = {}
      BY <3>1
    <3>3. TailIsKept
      BY <3>1, <3>2, EmptyTexts DEF TailIsKept
    <3>4. css = [tail |-> css.tail, references |-> css.references]
      BY <3>1, <3>2
    <3> QED BY <3>1, <3>2, <3>3, <3>4, EmptyTexts
  <2>2. CASE language = "css"
    BY <2>2, <1>2 DEF CssInv
  <2> QED BY <1>2, <2>1, <2>2
<1>4. PICK o : Suffix(css.tail, document, o) /\ (o = 0 \/ Len(css.tail) = Window)
  BY <1>3 DEF TailIsKept
<1>5. /\ Len(document) \in Nat /\ Len(css.tail) \in Nat /\ Len(data) \in Nat /\ o \in Nat
      /\ Len(document) = o + Len(css.tail)
  BY <1>1, <1>3, <1>4 DEF Suffix
<1>6. /\ text \in Seq(Symbols) /\ document' \in Seq(Symbols)
      /\ Len(text) = Len(css.tail) + Len(data)
      /\ Suffix(text, document', o)
      /\ Prefix(document, document')
  BY <1>1, <1>2, <1>3, <1>4, SuffixesGrow
<1>8. o = 0 \/ Len(document) - o = Window
  BY <1>4, <1>5, <1>1
<1>9. ASSUME Fits(document'), ~Wrong(text)
      PROVE  /\ ~Wrong(document')
             /\ FilesIn(document') \subseteq css.references \cup FilesIn(text)
  <2>1. Fits(document)
    BY <1>3, <1>6, <1>9, ShorterTextsFit
  <2>2. ~Wrong(document) /\ FilesIn(document) \subseteq css.references
    BY <2>1, <1>3
  <2> HIDE DEF text
  <2>3. ~Wrong(document') /\ FilesIn(document') \subseteq FilesIn(document) \cup FilesIn(text)
    BY <2>2, <1>1, <1>3, <1>6, <1>8, <1>9, ReadingThroughASeam
  <2> QED BY <2>2, <2>3
<1>10. CASE Wrong(text)
  <2>1. verdict' = "refused" /\ css' = css
    BY <1>2, <1>10 DEF _inspect
  <2> HIDE DEF text
  <2>2. WrongIfGlued(document')
    BY <1>6, <1>10, SeenIsThere
  <2> QED BY <1>2, <1>3, <1>6, <2>1, <2>2 DEF CssInv
<1>11. CASE ~Wrong(text)
  <2>1. /\ verdict' = "reading"
        /\ css' = [tail |-> LastOf(text), references |-> css.references \cup FilesIn(text)]
    BY <1>2, <1>11 DEF _inspect, Kept
  <2>2. o = 0 \/ Len(text) >= Window
    BY <1>4, <1>5, <1>6, <1>1
  <2> HIDE DEF text
  <2>3. LastOf(text) \in Seq(Symbols) /\ TailIsKept'
    BY <1>1, <1>6, <2>1, <2>2, LastOfIsKept DEF TailIsKept
  <2>4. css.references \cup FilesIn(text) \subseteq GluedFiles(document')
    <3>1. FilesIn(text) \subseteq GluedFiles(document')
      BY <1>6, <1>11, SeenIsThere
    <3>2. GluedFiles(document) \subseteq GluedFiles(document')
      BY <1>3, <1>6, GluedFilesStay
    <3> QED BY <3>1, <3>2, <1>3
  <2> QED BY <1>2, <1>6, <1>9, <1>11, <2>1, <2>3, <2>4 DEF CssInv
<1> QED BY <1>10, <1>11

\* At the end the tail is read again: it has nothing in it that is not there.
LEMMA FinishKeepsCss ==
    ASSUME CssInv, finish_css
    PROVE  CssInv'
<1>1. /\ verdict = "reading" /\ language = "css" /\ language' = "css"
      /\ document' = document
      /\ _inspect(css.tail, css.tail, "accepted")
  BY DEF finish_css
<1>2. /\ document \in Seq(Symbols) /\ css.tail \in Seq(Symbols) /\ TailIsKept
      /\ css = [tail |-> css.tail, references |-> css.references]
      /\ css.references \subseteq GluedFiles(document)
      /\ Fits(document) => ~Wrong(document) /\ FilesIn(document) \subseteq css.references
  BY <1>1 DEF CssInv
<1>3. PICK o : Suffix(css.tail, document, o)
  BY <1>2 DEF TailIsKept
<1>4. CASE Wrong(css.tail)
  <2>1. verdict' = "refused" /\ css' = css
    BY <1>1, <1>4 DEF _inspect
  <2>2. WrongIfGlued(document)
    BY <1>2, <1>3, <1>4, SeenIsThere
  <2> QED BY <1>1, <1>2, <2>1, <2>2 DEF CssInv
<1>5. CASE ~Wrong(css.tail)
  <2>1. /\ verdict' = "accepted"
        /\ css' = [tail |-> css.tail, references |-> css.references \cup FilesIn(css.tail)]
    BY <1>1, <1>5 DEF _inspect
  <2>2. TailIsKept'
    BY <1>1, <1>2, <2>1 DEF TailIsKept
  <2>3. FilesIn(css.tail) \subseteq GluedFiles(document)
    BY <1>2, <1>3, <1>5, SeenIsThere
  <2> QED BY <1>1, <1>2, <2>1, <2>2, <2>3 DEF CssInv
<1> QED BY <1>4, <1>5

\* The HTML validator leaves the other one alone.
HtmlStep ==
    \/ handle_decl
    \/ handle_other_markup
    \/ \E tag \in Tag, self_closing \in BOOLEAN :
          \/ \E attribute \in Attribute, reference \in Reference :
                handle_starttag(tag, attribute, reference, self_closing)
          \/ handle_starttag(tag, NoAttribute, NoAttribute, self_closing)
    \/ \E tag \in Tag : handle_endtag(tag)
    \/ \E reference \in Reference : handle_data(reference)
    \/ handle_charref
    \/ finish_html

\* The HTML validator's steps are none of the CSS validator's.
LEMMA HtmlStepsLeaveCss ==
    ASSUME HtmlStep
    PROVE  language' = "html" /\ language \in {"none", "html"} /\ css' = css
<1>1. ASSUME NEW token, NEW refuses, NEW next, Html(token, refuses, next)
      PROVE  language' = "html" /\ language \in {"none", "html"} /\ css' = css
  BY <1>1 DEF Html, Reads
<1>2. CASE handle_decl
  BY <1>1, <1>2 DEF handle_decl
<1>3. CASE handle_other_markup
  BY <1>1, <1>3 DEF handle_other_markup
<1>4. CASE \E tag \in Tag : handle_endtag(tag)
  BY <1>1, <1>4 DEF handle_endtag
<1>5. CASE \E reference \in Reference : handle_data(reference)
  BY <1>1, <1>5 DEF handle_data
<1>6. CASE finish_html
  BY <1>6 DEF finish_html
<1>7. ASSUME NEW tag, NEW attribute, NEW reference, NEW self_closing,
             handle_starttag(tag, attribute, reference, self_closing)
      PROVE  language' = "html" /\ language \in {"none", "html"} /\ css' = css
  BY <1>1, <1>7 DEF handle_starttag
<1>8. CASE handle_charref
  BY <1>1, <1>8 DEF handle_charref
<1> QED BY <1>2, <1>3, <1>4, <1>5, <1>6, <1>7, <1>8 DEF HtmlStep

LEMMA MarkupNextKeepsCss ==
    ASSUME CssInv, [MarkupNext]_markupVars
    PROVE  CssInv'
<1>1. CASE HtmlStep
  BY <1>1, HtmlStepsLeaveCss DEF CssInv
<1>2. CASE \E data \in Chunks : feed(data)
  BY <1>2, FeedKeepsCss
<1>3. CASE finish_css
  BY <1>3, FinishKeepsCss
<1>4. CASE UNCHANGED markupVars
  BY <1>4 DEF markupVars, CssInv, TailIsKept
<1> QED BY <1>1, <1>2, <1>3, <1>4 DEF MarkupNext, HtmlStep

\* However a style sheet is cut into chunks, what _CssValidator.feed and finish accept
\* has nothing wrong in it and every file it refers to is listed, and what they refuse
\* has something wrong in it, if only as a part of a word: for every window and policy.
THEOREM StyleSheetsAreReadThrough == MarkupSpec => []StyleVerdict
<1>1. CssInv => StyleVerdict
  <2>1. FitsWindow <=> Fits(document)
    BY DEF FitsWindow, Fits
  <2> QED BY <2>1 DEF CssInv, StyleVerdict
<1>2. MarkupInit => CssInv
  BY MarkupInitCss
<1>3. CssInv /\ [MarkupNext]_markupVars => CssInv'
  BY MarkupNextKeepsCss
<1> QED BY <1>1, <1>2, <1>3, PTL DEF MarkupSpec

----------------------------------------------------------------------------
(* A document that grows by one token. *)

Tokens == [token : {"decl", "other", "start", "startend", "end", "data", "charref"},
           tag : Tag \cup {"doctype html", "none"},
           attribute : Attribute \cup {NoAttribute},
           reference : Reference \cup {NoAttribute}]

\* Reading token t makes document' of document.
Extends(t) == /\ document \in Seq(Tokens)
              /\ t \in Tokens
              /\ document' = document \o <<t>>

\* The new text, its last token and those before.
LEMMA ExtendedText ==
    ASSUME NEW t, Extends(t), NEW n, n = Len(document) + 1
    PROVE  /\ n \in Nat \ {0} /\ Len(document') = n /\ n - 1 = Len(document)
           /\ document' \in Seq(Tokens) /\ document'[n] = t
           /\ \A i \in 1..(n - 1) : document'[i] = document[i]
           /\ DOMAIN document = 1..(n - 1) /\ DOMAIN document' = 1..n
<1>1. document \in Seq(Tokens) /\ <<t>> \in Seq(Tokens) /\ Len(<<t>>) = 1 /\ <<t>>[1] = t
  BY DEF Extends
<1>2. /\ n \in Nat \ {0} /\ Len(document') = n /\ document' \in Seq(Tokens)
      /\ n - 1 = Len(document) /\ DOMAIN document = 1..(n - 1) /\ DOMAIN document' = 1..n
  <2>1. Len(document) \in Nat
    BY <1>1
  <2> QED BY <1>1, <2>1 DEF Extends
<1>3. document'[n] = t
  BY <1>1, <1>2 DEF Extends
<1>4. \A i \in 1..(n - 1) : document'[i] = document[i]
  BY <1>1, <1>2 DEF Extends
<1> QED BY <1>2, <1>3, <1>4

\* Sets of positions are finite.
LEMMA SegmentsAreFinite ==
    ASSUME NEW m \in Nat, NEW P \in SUBSET (1..m)
    PROVE  IsFiniteSet(P) /\ Cardinality(P) \in Nat
<1>1. IsFiniteSet(1..m)
  BY FS_Interval
<1>2. IsFiniteSet(P)
  BY <1>1, FS_Subset
<1> QED BY <1>2, FS_CardinalityType

\* Counting over one more place.
LEMMA OneMore ==
    ASSUME NEW n \in Nat \ {0}, NEW P \in SUBSET (1..(n - 1)), NEW Q \in SUBSET (1..n),
           \A i \in 1..(n - 1) : i \in Q <=> i \in P
    PROVE  Cardinality(Q) = Cardinality(P) + (IF n \in Q THEN 1 ELSE 0)
<1>1. IsFiniteSet(P) /\ Cardinality(P) \in Nat
  BY SegmentsAreFinite
<1>0. /\ \A i \in Q : i \in 1..n /\ (i = n \/ i \in 1..(n - 1))
      /\ \A i \in P : i \in 1..(n - 1) /\ i # n
  OBVIOUS
<1>2. CASE n \in Q
  <2>1. Q = P \cup {n} /\ n \notin P
    BY <1>0, <1>2
  <2>2. Cardinality(P \cup {n}) = Cardinality(P) + 1
    BY <2>1, <1>1, FS_AddElement
  <2> QED BY <1>2, <2>1, <2>2
<1>3. CASE n \notin Q
  <2>1. Q = P
    BY <1>0, <1>3
  <2> QED BY <1>1, <1>3, <2>1
<1> QED BY <1>2, <1>3

\* A depth is an integer.
LEMMA DepthsAreIntegers ==
    ASSUME document \in Seq(Tokens), NEW i \in 1..(Len(document) + 1) PROVE Depth(i) \in Int
<1>1. i - 1 \in Nat
  OBVIOUS
<1>2. /\ Cardinality({j \in 1..(i - 1) : Starts(j)}) \in Nat
      /\ Cardinality({j \in 1..(i - 1) : Ends(j)}) \in Nat
  BY <1>1, SegmentsAreFinite
<1> QED BY <1>2 DEF Depth

\* What is said of a token depends on the tokens up to it.
LEMMA TokensBeforeStay ==
    ASSUME NEW t, Extends(t), NEW n, n = Len(document) + 1
    PROVE  /\ \A i \in 1..(n - 1) : (Starts(i)' <=> Starts(i)) /\ (Ends(i)' <=> Ends(i))
           /\ \A i \in 1..n : Depth(i)' = Depth(i)
           /\ Starts(n)' <=> t.token = "start" /\ t.tag \notin _HTML_VOID_ELEMENTS
           /\ Ends(n)' <=> t.token = "end"
           /\ StartsAny(n)' <=> t.token \in {"start", "startend"}
           /\ Depth(n + 1)' = Depth(n) + (IF Starts(n)' THEN 1 ELSE 0)
                                       - (IF t.token = "end" THEN 1 ELSE 0)
<1>1. /\ n \in Nat \ {0} /\ document'[n] = t
      /\ \A i \in 1..(n - 1) : document'[i] = document[i]
  BY ExtendedText
<1>2. ASSUME NEW i \in 1..(n - 1)
      PROVE  (Starts(i)' <=> Starts(i)) /\ (Ends(i)' <=> Ends(i))
  BY <1>1 DEF Starts, Ends
<1>3. ASSUME NEW i \in 1..n PROVE Depth(i)' = Depth(i)
  <2>1. \A j \in 1..(i - 1) : j \in 1..(n - 1)
    BY <1>1
  <2>2. /\ {j \in 1..(i - 1) : Starts(j)}' = {j \in 1..(i - 1) : Starts(j)}
        /\ {j \in 1..(i - 1) : Ends(j)}' = {j \in 1..(i - 1) : Ends(j)}
    BY <1>2, <2>1
  <2> QED BY <2>2 DEF Depth
<1>4. /\ Starts(n)' <=> t.token = "start" /\ t.tag \notin _HTML_VOID_ELEMENTS
      /\ Ends(n)' <=> t.token = "end"
      /\ StartsAny(n)' <=> t.token \in {"start", "startend"}
  BY <1>1 DEF Starts, Ends, StartsAny
<1>5. Depth(n + 1)' = Depth(n) + (IF Starts(n)' THEN 1 ELSE 0)
                               - (IF t.token = "end" THEN 1 ELSE 0)
  <2> DEFINE P == {j \in 1..(n - 1) : Starts(j)}
             Q == {j \in 1..n : Starts(j)'}
             R == {j \in 1..(n - 1) : Ends(j)}
             T == {j \in 1..n : Ends(j)'}
  <2>1. Cardinality(Q) = Cardinality(P) + (IF n \in Q THEN 1 ELSE 0)
    <3>1. P \in SUBSET (1..(n - 1)) /\ Q \in SUBSET (1..n)
      OBVIOUS
    <3>2. \A i \in 1..(n - 1) : i \in Q <=> i \in P
      BY <1>1, <1>2
    <3> HIDE DEF P, Q
    <3> QED BY <3>1, <3>2, <1>1, OneMore
  <2>2. Cardinality(T) = Cardinality(R) + (IF n \in T THEN 1 ELSE 0)
    <3>1. R \in SUBSET (1..(n - 1)) /\ T \in SUBSET (1..n)
      OBVIOUS
    <3>2. \A i \in 1..(n - 1) : i \in T <=> i \in R
      BY <1>1, <1>2
    <3> HIDE DEF R, T
    <3> QED BY <3>1, <3>2, <1>1, OneMore
  <2>3. (n \in Q <=> Starts(n)') /\ (n \in T <=> t.token = "end")
    BY <1>1, <1>4
  <2>4. Depth(n) = Cardinality(P) - Cardinality(R)
    BY DEF Depth
  <2>5. Depth(n + 1)' = Cardinality(Q) - Cardinality(T)
    <3>1. (n + 1) - 1 = n
      BY <1>1
    <3> QED BY <3>1 DEF Depth
  <2>6. Cardinality(P) \in Nat /\ Cardinality(R) \in Nat
    <3>1. n - 1 \in Nat /\ P \in SUBSET (1..(n - 1)) /\ R \in SUBSET (1..(n - 1))
      BY <1>1
    <3> HIDE DEF P, R
    <3> QED BY <3>1, SegmentsAreFinite
  <2> HIDE DEF P, Q, R, T
  <2> QED BY <2>1, <2>2, <2>3, <2>4, <2>5, <2>6
<1> QED BY <1>2, <1>3, <1>4, <1>5

\* What is innermost before a token was so before the next one came.
LEMMA InnermostStays ==
    ASSUME NEW t, Extends(t), NEW n, n = Len(document) + 1,
           NEW i \in 1..n, NEW j \in 1..(i - 1)
    PROVE  (Innermost(j, i)' <=> Innermost(j, i)) /\ document'[j] = document[j]
<1>1. n \in Nat \ {0} /\ j \in 1..(n - 1) /\ j \in 1..n
  BY ExtendedText
<1>2. (Starts(j)' <=> Starts(j)) /\ Depth(j)' = Depth(j) /\ Depth(i)' = Depth(i)
  BY <1>1, TokensBeforeStay
<1>3. \A k \in (j + 1)..i : Depth(k)' = Depth(k)
  <2>1. \A k \in (j + 1)..i : k \in 1..n
    BY <1>1
  <2> QED BY <2>1, TokensBeforeStay
<1> QED BY <1>1, <1>2, <1>3, ExtendedText DEF Innermost

\* A token stays right, or wrong.
LEMMA RightTokensStay ==
    ASSUME NEW t, Extends(t), NEW n, n = Len(document) + 1, NEW i \in 1..(n - 1)
    PROVE  TokenIsRight(i)' <=> TokenIsRight(i)
<1>1. n \in Nat \ {0} /\ i \in 1..n /\ \A j \in 1..(i - 1) : j \in 1..(n - 1)
  BY ExtendedText
<1>2. document'[i] = document[i] /\ \A j \in 1..(i - 1) : document'[j] = document[j]
  BY <1>1, ExtendedText
<1>3. \A j \in 1..(i - 1) : (Innermost(j, i)' <=> Innermost(j, i)) /\ (Starts(j)' <=> Starts(j))
  BY <1>1, InnermostStays, TokensBeforeStay
<1>4. (Starts(i)' <=> Starts(i)) /\ (Ends(i)' <=> Ends(i)) /\ Depth(i)' = Depth(i)
  BY <1>1, TokensBeforeStay
<1>5. StartsAny(i)' <=> StartsAny(i)
  BY <1>2 DEF StartsAny
<1>6. InCode(i)' <=> InCode(i)
  BY <1>2, <1>3 DEF InCode
<1>7. Resolves(i)' <=> Resolves(i)
  BY <1>2, <1>3, <1>5, <1>6 DEF Resolves
<1> QED BY <1>2, <1>3, <1>4, <1>5, <1>7 DEF TokenIsRight

----------------------------------------------------------------------------
(* What the stack and the flags of _HtmlValidator say of the document. *)

\* Token j opened the m-th element of the stack, which has been open since.
OpenedBy(m, j) == /\ Starts(j)
                  /\ document[j].tag = html.stack[m]
                  /\ Depth(j) = m - 1
                  /\ \A k \in (j + 1)..(Len(document) + 1) : Depth(k) >= m

\* The types of the validator's fields.
HtmlStates ==
    [stack : Seq(Tag), root_seen : BOOLEAN, root_closed : BOOLEAN,
     doctype_seen : BOOLEAN, head_seen : BOOLEAN, body_seen : BOOLEAN,
     token_count : Nat, references : SUBSET {r.key : r \in Reference}]

\* An element of this tag was started.
Met(tag) == \E j \in 1..Len(document) : Starts(j) /\ document[j].tag = tag

\* The stack has the elements that are open, each opened by a token.
StackFollows == /\ Len(html.stack) <= MaxNesting
                /\ Depth(Len(document) + 1) = Len(html.stack)
                /\ \A m \in 1..Len(html.stack) : \E j \in 1..Len(document) : OpenedBy(m, j)

\* The flags say what was met.
FlagsFollow ==
    /\ html.root_seen => Met("html")
    /\ (\E j \in 1..Len(document) : Starts(j)) => html.root_seen
    /\ html.root_closed => html.root_seen
    /\ html.root_seen /\ html.stack = <<>> => html.root_closed
    /\ html.head_seen <=> Met("head")
    /\ html.body_seen <=> Met("body")
    /\ html.doctype_seen <=> \E j \in 1..Len(document) : document[j].token = "decl"

\* The stack and the flags are what the document says.
Follows == /\ document \in Seq(Tokens)
           /\ html \in HtmlStates
           /\ StackFollows
           /\ FlagsFollow
           /\ html.token_count
                 = Cardinality({i \in DOMAIN document : document[i].token \notin Uncounted})

LEMMA FollowsTypes ==
    ASSUME Follows
    PROVE  /\ html.stack \in Seq(Tag) /\ Len(html.stack) \in Nat
           /\ html.token_count \in Nat
           /\ html.stack = <<>> <=> Len(html.stack) = 0
BY DEF Follows, HtmlStates

\* The innermost open element is the one on top of the stack.
LEMMA TopIsInnermost ==
    ASSUME Follows, WellFormedSoFar, html.stack # <<>>, NEW n, n = Len(document) + 1
    PROVE  /\ \E j \in 1..(n - 1) : Innermost(j, n) /\ document[j].tag = Top(html.stack)
           /\ \A j \in 1..(n - 1) : Innermost(j, n) => document[j].tag = Top(html.stack)
           /\ Met(Top(html.stack)) /\ Top(html.stack) \notin _HTML_VOID_ELEMENTS
           /\ html.stack[1] = "html" /\ html.root_seen
<1>1. /\ html.stack \in Seq(Tag) /\ Len(html.stack) \in Nat \ {0}
      /\ document \in Seq(Tokens) /\ Len(document) \in Nat /\ n \in Nat \ {0}
      /\ n - 1 = Len(document) /\ Depth(n) = Len(html.stack)
      /\ DOMAIN document = 1..(n - 1)
  <2>1. document \in Seq(Tokens) /\ Len(document) \in Nat /\ DOMAIN document = 1..Len(document)
    BY DEF Follows
  <2> QED BY <2>1, FollowsTypes DEF Follows, StackFollows
<1> DEFINE m == Len(html.stack)
<1>2. m \in 1..m /\ 1 \in 1..m /\ m \in Nat
  BY <1>1
<1>3. PICK j \in 1..Len(document) : OpenedBy(m, j)
  BY <1>2 DEF Follows, StackFollows
<1>4. PICK h \in 1..Len(document) : OpenedBy(1, h)
  BY <1>2 DEF Follows, StackFollows
<1>5. /\ Starts(j) /\ document[j].tag = Top(html.stack) /\ Depth(j) = Depth(n) - 1
      /\ \A k \in (j + 1)..n : Depth(k) >= Depth(n)
  BY <1>1, <1>3 DEF OpenedBy, Top
<1>6. j \in 1..(n - 1) /\ j < n /\ Innermost(j, n)
  BY <1>1, <1>5 DEF Innermost
<1>7. ASSUME NEW i \in 1..(n - 1), Innermost(i, n) PROVE i = j
  <2>1. Depth(i) = Depth(n) - 1 /\ \A k \in (i + 1)..n : Depth(k) >= Depth(n)
    BY <1>7 DEF Innermost
  <2>2. ~(i < j)
    <3> SUFFICES ASSUME i < j PROVE FALSE
      OBVIOUS
    <3>1. j \in (i + 1)..n
      BY <1>1, <1>6
    <3>2. Depth(j) >= Depth(n)
      BY <2>1, <3>1
    <3> QED BY <3>2, <1>5, <1>1
  <2>3. ~(j < i)
    <3> SUFFICES ASSUME j < i PROVE FALSE
      OBVIOUS
    <3>1. i \in (j + 1)..n
      BY <1>1, <1>6
    <3>2. Depth(i) >= Depth(n)
      BY <1>5, <3>1
    <3> QED BY <3>2, <2>1, <1>1
  <2> QED BY <2>2, <2>3, <1>1
<1>8. html.stack[1] = "html"
  <2>1. Starts(h) /\ document[h].tag = html.stack[1] /\ Depth(h) = 0
    BY <1>4 DEF OpenedBy
  <2>2. TokenIsRight(h)
    BY <1>1 DEF WellFormedSoFar
  <2> QED BY <2>1, <2>2 DEF TokenIsRight, Starts
<1>9. html.root_seen
  BY <1>5 DEF Follows, FlagsFollow
<1>10. Top(html.stack) \notin _HTML_VOID_ELEMENTS
  BY <1>5 DEF Starts
<1> QED BY <1>1, <1>5, <1>6, <1>7, <1>8, <1>9, <1>10 DEF Met

\* What the model says of the place of a new token, in terms of the stack.
LEMMA NewPlace ==
    ASSUME NEW t, Extends(t), Follows, WellFormedSoFar, NEW n, n = Len(document) + 1
    PROVE  /\ document'[n] = t /\ Depth(n)' = Len(html.stack)
           /\ \A tag : (\E j \in 1..(n - 1) : Starts(j)' /\ document'[j].tag = tag) <=> Met(tag)
           /\ html.stack # <<>> =>
                 /\ \E j \in 1..(n - 1) : Innermost(j, n)' /\ document'[j].tag = Top(html.stack)
                 /\ \A j \in 1..(n - 1) : Innermost(j, n)' => document'[j].tag = Top(html.stack)
<1>1. /\ n \in Nat \ {0} /\ n \in 1..n /\ document'[n] = t /\ n - 1 = Len(document)
      /\ \A j \in 1..(n - 1) : document'[j] = document[j]
  BY ExtendedText
<1>2. Depth(n)' = Len(html.stack)
  <2>1. Depth(n)' = Depth(n)
    BY <1>1, TokensBeforeStay
  <2> QED BY <2>1 DEF Follows, StackFollows
<1>3. \A j \in 1..(n - 1) : Starts(j)' <=> Starts(j)
  BY TokensBeforeStay
<1>4. \A j \in 1..(n - 1) : Innermost(j, n)' <=> Innermost(j, n)
  BY <1>1, InnermostStays
<1>5. \A tag : (\E j \in 1..(n - 1) : Starts(j)' /\ document'[j].tag = tag) <=> Met(tag)
  BY <1>1, <1>3 DEF Met
<1>6. ASSUME html.stack # <<>>
      PROVE  /\ \E j \in 1..(n - 1) : Innermost(j, n)' /\ document'[j].tag = Top(html.stack)
             /\ \A j \in 1..(n - 1) : Innermost(j, n)' => document'[j].tag = Top(html.stack)
  BY <1>1, <1>4, <1>6, TopIsInnermost
<1> QED BY <1>1, <1>2, <1>5, <1>6

\* Text stands within an element; in a style or a script, its references may be used.
LEMMA DataIsRight ==
    ASSUME NEW t, Extends(t), Follows, WellFormedSoFar, NEW n, n = Len(document) + 1,
           t.token = "data"
    PROVE  TokenIsRight(n)' <=>
              /\ html.stack # <<>>
              /\ Top(html.stack) \in {"style", "script"} =>
                    CodeMayUse(Top(html.stack), t.reference)
<1>1. document'[n] = t /\ Depth(n)' = Len(html.stack)
  BY NewPlace
<1>2. ~Starts(n)' /\ ~Ends(n)' /\ ~StartsAny(n)'
  BY <1>1 DEF Starts, Ends, StartsAny
<1>3. Len(html.stack) \in Nat /\ Len(html.stack) <= MaxNesting
      /\ (html.stack = <<>> <=> Len(html.stack) = 0) /\ MaxNesting \in Nat
  BY FollowsTypes, MarkupAssumption DEF Follows, StackFollows
<1>4. TokenIsRight(n)' <=> Resolves(n)' /\ html.stack # <<>>
  BY <1>1, <1>2, <1>3 DEF TokenIsRight
<1>5. ASSUME html.stack # <<>>
      PROVE  Resolves(n)' <=>
                (Top(html.stack) \in {"style", "script"} =>
                    CodeMayUse(Top(html.stack), t.reference))
  <2>1. /\ \E j \in 1..(n - 1) : Innermost(j, n)' /\ document'[j].tag = Top(html.stack)
        /\ \A j \in 1..(n - 1) : Innermost(j, n)' => document'[j].tag = Top(html.stack)
    BY <1>5, NewPlace
  <2>2. InCode(n)' <=> Top(html.stack) \in {"style", "script"}
    BY <2>1 DEF InCode
  <2>3. Resolves(n)' <=>
           (InCode(n)' => \E j \in 1..(n - 1) :
                             Innermost(j, n)' /\ CodeMayUse(document'[j].tag, t.reference))
    BY <1>1, <1>2 DEF Resolves
  <2>4. (\E j \in 1..(n - 1) : Innermost(j, n)' /\ CodeMayUse(document'[j].tag, t.reference))
            <=> CodeMayUse(Top(html.stack), t.reference)
    BY <2>1
  <2> QED BY <2>2, <2>3, <2>4
<1> QED BY <1>4, <1>5

\* A character reference may stand anywhere.
LEMMA CharrefIsRight ==
    ASSUME NEW t, Extends(t), Follows, WellFormedSoFar, NEW n, n = Len(document) + 1,
           t.token = "charref"
    PROVE  TokenIsRight(n)'
<1>1. document'[n] = t /\ Depth(n)' = Len(html.stack)
  BY NewPlace
<1>2. ~Starts(n)' /\ ~Ends(n)' /\ ~StartsAny(n)' /\ Resolves(n)'
  BY <1>1 DEF Starts, Ends, StartsAny, Resolves
<1>3. Len(html.stack) \in Nat /\ Len(html.stack) <= MaxNesting /\ MaxNesting \in Nat
  BY FollowsTypes, MarkupAssumption DEF Follows, StackFollows
<1> QED BY <1>1, <1>2, <1>3 DEF TokenIsRight

\* An end tag closes the top of the stack.
LEMMA EndIsRight ==
    ASSUME NEW t, Extends(t), Follows, WellFormedSoFar, NEW n, n = Len(document) + 1,
           t.token = "end"
    PROVE  TokenIsRight(n)' <=> html.stack # <<>> /\ Top(html.stack) = t.tag
<1>1. document'[n] = t /\ Depth(n)' = Len(html.stack)
  BY NewPlace
<1>2. ~Starts(n)' /\ Ends(n)' /\ ~StartsAny(n)' /\ Resolves(n)'
  BY <1>1 DEF Starts, Ends, StartsAny, Resolves
<1>3. Len(html.stack) \in Nat /\ Len(html.stack) <= MaxNesting
      /\ (html.stack = <<>> <=> Len(html.stack) = 0) /\ MaxNesting \in Nat
  BY FollowsTypes, MarkupAssumption DEF Follows, StackFollows
<1>4. TokenIsRight(n)' <=>
         /\ html.stack # <<>>
         /\ \E j \in 1..(n - 1) : Innermost(j, n)' /\ document'[j].tag = t.tag
  BY <1>1, <1>2, <1>3 DEF TokenIsRight
<1>5. ASSUME html.stack # <<>>
      PROVE  (\E j \in 1..(n - 1) : Innermost(j, n)' /\ document'[j].tag = t.tag)
                <=> Top(html.stack) = t.tag
  BY <1>5, NewPlace
<1> QED BY <1>4, <1>5

\* A declaration comes once, and outside of every element.
LEMMA DeclarationIsRight ==
    ASSUME NEW t, Extends(t), Follows, WellFormedSoFar, NEW n, n = Len(document) + 1,
           t.token = "decl"
    PROVE  TokenIsRight(n)' <=> html.stack = <<>> /\ ~html.doctype_seen
<1>1. document'[n] = t /\ Depth(n)' = Len(html.stack)
  BY NewPlace
<1>2. ~Starts(n)' /\ ~Ends(n)' /\ ~StartsAny(n)' /\ Resolves(n)'
  BY <1>1 DEF Starts, Ends, StartsAny, Resolves
<1>3. Len(html.stack) \in Nat /\ Len(html.stack) <= MaxNesting
      /\ (html.stack = <<>> <=> Len(html.stack) = 0) /\ MaxNesting \in Nat
  BY FollowsTypes, MarkupAssumption DEF Follows, StackFollows
<1>4. html.doctype_seen <=> \E j \in 1..(n - 1) : document'[j].token = "decl"
  BY ExtendedText DEF Follows, FlagsFollow
<1>5. TokenIsRight(n)' <=> /\ html.stack = <<>>
                           /\ \A j \in 1..(n - 1) : document'[j].token # "decl"
  BY <1>1, <1>2, <1>3 DEF TokenIsRight
<1> QED BY <1>4, <1>5

\* A start tag is right when the validator's stack and flags let it pass.
LEMMA StartIsRight ==
    ASSUME NEW t, Extends(t), Follows, WellFormedSoFar, NEW n, n = Len(document) + 1,
           t.token \in {"start", "startend"}
    PROVE  TokenIsRight(n)' <=>
              /\ t.tag \notin _HTML_FORBIDDEN_ELEMENTS \cup {"form"}
              /\ ~RefusesPlace(t.tag)
              /\ ~RefusesAttribute(t.tag, t.attribute, t.reference)
              /\ t.tag \notin _HTML_VOID_ELEMENTS =>
                    t.token = "start" /\ Len(html.stack) < MaxNesting
<1> DEFINE void == t.tag \in _HTML_VOID_ELEMENTS
           refused == RefusesAttribute(t.tag, t.attribute, t.reference)
<1>1. document'[n] = t /\ Depth(n)' = Len(html.stack)
  BY NewPlace
<1>2. /\ Starts(n)' <=> t.token = "start" /\ ~void
      /\ ~Ends(n)' /\ StartsAny(n)' /\ (Resolves(n)' <=> ~refused)
  BY <1>1 DEF Starts, Ends, StartsAny, Resolves
<1>3. Len(html.stack) \in Nat /\ Len(html.stack) <= MaxNesting
      /\ (html.stack = <<>> <=> Len(html.stack) = 0) /\ MaxNesting \in Nat
  BY FollowsTypes, MarkupAssumption DEF Follows, StackFollows
<1>4. \A tag : (\E j \in 1..(n - 1) : Starts(j)' /\ document'[j].tag = tag) <=> Met(tag)
  BY NewPlace
<1> DEFINE Placed ==
        /\ t.tag = "html" => ~Met("html")
        /\ t.tag = "head" => Len(html.stack) = 1 /\ ~Met("head") /\ ~Met("body")
        /\ t.tag = "body" => Len(html.stack) = 1 /\ ~Met("body")
<1>5. TokenIsRight(n)' <=>
         /\ ~refused
         /\ Len(html.stack) <= MaxNesting - (IF t.token = "start" /\ ~void THEN 1 ELSE 0)
         /\ Len(html.stack) = 0 => t.token = "start" /\ ~void /\ t.tag = "html"
         /\ t.tag \notin _HTML_FORBIDDEN_ELEMENTS \cup {"form"}
         /\ t.token = "startend" => void
         /\ Placed
  <2>1. /\ t.tag = "html" =>
              ((\A j \in 1..(n - 1) : ~(Starts(j)' /\ document'[j].tag = "html")) <=> ~Met("html"))
        /\ (\A j \in 1..(n - 1) : ~(Starts(j)' /\ document'[j].tag \in {"head", "body"}))
              <=> ~Met("head") /\ ~Met("body")
        /\ (\A j \in 1..(n - 1) : ~(Starts(j)' /\ document'[j].tag = "body")) <=> ~Met("body")
    BY <1>4
  <2> HIDE DEF refused, void
  <2> QED BY <1>1, <1>2, <2>1 DEF TokenIsRight, refused, void
<1>6. Placed /\ (Len(html.stack) = 0 => t.tag = "html") <=> ~RefusesPlace(t.tag)
  <2>1. html.stack # <<>> => html.stack[1] = "html" /\ html.root_seen /\ Met("html")
    BY TopIsInnermost DEF Follows, FlagsFollow
  <2>2. /\ html.root_seen <=> Met("html")
        /\ html.root_closed => html.root_seen
        /\ html.head_seen <=> Met("head")
        /\ html.body_seen <=> Met("body")
    BY DEF Follows, FlagsFollow, Met
  <2>3. html.stack = <<"html">> <=> Len(html.stack) = 1
    <3>1. html.stack = <<"html">> => Len(html.stack) = 1
      OBVIOUS
    <3>2. ASSUME Len(html.stack) = 1 PROVE html.stack = <<"html">>
      <4>1. html.stack \in Seq(Tag) /\ html.stack[1] = "html"
        BY <1>3, <2>1, <3>2, FollowsTypes
      <4> QED BY <4>1, <3>2
    <3> QED BY <3>1, <3>2
  <2>4. CASE html.stack = <<>>
    BY <2>2, <2>3, <2>4, <1>3 DEF RefusesPlace
  <2>5. CASE html.stack # <<>>
    BY <2>1, <2>2, <2>3, <2>5, <1>3 DEF RefusesPlace
  <2> QED BY <2>4, <2>5
<1>7. "html" \notin _HTML_VOID_ELEMENTS
  BY DEF _HTML_VOID_ELEMENTS
<1>8. Len(html.stack) <= MaxNesting - 1 <=> Len(html.stack) < MaxNesting
  BY <1>3
<1> HIDE DEF void, Placed, refused
<1>9. void => t.tag # "html"
  BY <1>7 DEF void
<1>10. CASE void
  <2>1. TokenIsRight(n)' <=>
           /\ ~refused
           /\ Len(html.stack) = 0 => t.tag = "html"
           /\ t.tag \notin _HTML_FORBIDDEN_ELEMENTS \cup {"form"}
           /\ Placed
    BY <1>3, <1>5, <1>9, <1>10
  <2> QED BY <1>6, <1>10, <2>1 DEF void, refused
<1>11. CASE ~void
  <2>1. TokenIsRight(n)' <=>
           /\ ~refused
           /\ t.token = "start" /\ Len(html.stack) < MaxNesting
           /\ Len(html.stack) = 0 => t.tag = "html"
           /\ t.tag \notin _HTML_FORBIDDEN_ELEMENTS \cup {"form"}
           /\ Placed
    BY <1>5, <1>8, <1>11
  <2> QED BY <1>6, <1>11, <2>1 DEF void, refused
<1> QED BY <1>10, <1>11

----------------------------------------------------------------------------
(* What a new token makes of them. *)

LEMMA WellFormedGrows ==
    ASSUME NEW t, Extends(t), Follows, WellFormedSoFar, NEW n, n = Len(document) + 1
    PROVE  /\ Cardinality({i \in DOMAIN document : document[i].token \notin Uncounted})'
                 = html.token_count + (IF t.token \notin Uncounted THEN 1 ELSE 0)
           /\ WellFormedSoFar' <=> /\ TokenIsRight(n)'
                                   /\ t.token \notin Uncounted => ~TooMany
<1> DEFINE P == {i \in 1..(n - 1) : document[i].token \notin Uncounted}
           Q == {i \in 1..n : document'[i].token \notin Uncounted}
<1>1. /\ n \in Nat \ {0} /\ document'[n] = t
      /\ \A i \in 1..(n - 1) : document'[i] = document[i]
      /\ DOMAIN document = 1..(n - 1) /\ DOMAIN document' = 1..n
  BY ExtendedText
<1>2. Cardinality(Q) = Cardinality(P) + (IF n \in Q THEN 1 ELSE 0)
  <2>1. P \in SUBSET (1..(n - 1)) /\ Q \in SUBSET (1..n)
    OBVIOUS
  <2>2. \A i \in 1..(n - 1) : i \in Q <=> i \in P
    BY <1>1
  <2> HIDE DEF P, Q
  <2> QED BY <2>1, <2>2, <1>1, OneMore
<1>3. n \in Q <=> t.token \notin Uncounted
  BY <1>1
<1>4. /\ Cardinality({i \in DOMAIN document : document[i].token \notin Uncounted}) = Cardinality(P)
      /\ Cardinality({i \in DOMAIN document : document[i].token \notin Uncounted})' = Cardinality(Q)
  BY <1>1
<1>5. html.token_count = Cardinality(P) /\ html.token_count \in Nat /\ MaxTokens \in Nat
  BY <1>4, FollowsTypes, MarkupAssumption DEF Follows
<1>6. Cardinality(P) <= MaxTokens /\ \A i \in 1..(n - 1) : TokenIsRight(i)
  BY <1>1, <1>4 DEF WellFormedSoFar
<1>7. \A i \in 1..(n - 1) : TokenIsRight(i)'
  BY <1>6, RightTokensStay
<1>8. (\A i \in 1..n : TokenIsRight(i)') <=> TokenIsRight(n)'
  <2>1. \A i \in 1..n : i = n \/ i \in 1..(n - 1)
    BY <1>1
  <2>2. n \in 1..n
    BY <1>1
  <2> QED BY <2>1, <2>2, <1>7
<1> HIDE DEF P, Q
<1>9. Cardinality(Q) <= MaxTokens <=> (t.token \notin Uncounted => ~TooMany)
  BY <1>2, <1>3, <1>5, <1>6 DEF TooMany
<1>10. WellFormedSoFar' <=> Cardinality(Q) <= MaxTokens /\ \A i \in 1..n : TokenIsRight(i)'
  BY <1>1, <1>4 DEF WellFormedSoFar
<1> QED BY <1>2, <1>3, <1>4, <1>5, <1>8, <1>9, <1>10

\* What is met after a new token.
LEMMA MetGrows ==
    ASSUME NEW t, Extends(t), NEW n, n = Len(document) + 1
    PROVE  /\ \A tag : Met(tag)' <=> Met(tag) \/ (Starts(n)' /\ t.tag = tag)
           /\ (\E j \in 1..Len(document) : Starts(j))'
                 <=> (\E j \in 1..Len(document) : Starts(j)) \/ Starts(n)'
           /\ (\E j \in 1..Len(document) : document[j].token = "decl")'
                 <=> (\E j \in 1..Len(document) : document[j].token = "decl") \/ t.token = "decl"
<1>1. /\ n \in Nat \ {0} /\ Len(document') = n /\ Len(document) = n - 1 /\ document'[n] = t
      /\ \A j \in 1..(n - 1) : document'[j] = document[j]
  BY ExtendedText
<1>2. \A j \in 1..(n - 1) : Starts(j)' <=> Starts(j)
  BY TokensBeforeStay
<1>3. n \in 1..n /\ \A j \in 1..n : j = n \/ j \in 1..(n - 1)
  BY <1>1
<1>4. \A j \in 1..(n - 1) : j \in 1..n
  BY <1>1
<1>5. ASSUME NEW tag PROVE Met(tag)' <=> Met(tag) \/ (Starts(n)' /\ t.tag = tag)
  BY <1>1, <1>2, <1>3, <1>4 DEF Met
<1> QED BY <1>1, <1>2, <1>3, <1>4, <1>5

\* An element that was open is open unless the depth has dropped below it.
LEMMA StaysOpen ==
    ASSUME NEW t, Extends(t), NEW n, n = Len(document) + 1,
           NEW m \in Nat, NEW j \in 1..(n - 1), OpenedBy(m, j),
           html'.stack[m] = html.stack[m], Depth(n + 1)' >= m
    PROVE  OpenedBy(m, j)'
<1>1. /\ n \in Nat \ {0} /\ Len(document') = n /\ Len(document) + 1 = n
      /\ document'[j] = document[j] /\ j \in 1..n
  BY ExtendedText
<1>2. (Starts(j)' <=> Starts(j)) /\ \A k \in 1..n : Depth(k)' = Depth(k)
  BY TokensBeforeStay
<1>3. ASSUME NEW k \in (j + 1)..(n + 1) PROVE Depth(k)' >= m
  <2>1. CASE k = n + 1
    BY <2>1
  <2>2. CASE k # n + 1
    <3>1. k \in (j + 1)..n /\ k \in 1..n
      BY <1>1, <2>2
    <3> QED BY <3>1, <1>1, <1>2 DEF OpenedBy
  <2> QED BY <2>1, <2>2
<1> QED BY <1>1, <1>2, <1>3 DEF OpenedBy

\* A token that neither opens nor closes leaves every element open.
LEMMA StackKept ==
    ASSUME NEW t, Extends(t), Follows, NEW n, n = Len(document) + 1,
           html'.stack = html.stack, ~Starts(n)', t.token # "end"
    PROVE  StackFollows'
<1>1. /\ n \in Nat \ {0} /\ n \in 1..n /\ Len(document') = n /\ Len(document) = n - 1
  BY ExtendedText
<1>2. Len(html.stack) \in Nat /\ Depth(n) = Len(html.stack) /\ Len(html.stack) <= MaxNesting
  BY FollowsTypes DEF Follows, StackFollows
<1>3. Depth(n + 1)' = Len(html.stack)
  <2>1. Depth(n + 1)' = Depth(n) + (IF Starts(n)' THEN 1 ELSE 0)
                                 - (IF t.token = "end" THEN 1 ELSE 0)
    BY TokensBeforeStay
  <2> QED BY <2>1, <1>2
<1>4. ASSUME NEW m \in 1..Len(html.stack) PROVE \E j \in 1..n : OpenedBy(m, j)'
  <2>1. PICK j \in 1..(n - 1) : OpenedBy(m, j)
    BY <1>1 DEF Follows, StackFollows
  <2>2. m \in Nat /\ Depth(n + 1)' >= m /\ j \in 1..n
    BY <1>1, <1>2, <1>3
  <2>3. OpenedBy(m, j)'
    BY <2>1, <2>2, StaysOpen
  <2> QED BY <2>2, <2>3
<1> QED BY <1>1, <1>2, <1>3, <1>4 DEF StackFollows

\* A token that opens an element is the opener of the new top.
LEMMA StackPushed ==
    ASSUME NEW t, Extends(t), Follows, NEW n, n = Len(document) + 1, t.tag \in Tag,
           html'.stack = Append(html.stack, t.tag), Starts(n)', t.token # "end",
           Len(html.stack) < MaxNesting
    PROVE  StackFollows'
<1>1. /\ n \in Nat \ {0} /\ n \in 1..n /\ Len(document') = n /\ Len(document) = n - 1
      /\ document'[n] = t
  BY ExtendedText
<1>2. /\ Len(html.stack) \in Nat /\ Depth(n) = Len(html.stack) /\ html.stack \in Seq(Tag)
      /\ MaxNesting \in Nat
  BY FollowsTypes, MarkupAssumption DEF Follows, StackFollows
<1>3. Depth(n + 1)' = Len(html.stack) + 1 /\ Depth(n)' = Len(html.stack)
  <2>1. /\ Depth(n + 1)' = Depth(n) + (IF Starts(n)' THEN 1 ELSE 0)
                                    - (IF t.token = "end" THEN 1 ELSE 0)
        /\ Depth(n)' = Depth(n)
    BY <1>1, TokensBeforeStay
  <2> QED BY <2>1, <1>2
<1>4. /\ Len(html'.stack) = Len(html.stack) + 1
      /\ \A m \in 1..Len(html.stack) : html'.stack[m] = html.stack[m]
      /\ html'.stack[Len(html.stack) + 1] = t.tag
  BY <1>2
<1>5. ASSUME NEW m \in 1..Len(html.stack) PROVE \E j \in 1..n : OpenedBy(m, j)'
  <2>1. PICK j \in 1..(n - 1) : OpenedBy(m, j)
    BY <1>1 DEF Follows, StackFollows
  <2>2. m \in Nat /\ Depth(n + 1)' >= m /\ j \in 1..n
    BY <1>1, <1>2, <1>3
  <2>3. OpenedBy(m, j)'
    BY <2>1, <2>2, <1>4, StaysOpen
  <2> QED BY <2>2, <2>3
<1>6. PICK d \in Nat : d = Len(html.stack) + 1
  BY <1>2
<1>7. OpenedBy(d, n)'
  <2>1. \A k \in (n + 1)..(n + 1) : k = n + 1
    BY <1>1
  <2>2. \A k \in (n + 1)..(n + 1) : Depth(k)' >= d
    BY <2>1, <1>2, <1>3, <1>6
  <2>3. Depth(n)' = d - 1
    BY <1>2, <1>3, <1>6
  <2> QED BY <2>2, <2>3, <1>1, <1>4, <1>6 DEF OpenedBy
<1>8. ASSUME NEW m \in 1..d PROVE \E j \in 1..n : OpenedBy(m, j)'
  <2>1. m \in 1..Len(html.stack) \/ m = d
    BY <1>2, <1>6
  <2>2. CASE m = d
    BY <2>2, <1>1, <1>7
  <2> QED BY <2>1, <2>2, <1>5
<1> QED BY <1>1, <1>2, <1>3, <1>4, <1>6, <1>8 DEF StackFollows

\* The stack without its top.
LEMMA Popped ==
    ASSUME NEW S, NEW stack \in Seq(S), stack # <<>>
    PROVE  /\ Pop(stack) \in Seq(S) /\ Len(Pop(stack)) = Len(stack) - 1
           /\ Len(stack) \in Nat \ {0}
           /\ \A m \in 1..(Len(stack) - 1) : Pop(stack)[m] = stack[m]
<1>1. Len(stack) \in Nat \ {0}
  OBVIOUS
<1>2. Pop(stack) \in Seq(S) /\ Len(Pop(stack)) = Len(stack) - 1
  <2>1. PICK k \in Nat : k = Len(stack) - 1
    BY <1>1
  <2>2. Pop(stack) = SubSeq(stack, 1, k)
    BY <2>1 DEF Pop
  <2>3. \A i \in 1..k : stack[i] \in S
    BY <1>1, <2>1
  <2>4. k - 1 + 1 = k
    BY <2>1
  <2> QED BY <1>1, <2>1, <2>2, <2>3, <2>4
<1>3. \A m \in 1..(Len(stack) - 1) : Pop(stack)[m] = stack[m]
  BY <1>1 DEF Pop
<1> QED BY <1>1, <1>2, <1>3

\* A token that closes an element leaves those below it open.
LEMMA StackPopped ==
    ASSUME NEW t, Extends(t), Follows, NEW n, n = Len(document) + 1,
           html.stack # <<>>, html'.stack = Pop(html.stack), t.token = "end"
    PROVE  StackFollows'
<1>1. /\ n \in Nat \ {0} /\ n \in 1..n /\ Len(document') = n /\ Len(document) = n - 1
      /\ document'[n] = t
  BY ExtendedText
<1>2. /\ Len(html.stack) \in Nat \ {0} /\ Depth(n) = Len(html.stack)
      /\ html.stack \in Seq(Tag) /\ Len(html.stack) <= MaxNesting /\ MaxNesting \in Nat
  BY FollowsTypes, MarkupAssumption DEF Follows, StackFollows
<1>3. Depth(n + 1)' = Len(html.stack) - 1
  <2>1. /\ Depth(n + 1)' = Depth(n) + (IF Starts(n)' THEN 1 ELSE 0)
                                    - (IF t.token = "end" THEN 1 ELSE 0)
        /\ ~Starts(n)'
    BY TokensBeforeStay
  <2> QED BY <2>1, <1>2
<1>4. /\ Len(html'.stack) = Len(html.stack) - 1
      /\ \A m \in 1..(Len(html.stack) - 1) : html'.stack[m] = html.stack[m]
  BY <1>2, Popped
<1>5. ASSUME NEW m \in 1..(Len(html.stack) - 1) PROVE \E j \in 1..n : OpenedBy(m, j)'
  <2>1. m \in 1..Len(html.stack)
    BY <1>2
  <2>2. PICK j \in 1..(n - 1) : OpenedBy(m, j)
    BY <1>1, <2>1 DEF Follows, StackFollows
  <2>3. m \in Nat /\ Depth(n + 1)' >= m /\ j \in 1..n
    BY <1>1, <1>2, <1>3
  <2>4. OpenedBy(m, j)'
    BY <2>2, <2>3, <1>4, StaysOpen
  <2> QED BY <2>3, <2>4
<1> QED BY <1>1, <1>2, <1>3, <1>4, <1>5 DEF StackFollows

----------------------------------------------------------------------------
(* The handlers of _HtmlValidator. *)

LEMMA EmptyLength == ASSUME NEW s, s = <<>> PROVE Len(s) = 0
OBVIOUS

\* Updated fields keep their types.
LEMMA CountedIsAState ==
    ASSUME html \in HtmlStates PROVE Counted \in HtmlStates
BY DEF HtmlStates, Counted

LEMMA UpdatedStates ==
    ASSUME NEW h \in HtmlStates, NEW a \in BOOLEAN, NEW b \in BOOLEAN, NEW c \in BOOLEAN,
           NEW d \in SUBSET {r.key : r \in Reference}
    PROVE  [h EXCEPT !.root_seen = a, !.head_seen = b, !.body_seen = c, !.references = d]
              \in HtmlStates
BY DEF HtmlStates

\* The invariant of the HTML validator: its verdict is right, and while it reads it follows.
HtmlInv ==
    /\ language \in {"none", "html", "css"}
    /\ language = "none" => verdict = "reading" /\ Follows /\ WellFormedSoFar
    /\ language = "html" =>
          \/ verdict = "reading" /\ Follows /\ WellFormedSoFar
          \/ verdict = "refused" /\ ~WellFormedSoFar
          \/ verdict = "accepted" /\ WellFormedSoFar /\ Complete
          \/ verdict = "incomplete" /\ WellFormedSoFar /\ ~Complete

\* A handler decides rightly, and if it goes on keeps its state.
Decides == /\ language' = "html"
           /\ \/ verdict' = "refused" /\ ~(WellFormedSoFar')
              \/ verdict' = "reading" /\ WellFormedSoFar' /\ Follows'

\* What every handler does first.
LEMMA ATokenIsRead ==
    ASSUME HtmlInv, NEW t \in Tokens, Reads("html", <<t>>)
    PROVE  /\ Extends(t) /\ Follows /\ WellFormedSoFar /\ verdict = "reading"
           /\ language' = "html"
<1>1. /\ verdict = "reading" /\ language \in {"none", "html"} /\ language' = "html"
      /\ document' = document \o <<t>>
  BY DEF Reads
<1>2. Follows /\ WellFormedSoFar
  BY <1>1 DEF HtmlInv
<1> QED BY <1>1, <1>2 DEF Extends, Follows

LEMMA DeclarationsDecide ==
    ASSUME HtmlInv, handle_decl PROVE Decides
<1> DEFINE t == Token("decl", "doctype html")
<1>1. /\ t \in Tokens /\ t.token = "decl"
  BY DEF Token, Tokens
<1>2. Reads("html", <<t>>)
  BY DEF handle_decl, Html
<1>3. Extends(t) /\ Follows /\ WellFormedSoFar /\ verdict = "reading" /\ language' = "html"
  BY <1>1, <1>2, ATokenIsRead
<1> HIDE DEF t
<1>4. PICK n \in Nat : n = Len(document) + 1
  BY <1>3 DEF Extends
<1>5. /\ (WellFormedSoFar' <=> ~TooMany /\ html.stack = <<>> /\ ~html.doctype_seen)
      /\ Cardinality({i \in DOMAIN document : document[i].token \notin Uncounted})'
            = html.token_count + 1
  BY <1>1, <1>3, <1>4, DeclarationIsRight, WellFormedGrows DEF Uncounted
<1>6. CASE TooMany \/ html.stack # <<>> \/ html.doctype_seen
  <2>1. verdict' = "refused"
    BY <1>6 DEF handle_decl, Html
  <2> QED BY <1>3, <1>5, <1>6, <2>1 DEF Decides
<1>7. CASE ~(TooMany \/ html.stack # <<>> \/ html.doctype_seen)
  <2>1. verdict' = verdict /\ html' = [Counted EXCEPT !.doctype_seen = TRUE]
    BY <1>7 DEF handle_decl, Html
  <2>2. html \in HtmlStates
    BY <1>3 DEF Follows
  <2>3. /\ html'.stack = html.stack /\ html'.token_count = html.token_count + 1
        /\ html'.root_seen = html.root_seen /\ html'.root_closed = html.root_closed
        /\ html'.head_seen = html.head_seen /\ html'.body_seen = html.body_seen
        /\ html'.doctype_seen = TRUE /\ html'.references = html.references
    BY <2>1, <2>2 DEF HtmlStates, Counted
  <2>4. html' \in HtmlStates
    <3>1. Counted \in HtmlStates
      BY <2>2, CountedIsAState
    <3> QED BY <2>1, <3>1 DEF HtmlStates
  <2>5. ~Starts(n)'
    BY <1>1, <1>3, <1>4, TokensBeforeStay
  <2>6. StackFollows'
    BY <1>1, <1>3, <1>4, <2>3, <2>5, StackKept
  <2>7. FlagsFollow'
    BY <1>1, <1>3, <1>4, <2>3, <2>5, MetGrows DEF Follows, FlagsFollow
  <2>8. document' \in Seq(Tokens)
    BY <1>3, <1>4, ExtendedText
  <2>9. Follows'
    BY <1>5, <2>3, <2>4, <2>6, <2>7, <2>8 DEF Follows
  <2> QED BY <1>3, <1>5, <1>7, <2>1, <2>9 DEF Decides
<1> QED BY <1>6, <1>7

LEMMA OtherMarkupDecides ==
    ASSUME HtmlInv, handle_other_markup PROVE Decides
<1> DEFINE t == Token("other", "none")
<1>1. t \in Tokens /\ t.token = "other"
  BY DEF Token, Tokens
<1>2. Reads("html", <<t>>) /\ verdict' = "refused"
  BY DEF handle_other_markup, Html
<1>3. Extends(t) /\ language' = "html"
  BY <1>1, <1>2, ATokenIsRead
<1> HIDE DEF t
<1>4. PICK n \in Nat : n = Len(document) + 1
  BY <1>3 DEF Extends
<1>5. document'[n] = t /\ n \in DOMAIN document'
  BY <1>3, <1>4, ExtendedText
<1>6. ~(WellFormedSoFar')
  BY <1>1, <1>5 DEF WellFormedSoFar, TokenIsRight
<1> QED BY <1>2, <1>3, <1>6 DEF Decides

LEMMA EndTagsDecide ==
    ASSUME HtmlInv, NEW tag \in Tag, handle_endtag(tag) PROVE Decides
<1> DEFINE t == Token("end", tag)
<1>1. t \in Tokens /\ t.token = "end" /\ t.tag = tag
  BY DEF Token, Tokens
<1>2. Reads("html", <<t>>)
  BY DEF handle_endtag, Html
<1>3. Extends(t) /\ Follows /\ WellFormedSoFar /\ verdict = "reading" /\ language' = "html"
  BY <1>1, <1>2, ATokenIsRead
<1> HIDE DEF t
<1>4. PICK n \in Nat : n = Len(document) + 1
  BY <1>3 DEF Extends
<1>5. /\ (WellFormedSoFar' <=> ~TooMany /\ html.stack # <<>> /\ Top(html.stack) = tag)
      /\ Cardinality({i \in DOMAIN document : document[i].token \notin Uncounted})'
            = html.token_count + 1
  BY <1>1, <1>3, <1>4, EndIsRight, WellFormedGrows DEF Uncounted
<1> DEFINE refuses == \/ TooMany \/ tag \in _HTML_VOID_ELEMENTS
                      \/ html.stack = <<>> \/ Top(html.stack) # tag
<1>6. refuses <=> ~(WellFormedSoFar')
  BY <1>3, <1>4, <1>5, TopIsInnermost
<1>7. CASE refuses
  <2>1. verdict' = "refused"
    BY <1>7 DEF handle_endtag, Html
  <2> QED BY <1>3, <1>6, <1>7, <2>1 DEF Decides
<1>8. CASE ~refuses
  <2>1. /\ verdict' = verdict
        /\ html' = [Counted EXCEPT !.stack = Pop(@), !.root_closed = @ \/ tag = "html"]
    BY <1>8 DEF handle_endtag, Html
  <2>2. html \in HtmlStates /\ html.stack # <<>> /\ Top(html.stack) = tag
    BY <1>3, <1>8 DEF Follows
  <2>3. /\ html.stack \in Seq(Tag) /\ Pop(html.stack) \in Seq(Tag)
        /\ Len(Pop(html.stack)) = Len(html.stack) - 1 /\ Len(html.stack) \in Nat
    BY <2>2, Popped DEF HtmlStates
  <2>4. /\ html'.stack = Pop(html.stack) /\ html'.token_count = html.token_count + 1
        /\ html'.root_seen = html.root_seen
        /\ html'.root_closed = (html.root_closed \/ tag = "html")
        /\ html'.head_seen = html.head_seen /\ html'.body_seen = html.body_seen
        /\ html'.doctype_seen = html.doctype_seen /\ html'.references = html.references
    BY <2>1, <2>2 DEF HtmlStates, Counted
  <2>5. html' \in HtmlStates
    <3>1. Counted \in HtmlStates
      BY <2>2, CountedIsAState
    <3>2. html'.root_closed \in BOOLEAN
      BY <2>2, <2>4 DEF HtmlStates
    <3>3. html' = [Counted EXCEPT !.stack = Pop(html.stack), !.root_closed = html'.root_closed]
      BY <2>1, <2>2, <2>4 DEF HtmlStates, Counted
    <3> QED BY <2>3, <3>1, <3>2, <3>3 DEF HtmlStates
  <2>6. ~Starts(n)'
    BY <1>1, <1>3, <1>4, TokensBeforeStay
  <2>7. StackFollows'
    BY <1>1, <1>3, <1>4, <2>2, <2>4, StackPopped
  <2>8. html.root_seen /\ html.stack[1] = "html"
    BY <1>3, <1>4, <2>2, TopIsInnermost
  <2>9. html'.stack = <<>> => html'.root_closed
    <3> SUFFICES ASSUME html'.stack = <<>> PROVE html'.root_closed
      OBVIOUS
    <3>1. Len(html.stack) = 1
      <4>1. Pop(html.stack) = <<>>
        BY <2>4
      <4>2. Len(Pop(html.stack)) = 0
        BY <4>1, EmptyLength, Zenon
      <4>3. PICK k \in Nat : k = Len(html.stack)
        BY <2>3
      <4>4. k - 1 = 0
        BY <2>3, <4>2, <4>3, Zenon
      <4> QED BY <4>3, <4>4
    <3>2. tag = "html"
      BY <2>2, <2>8, <3>1 DEF Top
    <3> QED BY <2>4, <3>2
  <2>10. FlagsFollow'
    <3>1. /\ \A x : Met(x)' <=> Met(x)
          /\ (\E j \in 1..Len(document) : Starts(j))'
                <=> \E j \in 1..Len(document) : Starts(j)
          /\ (\E j \in 1..Len(document) : document[j].token = "decl")'
                <=> \E j \in 1..Len(document) : document[j].token = "decl"
      BY <1>1, <1>3, <1>4, <2>6, MetGrows
    <3> QED BY <1>3, <2>4, <2>8, <2>9, <3>1 DEF Follows, FlagsFollow
  <2>11. document' \in Seq(Tokens)
    BY <1>3, <1>4, ExtendedText
  <2>12. Follows'
    BY <1>5, <2>4, <2>5, <2>7, <2>10, <2>11 DEF Follows
  <2> QED BY <1>3, <1>6, <1>8, <2>1, <2>12 DEF Decides
<1> QED BY <1>7, <1>8

LEMMA DataDecides ==
    ASSUME HtmlInv, NEW reference \in Reference, handle_data(reference) PROVE Decides
<1> DEFINE t == [Token("data", "none") EXCEPT !.reference = reference]
           refuses == \/ html.stack = <<>>
                      \/ InsideCode /\ RefusesCode(Top(html.stack), reference)
           next == [html EXCEPT !.references = IF InsideCode /\ reference.form = "local"
                                               THEN @ \cup {reference.key} ELSE @]
<1>1. t \in Tokens /\ t.token = "data" /\ t.reference = reference
  BY DEF Token, Tokens
<1>2. /\ Reads("html", <<t>>)
      /\ IF refuses THEN verdict' = "refused" /\ html' = html
                    ELSE verdict' = verdict /\ html' = next
  BY DEF handle_data, Html
<1>3. Extends(t) /\ Follows /\ WellFormedSoFar /\ verdict = "reading" /\ language' = "html"
  BY <1>1, <1>2, ATokenIsRead
<1> HIDE DEF t
<1>4. PICK n \in Nat : n = Len(document) + 1
  BY <1>3 DEF Extends
<1>5. /\ (WellFormedSoFar' <=>
             /\ html.stack # <<>>
             /\ Top(html.stack) \in {"style", "script"} => CodeMayUse(Top(html.stack), reference))
      /\ Cardinality({i \in DOMAIN document : document[i].token \notin Uncounted})' = html.token_count
  <2>1. html.token_count \in Nat
    BY <1>3, FollowsTypes
  <2> QED BY <1>1, <1>3, <1>4, <2>1, DataIsRight, WellFormedGrows DEF Uncounted
<1>6. refuses <=> ~(WellFormedSoFar')
  <2>1. CASE html.stack = <<>>
    BY <1>5, <2>1
  <2>2. CASE html.stack # <<>> /\ Top(html.stack) \notin {"style", "script"}
    BY <1>5, <2>2 DEF InsideCode
  <2>3. CASE html.stack # <<>> /\ Top(html.stack) \in {"style", "script"}
    <3>1. ~RefusesCode(Top(html.stack), reference) <=> CodeMayUse(Top(html.stack), reference)
      BY <2>3, KindsAssumption DEF RefusesCode, ResolveAssetReference, CodeMayUse, CssKinds
    <3> QED BY <1>5, <2>3, <3>1 DEF InsideCode
  <2> QED BY <2>1, <2>2, <2>3
<1> HIDE DEF refuses
<1>7. CASE refuses
  BY <1>2, <1>3, <1>6, <1>7 DEF Decides
<1>8. CASE ~refuses
  <2>1. verdict' = verdict /\ html' = next
    BY <1>2, <1>8
  <2>2. html \in HtmlStates
    BY <1>3 DEF Follows
  <2>3. /\ html'.stack = html.stack /\ html'.token_count = html.token_count
        /\ html'.root_seen = html.root_seen /\ html'.root_closed = html.root_closed
        /\ html'.head_seen = html.head_seen /\ html'.body_seen = html.body_seen
        /\ html'.doctype_seen = html.doctype_seen
    BY <2>1, <2>2 DEF HtmlStates
  <2>4. html' \in HtmlStates
    BY <2>1, <2>2 DEF HtmlStates
  <2>5. ~Starts(n)'
    BY <1>1, <1>3, <1>4, TokensBeforeStay
  <2>6. StackFollows'
    BY <1>1, <1>3, <1>4, <2>3, <2>5, StackKept
  <2>7. FlagsFollow'
    BY <1>1, <1>3, <1>4, <2>3, <2>5, MetGrows DEF Follows, FlagsFollow
  <2>8. document' \in Seq(Tokens)
    BY <1>3, <1>4, ExtendedText
  <2>9. Follows'
    BY <1>5, <2>3, <2>4, <2>6, <2>7, <2>8 DEF Follows
  <2> QED BY <1>3, <1>6, <1>8, <2>1, <2>9 DEF Decides
<1> QED BY <1>7, <1>8

LEMMA CharrefsDecide ==
    ASSUME HtmlInv, handle_charref PROVE Decides
<1> DEFINE t == Token("charref", "none")
<1>1. t \in Tokens /\ t.token = "charref"
  BY DEF Token, Tokens
<1>2. Reads("html", <<t>>) /\ verdict' = verdict /\ html' = html
  BY DEF handle_charref, Html
<1>3. Extends(t) /\ Follows /\ WellFormedSoFar /\ verdict = "reading" /\ language' = "html"
  BY <1>1, <1>2, ATokenIsRead
<1> HIDE DEF t
<1>4. PICK n \in Nat : n = Len(document) + 1
  BY <1>3 DEF Extends
<1>5. /\ WellFormedSoFar'
      /\ Cardinality({i \in DOMAIN document : document[i].token \notin Uncounted})'
            = html.token_count
  <2>1. html.token_count \in Nat
    BY <1>3, FollowsTypes
  <2> QED BY <1>1, <1>3, <1>4, <2>1, CharrefIsRight, WellFormedGrows DEF Uncounted
<1>6. ~Starts(n)'
  BY <1>1, <1>3, <1>4, TokensBeforeStay
<1>7. StackFollows'
  BY <1>1, <1>2, <1>3, <1>4, <1>6, StackKept
<1>8. FlagsFollow'
  BY <1>1, <1>2, <1>3, <1>4, <1>6, MetGrows DEF Follows, FlagsFollow
<1>9. document' \in Seq(Tokens)
  BY <1>3, <1>4, ExtendedText
<1>10. Follows'
  BY <1>2, <1>3, <1>5, <1>7, <1>8, <1>9 DEF Follows
<1> QED BY <1>2, <1>3, <1>5, <1>10 DEF Decides

LEMMA StartTagsDecide ==
    ASSUME HtmlInv, NEW tag \in Tag, NEW attribute \in Attribute \cup {NoAttribute},
           NEW reference \in Reference \cup {NoAttribute}, NEW self_closing \in BOOLEAN,
           attribute = NoAttribute \/ reference \in Reference,
           handle_starttag(tag, attribute, reference, self_closing)
    PROVE  Decides
<1> DEFINE t == [token |-> IF self_closing THEN "startend" ELSE "start", tag |-> tag,
                 attribute |-> attribute, reference |-> reference]
           void == tag \in _HTML_VOID_ELEMENTS
           refuses == \/ TooMany
                      \/ tag \in _HTML_FORBIDDEN_ELEMENTS \cup {"form"}
                      \/ RefusesPlace(tag)
                      \/ RefusesAttribute(tag, attribute, reference)
                      \/ ~void /\ (self_closing \/ Len(html.stack) >= MaxNesting)
           started == [Counted EXCEPT
                          !.root_seen = @ \/ html.stack = <<>>,
                          !.head_seen = @ \/ tag = "head",
                          !.body_seen = @ \/ tag = "body",
                          !.references = @ \cup Referenced(attribute, reference)]
<1>1. /\ t \in Tokens /\ t.token \in {"start", "startend"} /\ t.tag = tag
      /\ t.attribute = attribute /\ t.reference = reference
      /\ (t.token = "start" <=> ~self_closing)
  BY DEF Tokens
<1>2. /\ Reads("html", <<t>>)
      /\ IF refuses THEN verdict' = "refused" /\ html' = html
                    ELSE /\ verdict' = verdict
                         /\ html' = IF void THEN started
                                    ELSE [started EXCEPT !.stack = Append(@, tag)]
  BY DEF handle_starttag, Html
<1>3. Extends(t) /\ Follows /\ WellFormedSoFar /\ verdict = "reading" /\ language' = "html"
  BY <1>1, <1>2, ATokenIsRead
<1> HIDE DEF t, started
<1>4. PICK n \in Nat : n = Len(document) + 1
  BY <1>3 DEF Extends
<1>5. Len(html.stack) \in Nat /\ html.stack \in Seq(Tag) /\ MaxNesting \in Nat
      /\ html.token_count \in Nat
  BY <1>3, FollowsTypes, MarkupAssumption
<1>6. /\ TokenIsRight(n)' <=>
             /\ tag \notin _HTML_FORBIDDEN_ELEMENTS \cup {"form"}
             /\ ~RefusesPlace(tag)
             /\ ~RefusesAttribute(tag, attribute, reference)
             /\ ~void => ~self_closing /\ Len(html.stack) < MaxNesting
      /\ WellFormedSoFar' <=> TokenIsRight(n)' /\ ~TooMany
      /\ Cardinality({i \in DOMAIN document : document[i].token \notin Uncounted})'
            = html.token_count + 1
  BY <1>1, <1>3, <1>4, StartIsRight, WellFormedGrows DEF Uncounted
<1>7. refuses <=> ~(WellFormedSoFar')
  BY <1>5, <1>6
<1>8. CASE refuses
  <2> HIDE DEF refuses
  <2> QED BY <1>2, <1>3, <1>7, <1>8 DEF Decides
<1>9. CASE ~refuses
  <2>1. /\ verdict' = verdict
        /\ html' = IF void THEN started ELSE [started EXCEPT !.stack = Append(@, tag)]
    <3> HIDE DEF refuses
    <3> QED BY <1>2, <1>9
  <2>2. html \in HtmlStates
    BY <1>3 DEF Follows
  <2>3. Referenced(attribute, reference) \subseteq {r.key : r \in Reference}
    BY NoAttributeAssumption DEF Referenced
  <2>4. started = [Counted EXCEPT !.root_seen = started.root_seen,
                                  !.head_seen = started.head_seen,
                                  !.body_seen = started.body_seen,
                                  !.references = started.references]
    BY <2>2 DEF HtmlStates, Counted, started
  <2>5. /\ started.stack = html.stack /\ started.token_count = html.token_count + 1
        /\ started.root_closed = html.root_closed
        /\ started.doctype_seen = html.doctype_seen
    BY <2>2, <2>4 DEF HtmlStates, Counted
  <2>6. started.references = html.references \cup Referenced(attribute, reference)
    BY <2>2 DEF HtmlStates, Counted, started
  <2>7. started.root_seen = (html.root_seen \/ html.stack = <<>>)
    BY <2>2 DEF HtmlStates, Counted, started
  <2>8. started.head_seen = (html.head_seen \/ tag = "head")
    BY <2>2 DEF HtmlStates, Counted, started
  <2>9. started.body_seen = (html.body_seen \/ tag = "body")
    BY <2>2 DEF HtmlStates, Counted, started
  <2>10. /\ started.stack = html.stack /\ started.token_count = html.token_count + 1
         /\ started.root_seen = (html.root_seen \/ html.stack = <<>>)
         /\ started.root_closed = html.root_closed
         /\ started.head_seen = (html.head_seen \/ tag = "head")
         /\ started.body_seen = (html.body_seen \/ tag = "body")
         /\ started.doctype_seen = html.doctype_seen
         /\ started.references = html.references \cup Referenced(attribute, reference)
    BY <2>5, <2>6, <2>7, <2>8, <2>9
  <2>11. started \in HtmlStates
    <3>1. Counted \in HtmlStates
      BY <2>2, CountedIsAState
    <3>2. /\ started.root_seen \in BOOLEAN /\ started.head_seen \in BOOLEAN
          /\ started.body_seen \in BOOLEAN
      BY <2>2, <2>7, <2>8, <2>9 DEF HtmlStates
    <3>3. started.references \in SUBSET {r.key : r \in Reference}
      BY <2>2, <2>3, <2>6 DEF HtmlStates
    <3>4. \A a, b, c \in BOOLEAN, d \in SUBSET {r.key : r \in Reference} :
             [Counted EXCEPT !.root_seen = a, !.head_seen = b, !.body_seen = c,
                             !.references = d] \in HtmlStates
      BY <3>1, UpdatedStates
    <3>5. [Counted EXCEPT !.root_seen = started.root_seen,
                          !.head_seen = started.head_seen,
                          !.body_seen = started.body_seen,
                          !.references = started.references] \in HtmlStates
      BY <3>2, <3>3, <3>4, Zenon
    <3> QED BY <2>4, <3>5, Zenon
  <2>12. /\ html'.token_count = html.token_count + 1
         /\ html'.root_seen = (html.root_seen \/ html.stack = <<>>)
         /\ html'.root_closed = html.root_closed
         /\ html'.head_seen = (html.head_seen \/ tag = "head")
         /\ html'.body_seen = (html.body_seen \/ tag = "body")
         /\ html'.doctype_seen = html.doctype_seen
         /\ html'.references = html.references \cup Referenced(attribute, reference)
         /\ void => html'.stack = html.stack
         /\ ~void => html'.stack = Append(html.stack, tag)
    BY <2>1, <2>10
  <2>13. html' \in HtmlStates
    <3>1. [started EXCEPT !.stack = Append(@, tag)] \in HtmlStates
      <4>1. Append(started.stack, tag) \in Seq(Tag)
        BY <1>5, <2>10
      <4> QED BY <2>11, <4>1 DEF HtmlStates
    <3> QED BY <2>1, <2>11, <3>1
  <2>14. /\ Starts(n)' <=> ~void
         /\ ~void => ~self_closing /\ Len(html.stack) < MaxNesting
    <3>1. Starts(n)' <=> t.token = "start" /\ t.tag \notin _HTML_VOID_ELEMENTS
      BY <1>3, <1>4, TokensBeforeStay
    <3>2. ~void => ~self_closing /\ Len(html.stack) < MaxNesting
      BY <1>5, <1>9
    <3> HIDE DEF refuses
    <3> QED BY <1>1, <3>1, <3>2
  <2>15. StackFollows'
    <3> HIDE DEF refuses
    <3>1. CASE void
      <4>1. html'.stack = html.stack /\ ~Starts(n)' /\ t.token # "end"
        BY <1>1, <2>12, <2>14, <3>1
      <4> QED BY <1>3, <1>4, <4>1, StackKept
    <3>2. CASE ~void
      <4>1. /\ html'.stack = Append(html.stack, t.tag) /\ Starts(n)' /\ t.token # "end"
            /\ Len(html.stack) < MaxNesting /\ t.tag \in Tag
        BY <1>1, <2>12, <2>14, <3>2
      <4> QED BY <1>3, <1>4, <4>1, StackPushed
    <3> QED BY <3>1, <3>2
  <2>16. /\ html.stack = <<>> => tag = "html"
         /\ html.stack # <<>> => html.root_seen
    BY <1>3, <1>4, <1>9, TopIsInnermost DEF RefusesPlace
  <2>17. /\ "html" \notin _HTML_VOID_ELEMENTS
         /\ "head" \notin _HTML_VOID_ELEMENTS /\ "body" \notin _HTML_VOID_ELEMENTS
    BY DEF _HTML_VOID_ELEMENTS
  <2> HIDE DEF refuses
  <2>18. html'.stack # <<>> \/ (html.stack # <<>> /\ void)
    <3>1. CASE void
      <4>1. tag # "html"
        BY <2>17, <3>1, Zenon
      <4> QED BY <2>16, <3>1, <4>1, Zenon
    <3>2. CASE ~void
      <4>1. html'.stack = Append(html.stack, tag)
        BY <2>12, <3>2
      <4>2. Len(Append(html.stack, tag)) = Len(html.stack) + 1
        BY <1>5
      <4>3. Append(html.stack, tag) # <<>>
        BY <1>5, <4>2
      <4> QED BY <4>1, <4>3
    <3> QED BY <3>1, <3>2
  <2>19. html'.stack # <<>>
    BY <2>12, <2>18
  <2>20. FlagsFollow'
    <3>1. /\ \A x : Met(x)' <=> Met(x) \/ (~void /\ tag = x)
          /\ (\E j \in 1..Len(document) : Starts(j))'
                <=> (\E j \in 1..Len(document) : Starts(j)) \/ ~void
          /\ (\E j \in 1..Len(document) : document[j].token = "decl")'
                <=> \E j \in 1..Len(document) : document[j].token = "decl"
      BY <1>1, <1>3, <1>4, <2>14, MetGrows
    <3>2. html'.root_seen
      BY <2>12, <2>16
    <3>3. Met("html")'
      <4>1. CASE html.stack = <<>>
        BY <2>16, <2>17, <3>1, <4>1
      <4>2. CASE html.stack # <<>>
        BY <1>3, <2>16, <3>1, <4>2 DEF Follows, FlagsFollow
      <4> QED BY <4>1, <4>2
    <3>4. /\ html'.head_seen <=> Met("head")'
          /\ html'.body_seen <=> Met("body")'
      <4>1. /\ html.head_seen <=> Met("head")
            /\ html.body_seen <=> Met("body")
        BY <1>3 DEF Follows, FlagsFollow
      <4>2. /\ tag = "head" => ~void
            /\ tag = "body" => ~void
        BY <2>17
      <4> HIDE DEF void
      <4> QED BY <2>12, <3>1, <4>1, <4>2
    <3>5. html'.doctype_seen <=> (\E j \in 1..Len(document) : document[j].token = "decl")'
      BY <1>3, <2>12, <3>1 DEF Follows, FlagsFollow
    <3> QED BY <2>19, <3>2, <3>3, <3>4, <3>5 DEF FlagsFollow
  <2>21. document' \in Seq(Tokens)
    BY <1>3, <1>4, ExtendedText
  <2>22. Follows'
    BY <1>6, <2>12, <2>13, <2>15, <2>20, <2>21 DEF Follows
  <2> HIDE DEF refuses
  <2> QED BY <1>3, <1>7, <1>9, <2>1, <2>22 DEF Decides
<1> QED BY <1>8, <1>9

----------------------------------------------------------------------------
(* The invariant of the HTML validator. *)

LEMMA EmptyDocuments ==
    ASSUME MarkupInit PROVE HtmlInv
<1>1. /\ document = <<>> /\ language = "none" /\ verdict = "reading"
      /\ html = [stack |-> <<>>, root_seen |-> FALSE, root_closed |-> FALSE,
                 doctype_seen |-> FALSE, head_seen |-> FALSE, body_seen |-> FALSE,
                 token_count |-> 0, references |-> {}]
  BY DEF MarkupInit
<1>2. /\ document \in Seq(Tokens) /\ Len(document) = 0 /\ DOMAIN document = {}
      /\ \A i : i \notin 1..Len(document)
  <2>1. document \in Seq(Tokens) /\ Len(document) = 0
    BY <1>1
  <2>2. 1..Len(document) = {}
    BY <2>1
  <2> QED BY <2>1, <2>2
<1>3. html \in HtmlStates /\ html.stack = <<>> /\ Len(html.stack) = 0
  BY <1>1 DEF HtmlStates
<1>4. Cardinality({i \in DOMAIN document : document[i].token \notin Uncounted}) = 0
  <2>1. {i \in DOMAIN document : document[i].token \notin Uncounted} = {}
    BY <1>2
  <2> QED BY <2>1, FS_EmptySet
<1>5. Depth(Len(document) + 1) = 0
  <2>1. (Len(document) + 1) - 1 = 0
    BY <1>2
  <2>2. \A j : j \notin 1..((Len(document) + 1) - 1)
    BY <1>2, <2>1, Zenon
  <2>3. /\ {j \in 1..((Len(document) + 1) - 1) : Starts(j)} = {}
        /\ {j \in 1..((Len(document) + 1) - 1) : Ends(j)} = {}
    BY <2>2, Zenon
  <2>4. Depth(Len(document) + 1) = Cardinality({}) - Cardinality({})
    BY <2>3, Zenon DEF Depth
  <2> QED BY <2>4, FS_EmptySet
<1>6. StackFollows
  BY <1>2, <1>3, <1>5, MarkupAssumption DEF StackFollows
<1>7. FlagsFollow
  BY <1>1, <1>2 DEF FlagsFollow, Met
<1>8. Follows
  BY <1>1, <1>2, <1>3, <1>4, <1>6, <1>7 DEF Follows
<1>9. WellFormedSoFar
  BY <1>2, <1>4, MarkupAssumption DEF WellFormedSoFar
<1> QED BY <1>1, <1>8, <1>9 DEF HtmlInv

\* A step that reads nothing changes nothing that is said of the text.
LEMMA TheTextStays ==
    ASSUME document' = document
    PROVE  /\ \A i : Depth(i)' = Depth(i) /\ (Starts(i)' <=> Starts(i))
           /\ \A i : TokenIsRight(i)' <=> TokenIsRight(i)
           /\ WellFormedSoFar' <=> WellFormedSoFar
           /\ Complete' <=> Complete
<1>1. \A i : Depth(i)' = Depth(i) /\ (Starts(i)' <=> Starts(i)) /\ (Ends(i)' <=> Ends(i))
  BY DEF Depth, Starts, Ends
<1>2. \A i, j : Innermost(j, i)' <=> Innermost(j, i)
  BY <1>1 DEF Innermost
<1>3. \A i : (InCode(i)' <=> InCode(i)) /\ (StartsAny(i)' <=> StartsAny(i))
  BY <1>2 DEF InCode, StartsAny
<1>4. \A i : Resolves(i)' <=> Resolves(i)
  BY <1>2, <1>3 DEF Resolves
<1>5. \A i : TokenIsRight(i)' <=> TokenIsRight(i)
  BY <1>1, <1>2, <1>3, <1>4 DEF TokenIsRight
<1>6. WellFormedSoFar' <=> WellFormedSoFar
  BY <1>5 DEF WellFormedSoFar
<1>7. Complete' <=> Complete
  BY <1>1 DEF Complete
<1> QED BY <1>1, <1>5, <1>6, <1>7

LEMMA FinishDecides ==
    ASSUME HtmlInv, finish_html PROVE HtmlInv'
<1>1. /\ language = "html" /\ verdict = "reading"
      /\ UNCHANGED <<language, document, html, css>>
      /\ verdict' = IF html.root_seen /\ html.root_closed /\ html.stack = <<>>
                    THEN "accepted" ELSE "incomplete"
  BY DEF finish_html
<1>2. Follows /\ WellFormedSoFar
  BY <1>1 DEF HtmlInv
<1>3. html.root_seen /\ html.root_closed /\ html.stack = <<>> <=> Complete
  <2>1. DOMAIN document = 1..Len(document)
    BY <1>2 DEF Follows
  <2>2. html.stack = <<>> <=> Depth(Len(document) + 1) = 0
    BY <1>2, FollowsTypes DEF Follows, StackFollows
  <2>3. html.root_seen <=> \E i \in DOMAIN document : Starts(i)
    BY <1>2, <2>1 DEF Follows, FlagsFollow, Met
  <2>4. html.root_seen /\ html.stack = <<>> => html.root_closed
    BY <1>2 DEF Follows, FlagsFollow
  <2> QED BY <2>2, <2>3, <2>4 DEF Complete
<1>4. WellFormedSoFar' /\ (Complete' <=> Complete)
  BY <1>1, <1>2, TheTextStays
<1>5. language' = "html"
  BY <1>1
<1> QED BY <1>1, <1>3, <1>4, <1>5 DEF HtmlInv

LEMMA HtmlStepsDecide ==
    ASSUME HtmlInv, HtmlStep PROVE HtmlInv'
<1>1. Decides => HtmlInv'
  BY DEF Decides, HtmlInv
<1>2. CASE handle_decl
  BY <1>1, <1>2, DeclarationsDecide
<1>3. CASE handle_other_markup
  BY <1>1, <1>3, OtherMarkupDecides
<1>4. CASE \E tag \in Tag : handle_endtag(tag)
  BY <1>1, <1>4, EndTagsDecide
<1>5. CASE \E reference \in Reference : handle_data(reference)
  BY <1>1, <1>5, DataDecides
<1>6. CASE finish_html
  BY <1>6, FinishDecides
<1>7. ASSUME NEW tag \in Tag, NEW self_closing \in BOOLEAN,
             NEW attribute \in Attribute, NEW reference \in Reference,
             handle_starttag(tag, attribute, reference, self_closing)
      PROVE  HtmlInv'
  <2>1. attribute \in Attribute \cup {NoAttribute} /\ reference \in Reference \cup {NoAttribute}
    OBVIOUS
  <2> QED BY <1>1, <1>7, <2>1, StartTagsDecide
<1>8. ASSUME NEW tag \in Tag, NEW self_closing \in BOOLEAN,
             handle_starttag(tag, NoAttribute, NoAttribute, self_closing)
      PROVE  HtmlInv'
  <2>1. NoAttribute \in Attribute \cup {NoAttribute} /\ NoAttribute \in Reference \cup {NoAttribute}
    OBVIOUS
  <2> QED BY <1>1, <1>8, <2>1, StartTagsDecide
<1>9. CASE handle_charref
  BY <1>1, <1>9, CharrefsDecide
<1> QED BY <1>2, <1>3, <1>4, <1>5, <1>6, <1>7, <1>8, <1>9 DEF HtmlStep

\* One verdict on every document: _HtmlValidator, which keeps a stack, five flags and a
\* count, refuses at the first token after which no continuation is right, and at the
\* end says whether the document is complete; for every policy and every limit.
THEOREM TheStackDecides == MarkupSpec => []HtmlVerdict
<1>1. MarkupInit => HtmlInv
  BY EmptyDocuments
<1>2. HtmlInv /\ [MarkupNext]_markupVars => HtmlInv'
  <2> SUFFICES ASSUME HtmlInv, [MarkupNext]_markupVars PROVE HtmlInv'
    OBVIOUS
  <2>1. CASE HtmlStep
    BY <2>1, HtmlStepsDecide
  <2>2. CASE \E data \in Chunks : feed(data)
    BY <2>2 DEF feed, Reads, HtmlInv
  <2>3. CASE finish_css
    BY <2>3 DEF finish_css, HtmlInv
  <2>4. CASE UNCHANGED markupVars
    <3>1. language' = language /\ document' = document /\ verdict' = verdict /\ html' = html
      BY <2>4 DEF markupVars
    <3>2. /\ \A i : Depth(i)' = Depth(i) /\ (Starts(i)' <=> Starts(i))
          /\ WellFormedSoFar' <=> WellFormedSoFar
          /\ Complete' <=> Complete
      BY <3>1, TheTextStays
    <3>3. \A m, j : OpenedBy(m, j)' <=> OpenedBy(m, j)
      BY <3>1, <3>2 DEF OpenedBy
    <3>4. StackFollows' <=> StackFollows
      BY <3>1, <3>2, <3>3 DEF StackFollows
    <3>5. FlagsFollow' <=> FlagsFollow
      BY <3>1, <3>2 DEF FlagsFollow, Met
    <3>6. Follows' <=> Follows
      BY <3>1, <3>4, <3>5 DEF Follows
    <3> QED BY <3>1, <3>2, <3>6 DEF HtmlInv
  <2> QED BY <2>1, <2>2, <2>3, <2>4 DEF MarkupNext, HtmlStep
<1>3. HtmlInv => HtmlVerdict
  BY DEF HtmlInv, HtmlVerdict
<1> QED BY <1>1, <1>2, <1>3, PTL DEF MarkupSpec

----------------------------------------------------------------------------
\* RevisionStorage.

\* The call is still working towards its commit.
Building == {"reserve", "write", "install", "settle", "verify", "committed_write",
             "collided", "uncertain", "commit"}
\* It has a file in hand, between the file's reservation and its verification.
Handling == Building \ {"reserve", "commit"}

Of(k) == writer[k[1]]
Here(k) == k[2] = Of(k).file
HasBytes(k) == final[k] = "own" \/ k \in pending

\* The row says how far the call came.
RowFollowsCall(k) ==
    /\ Of(k).pc \in Handling /\ Here(k) => reservation[k].state = "reserved"
    /\ Of(k).pc \in Building /\ (k[2] > Of(k).file \/ (Here(k) /\ Of(k).pc = "reserve"))
          => reservation[k] = NoReservation
    /\ k \in artifacts => reservation[k] = NoReservation /\ Of(k).pc \notin Building

\* The call knows which bytes are its own.
CallKnowsBytes(k) ==
    /\ Of(k).pc \in Building => k[2] \notin Of(k).uncertain
    /\ Of(k).pc \in Building /\ k[2] \in Of(k).owns_bytes
          => \/ k[2] < Of(k).file
             \/ Here(k) /\ Of(k).pc \in {"verify", "committed_write", "commit"}
    /\ Of(k).pc = "install" /\ Here(k) => final[k] # "own"
    /\ Of(k).pc \in {"settle", "verify", "committed_write"} /\ Here(k) => final[k] = "own"
    /\ Of(k).pc \in {"verify", "committed_write"} /\ Here(k) => k[2] \in Of(k).owns_bytes
    /\ Of(k).pc = "deleted" /\ Here(k) => ~HasBytes(k)
    /\ k[2] \in Of(k).owns_bytes => final[k] # "foreign"
    /\ Of(k).pc # "done" /\ HasBytes(k)
          => \/ k[2] \in Of(k).owns_bytes \cup Of(k).uncertain
             \/ Here(k) /\ Of(k).pc \in {"install", "settle", "uncertain"}

\* What a row says of the bytes.
RowKnowsBytes(k) ==
    /\ reservation[k].state = "collision" => ~HasBytes(k)
    /\ reservation[k].state = "owned" => final[k] # "foreign"
    /\ HasBytes(k) => k \in artifacts \/ reservation[k] # NoReservation

\* A row lock is held by exactly the transaction that deletes bytes.
LockIsHeld(k) ==
    /\ lock[k] # Nobody => reservation[k] # NoReservation
    /\ lock[k] \in Writer => lock[k] = k[1]
    /\ lock[k] \in Writer <=> Here(k) /\ Of(k).pc \in {"deleted", "delete_failed"}
    /\ lock[k] \in Cleaner => reservation[k].state = "owned" /\ k \in expired
    /\ \A c \in Cleaner : /\ lock[k] = c <=> cleaner[c].key = k
                          /\ cleaner[c].pc = "deleted" /\ cleaner[c].key = k => ~HasBytes(k)

KeyInvariant(k) ==
    RowFollowsCall(k) /\ CallKnowsBytes(k) /\ RowKnowsBytes(k) /\ LockIsHeld(k)

\* The verified bytes are there as long as the call may still commit them, and
\* ever after.  Only cleaners that outlive an upload's 24 hours can break it.
BytesStay(k) ==
    /\ k \in artifacts => final[k] = "own"
    /\ /\ reservation[k] = Row("owned", FALSE)
       /\ lock[k] = Nobody
       /\ Of(k).pc \in Building
       => final[k] = "own"

\* A cleaner's transaction is about a key.
CleanersHaveKeys == \A c \in Cleaner : cleaner[c] = Idle \/ cleaner[c].key \in Key

IInv == TypeOK /\ CleanersHaveKeys /\ \A k \in Key : KeyInvariant(k)

----------------------------------------------------------------------------
(* Keys and records.                                                       *)

\* A key is its call and its file.
LEMMA KeyParts ==
    ASSUME NEW k \in Key
    PROVE  k[1] \in Writer /\ k[2] \in 1..Files /\ k = <<k[1], k[2]>>
  BY DEF Key

\* The key a call is working on is a key of its own.
LEMMA CurrentKeyIsKey ==
    ASSUME TypeOK, NEW w \in Writer
    PROVE  /\ CurrentKey(w) \in Key
           /\ \A k \in Key : k = CurrentKey(w) <=> k[1] = w /\ Here(k)
  BY DEF Key, CurrentKey, TypeOK, Of, Here

\* A call remembers files.
LEMMA CallTypes ==
    ASSUME TypeOK, NEW w \in Writer
    PROVE  /\ writer[w].file \in 1..Files
           /\ writer[w].reserved \in SUBSET (1..Files)
           /\ writer[w].owns_bytes \in SUBSET (1..Files)
           /\ writer[w].uncertain \in SUBSET (1..Files)
           /\ Files \in Nat \ {0} /\ 1 \in 1..Files
  BY StorageAssumption DEF TypeOK

\* What a call remembers.
Memory(pc, file, reserved, owns_bytes, uncertain) ==
    [pc |-> pc, file |-> file, reserved |-> reserved, owns_bytes |-> owns_bytes,
     uncertain |-> uncertain]

\* The call moves on; the others do not.
Moved(w, pc, file, reserved, owns_bytes, uncertain) ==
    /\ writer' \in [Writer -> [pc : WriterStages, file : 1..Files,
                               reserved : SUBSET (1..Files),
                               owns_bytes : SUBSET (1..Files),
                               uncertain : SUBSET (1..Files)]]
    /\ writer'[w].pc = pc /\ writer'[w].file = file /\ writer'[w].reserved = reserved
    /\ writer'[w].owns_bytes = owns_bytes /\ writer'[w].uncertain = uncertain
    /\ \A v \in Writer : v # w => writer'[v] = writer[v]

\* An update of the whole record moves the call.
LEMMA MemoryMoves ==
    ASSUME TypeOK, NEW w \in Writer, NEW pc \in WriterStages, NEW file \in 1..Files,
           NEW reserved \in SUBSET (1..Files), NEW owns_bytes \in SUBSET (1..Files),
           NEW uncertain \in SUBSET (1..Files),
           writer' = [writer EXCEPT ![w] = Memory(pc, file, reserved, owns_bytes, uncertain)]
    PROVE  Moved(w, pc, file, reserved, owns_bytes, uncertain)
  BY DEF TypeOK, Memory, Moved

\* What the updates of the code's local variables come to.
LEMMA StageUpdate ==
    ASSUME TypeOK, NEW w \in Writer, NEW pc \in WriterStages
    PROVE  [writer EXCEPT ![w].pc = pc] = [writer EXCEPT ![w] =
               Memory(pc, writer[w].file, writer[w].reserved, writer[w].owns_bytes,
                      writer[w].uncertain)]
<1>1. writer[w] \in [pc : WriterStages, file : 1..Files, reserved : SUBSET (1..Files),
                      owns_bytes : SUBSET (1..Files), uncertain : SUBSET (1..Files)]
  BY DEF TypeOK
<1>2. [writer[w] EXCEPT !.pc = pc]
        = Memory(pc, writer[w].file, writer[w].reserved, writer[w].owns_bytes,
                 writer[w].uncertain)
  BY <1>1 DEF Memory
<1> QED  BY <1>2

\* ... with the file that comes next, or the first again (Fail).
LEMMA FileUpdate ==
    ASSUME TypeOK, NEW w \in Writer, NEW pc \in WriterStages, NEW file \in 1..Files
    PROVE  [writer EXCEPT ![w].pc = pc, ![w].file = file]
             = [writer EXCEPT ![w] =
                   Memory(pc, file, writer[w].reserved, writer[w].owns_bytes,
                          writer[w].uncertain)]
<1> DEFINE moved == [writer EXCEPT ![w].pc = pc]
           before == Memory(pc, writer[w].file, writer[w].reserved, writer[w].owns_bytes,
                            writer[w].uncertain)
           after == Memory(pc, file, writer[w].reserved, writer[w].owns_bytes,
                           writer[w].uncertain)
<1>1. moved = [writer EXCEPT ![w] = before]
  BY StageUpdate
<1> SUFFICES [moved EXCEPT ![w].file = file] = [writer EXCEPT ![w] = after]
  OBVIOUS
<1> HIDE DEF moved
<1>2. writer \in [Writer -> [pc : WriterStages, file : 1..Files, reserved : SUBSET (1..Files),
                            owns_bytes : SUBSET (1..Files), uncertain : SUBSET (1..Files)]]
  BY DEF TypeOK
<1>3. moved[w] = before
  BY <1>1, <1>2
<1>4. [moved[w] EXCEPT !.file = file] = after
  BY <1>3 DEF Memory
<1> QED  BY <1>1, <1>2, <1>4

\* ... with the file after this one.
LEMMA NextFileUpdate ==
    ASSUME TypeOK, NEW w \in Writer, NEW pc \in WriterStages
    PROVE  [writer EXCEPT ![w].pc = pc, ![w].file = @ + 1]
             = [writer EXCEPT ![w] =
                   Memory(pc, writer[w].file + 1, writer[w].reserved, writer[w].owns_bytes,
                          writer[w].uncertain)]
<1> DEFINE moved == [writer EXCEPT ![w].pc = pc]
           before == Memory(pc, writer[w].file, writer[w].reserved, writer[w].owns_bytes,
                            writer[w].uncertain)
           after == Memory(pc, writer[w].file + 1, writer[w].reserved, writer[w].owns_bytes,
                           writer[w].uncertain)
<1>1. moved = [writer EXCEPT ![w] = before]
  BY StageUpdate
<1> SUFFICES [moved EXCEPT ![w].file = @ + 1] = [writer EXCEPT ![w] = after]
  OBVIOUS
<1> HIDE DEF moved
<1>2. writer \in [Writer -> [pc : WriterStages, file : 1..Files, reserved : SUBSET (1..Files),
                            owns_bytes : SUBSET (1..Files), uncertain : SUBSET (1..Files)]]
  BY DEF TypeOK
<1>3. moved[w] = before
  BY <1>1, <1>2
<1>4. [moved[w] EXCEPT !.file = @ + 1] = after
  BY <1>3 DEF Memory
<1> QED  BY <1>1, <1>2, <1>4

\* ... with one more candidate for the clean-up.
LEMMA ReservedUpdate ==
    ASSUME TypeOK, NEW w \in Writer, NEW pc \in WriterStages, NEW i \in 1..Files
    PROVE  [writer EXCEPT ![w].pc = pc, ![w].reserved = @ \cup {i}]
             = [writer EXCEPT ![w] =
                   Memory(pc, writer[w].file, writer[w].reserved \cup {i},
                          writer[w].owns_bytes, writer[w].uncertain)]
<1> DEFINE moved == [writer EXCEPT ![w].pc = pc]
           before == Memory(pc, writer[w].file, writer[w].reserved, writer[w].owns_bytes,
                            writer[w].uncertain)
           after == Memory(pc, writer[w].file, writer[w].reserved \cup {i},
                           writer[w].owns_bytes, writer[w].uncertain)
<1>1. moved = [writer EXCEPT ![w] = before]
  BY StageUpdate
<1> SUFFICES [moved EXCEPT ![w].reserved = @ \cup {i}] = [writer EXCEPT ![w] = after]
  OBVIOUS
<1> HIDE DEF moved
<1>2. writer \in [Writer -> [pc : WriterStages, file : 1..Files, reserved : SUBSET (1..Files),
                            owns_bytes : SUBSET (1..Files), uncertain : SUBSET (1..Files)]]
  BY DEF TypeOK
<1>3. moved[w] = before
  BY <1>1, <1>2
<1>4. [moved[w] EXCEPT !.reserved = @ \cup {i}] = after
  BY <1>3 DEF Memory
<1> QED  BY <1>1, <1>2, <1>4

\* ... with one more candidate whose bytes are the call's own.
LEMMA OwnedUpdate ==
    ASSUME TypeOK, NEW w \in Writer, NEW pc \in WriterStages, NEW i \in 1..Files
    PROVE  [writer EXCEPT ![w].pc = pc, ![w].owns_bytes = @ \cup {i}]
             = [writer EXCEPT ![w] =
                   Memory(pc, writer[w].file, writer[w].reserved,
                          writer[w].owns_bytes \cup {i}, writer[w].uncertain)]
<1> DEFINE moved == [writer EXCEPT ![w].pc = pc]
           before == Memory(pc, writer[w].file, writer[w].reserved, writer[w].owns_bytes,
                            writer[w].uncertain)
           after == Memory(pc, writer[w].file, writer[w].reserved,
                           writer[w].owns_bytes \cup {i}, writer[w].uncertain)
<1>1. moved = [writer EXCEPT ![w] = before]
  BY StageUpdate
<1> SUFFICES [moved EXCEPT ![w].owns_bytes = @ \cup {i}] = [writer EXCEPT ![w] = after]
  OBVIOUS
<1> HIDE DEF moved
<1>2. writer \in [Writer -> [pc : WriterStages, file : 1..Files, reserved : SUBSET (1..Files),
                            owns_bytes : SUBSET (1..Files), uncertain : SUBSET (1..Files)]]
  BY DEF TypeOK
<1>3. moved[w] = before
  BY <1>1, <1>2
<1>4. [moved[w] EXCEPT !.owns_bytes = @ \cup {i}] = after
  BY <1>3 DEF Memory
<1> QED  BY <1>1, <1>2, <1>4

\* ... with one more candidate whose bytes are uncertain.
LEMMA UncertainUpdate ==
    ASSUME TypeOK, NEW w \in Writer
    PROVE  [writer EXCEPT ![w].pc = "cleanup", ![w].file = 1,
                          ![w].uncertain = @ \cup {writer[w].file}]
             = [writer EXCEPT ![w] = Memory("cleanup", 1, writer[w].reserved, writer[w].owns_bytes,
                                            writer[w].uncertain \cup {writer[w].file})]
<1> DEFINE moved == [writer EXCEPT ![w].pc = "cleanup", ![w].file = 1]
           before == Memory("cleanup", 1, writer[w].reserved, writer[w].owns_bytes,
                            writer[w].uncertain)
           after == Memory("cleanup", 1, writer[w].reserved, writer[w].owns_bytes,
                           writer[w].uncertain \cup {writer[w].file})
<1>1. moved = [writer EXCEPT ![w] = before]
  <2>1. "cleanup" \in WriterStages /\ 1 \in 1..Files
    BY CallTypes DEF WriterStages
  <2> QED  BY <2>1, FileUpdate
<1> SUFFICES [moved EXCEPT ![w].uncertain = writer[w].uncertain \cup {writer[w].file}]
               = [writer EXCEPT ![w] = after]
  OBVIOUS
<1> HIDE DEF moved
<1>2. writer \in [Writer -> [pc : WriterStages, file : 1..Files, reserved : SUBSET (1..Files),
                            owns_bytes : SUBSET (1..Files), uncertain : SUBSET (1..Files)]]
  BY DEF TypeOK
<1>3. moved[w] = before
  BY <1>1, <1>2
<1>4. [moved[w] EXCEPT !.uncertain = writer[w].uncertain \cup {writer[w].file}] = after
  BY <1>3 DEF Memory
<1> QED  BY <1>1, <1>2, <1>4

\* The clean-up goes on to the next candidate, or is over.
LEMMA NextCandidateMoves ==
    ASSUME TypeOK, NEW w \in Writer, NextCandidate(w)
    PROVE  \E pc \in {"cleanup", "done"} : \E file \in 1..Files :
               Moved(w, pc, file, writer[w].reserved, writer[w].owns_bytes, writer[w].uncertain)
<1>1. CASE writer[w].file < Files
  <2>1. writer' = [writer EXCEPT ![w] = Memory("cleanup", writer[w].file + 1,
                writer[w].reserved, writer[w].owns_bytes, writer[w].uncertain)]
    BY <1>1, NextFileUpdate DEF WriterStages, NextCandidate
  <2>2. writer[w].file + 1 \in 1..Files
    BY <1>1, CallTypes
  <2>3. Moved(w, "cleanup", writer[w].file + 1, writer[w].reserved, writer[w].owns_bytes,
              writer[w].uncertain)
    BY <2>1, <2>2, MemoryMoves, CallTypes DEF WriterStages
  <2> QED  BY <2>2, <2>3
<1>2. CASE ~(writer[w].file < Files)
  <2>1. writer' = [writer EXCEPT ![w] = Memory("done", writer[w].file,
                writer[w].reserved, writer[w].owns_bytes, writer[w].uncertain)]
    BY <1>2, StageUpdate DEF WriterStages, NextCandidate
  <2>2. Moved(w, "done", writer[w].file, writer[w].reserved, writer[w].owns_bytes,
              writer[w].uncertain)
    BY <2>1, MemoryMoves, CallTypes DEF WriterStages
  <2> QED  BY <2>2, CallTypes
<1> QED  BY <1>1, <1>2

\* Changing one column of a row.
LEMMA ColumnUpdate ==
    ASSUME NEW row, NEW value, NEW states, NEW flags,
           row \in [state : states, cleanup_required : flags]
    PROVE  /\ [row EXCEPT !.state = value]
                = [state |-> value, cleanup_required |-> row.cleanup_required]
           /\ [row EXCEPT !.cleanup_required = value]
                = [state |-> row.state, cleanup_required |-> value]
  OBVIOUS

\* The rows a service writes are rows.
LEMMA RowUpdate ==
    ASSUME TypeOK, NEW k \in Key, NEW state
    PROVE  /\ [reservation EXCEPT ![k].state = state]
                = [reservation EXCEPT ![k] = Row(state, reservation[k].cleanup_required)]
           /\ [reservation EXCEPT ![k].cleanup_required = TRUE]
                = [reservation EXCEPT ![k] = Row(reservation[k].state, TRUE)]
           /\ [reservation[k] EXCEPT !.cleanup_required = TRUE]
                = Row(reservation[k].state, TRUE)
<1>1. reservation[k] \in [state : {"absent", "reserved", "owned", "collision"},
                          cleanup_required : BOOLEAN]
  BY DEF TypeOK
<1>2. [reservation[k] EXCEPT !.state = state] = Row(state, reservation[k].cleanup_required)
  BY <1>1, ColumnUpdate DEF Row
<1>3. [reservation[k] EXCEPT !.cleanup_required = TRUE] = Row(reservation[k].state, TRUE)
  BY <1>1, ColumnUpdate, Zenon DEF Row
<1> QED  BY <1>2, <1>3

\* The rows the cleaners leave.
LEMMA CleanersRows ==
    /\ \A row \in {NoReservation, Row("reserved", TRUE), Row("owned", TRUE)} :
          /\ row \in [state : {"absent", "reserved", "owned", "collision"},
                      cleanup_required : BOOLEAN]
          /\ row # Row("owned", FALSE)
    /\ NoReservation.state = "absent"
    /\ Row("reserved", TRUE).state = "reserved"
    /\ Row("owned", TRUE).state = "owned"
<1>1. /\ NoReservation \in [state : {"absent", "reserved", "owned", "collision"},
                            cleanup_required : BOOLEAN]
      /\ NoReservation # Row("owned", FALSE)
  BY DEF Row, NoReservation
<1>2. /\ Row("reserved", TRUE) \in [state : {"absent", "reserved", "owned", "collision"},
                                   cleanup_required : BOOLEAN]
      /\ Row("reserved", TRUE) # Row("owned", FALSE)
  BY DEF Row
<1>3. Row("owned", TRUE) \in [state : {"absent", "reserved", "owned", "collision"},
                             cleanup_required : BOOLEAN]
  BY DEF Row
<1>4. Row("owned", TRUE) # Row("owned", FALSE)
  <2>1. Row("owned", TRUE).cleanup_required = TRUE /\ Row("owned", FALSE).cleanup_required = FALSE
    BY DEF Row
  <2> QED  BY <2>1
<1> QED  BY <1>1, <1>2, <1>3, <1>4 DEF Row, NoReservation

----------------------------------------------------------------------------
(* Keys that a step does not touch.                                        *)

Untouched(k) ==
    /\ reservation'[k] = reservation[k]
    /\ lock'[k] = lock[k]
    /\ final'[k] = final[k]
    /\ k \in pending' <=> k \in pending
    /\ k \in artifacts' <=> k \in artifacts
    /\ k \in expired => k \in expired'
    /\ writer'[k[1]] = writer[k[1]]
    /\ \A c \in Cleaner : \/ cleaner'[c] = cleaner[c]
                          \/ cleaner[c].key # k /\ cleaner'[c].key # k

Keeps(k) == KeyInvariant(k)' /\ (BytesStay(k) => BytesStay(k)')

\* What a step does not touch keeps its invariant.
LEMMA UntouchedKeeps ==
    ASSUME NEW k \in Key, KeyInvariant(k), Untouched(k)
    PROVE  Keeps(k)
<1>1. /\ RowFollowsCall(k)' /\ CallKnowsBytes(k)' /\ RowKnowsBytes(k)'
      /\ BytesStay(k) => BytesStay(k)'
  BY DEF KeyInvariant, Untouched, RowFollowsCall, CallKnowsBytes, RowKnowsBytes,
         BytesStay, Of, Here, HasBytes
<1>2. LockIsHeld(k)'
  BY DEF KeyInvariant, Untouched, LockIsHeld, Of, Here, HasBytes
<1> QED  BY <1>1, <1>2 DEF Keeps, KeyInvariant

\* A step of a call need only be followed on the call's own keys.
LEMMA CallStep ==
    ASSUME IInv, NEW w \in Writer, TypeOK',
           \A k \in Key : k[1] # w => Untouched(k),
           \A k \in Key : k[1] = w => Keeps(k)
    PROVE  TypeOK' /\ \A k \in Key : Keeps(k)
  BY UntouchedKeeps DEF IInv

----------------------------------------------------------------------------
(* The steps of an upload.                                                 *)

\* A call that gives up, its rows and files as they are, starts its clean-up.
LEMMA FailKeeps ==
    ASSUME IInv, NEW w \in Writer, Fail(w),
           writer[w].pc \in {"reserve", "write", "verify", "committed_write", "collided", "commit"},
           UNCHANGED <<reservation, expired, lock, artifacts, pending, final, cleaner>>
    PROVE  TypeOK' /\ \A k \in Key : Keeps(k)
<1>1. /\ TypeOK /\ CurrentKey(w) \in Key /\ writer[w].file \in 1..Files
  BY CurrentKeyIsKey DEF IInv, TypeOK
<1>2. CASE Fail(w)
  <2>1. Moved(w, "cleanup", 1, writer[w].reserved,
                  writer[w].owns_bytes, writer[w].uncertain)
    <3>1. writer' = [writer EXCEPT ![w] = Memory("cleanup", 1, writer[w].reserved,
                  writer[w].owns_bytes, writer[w].uncertain)]
      BY <1>1, <1>2, FileUpdate, CallTypes DEF WriterStages, Fail
    <3> QED  BY <1>1, <3>1, MemoryMoves, CallTypes DEF WriterStages
  <2>2. UNCHANGED <<reservation, expired, lock, artifacts, pending, final, cleaner>>
    BY <1>1, <1>2 DEF Fail, rowVars, fileVars, Fail
  <2>4. TypeOK'
    BY <1>1, <2>1, <2>2 DEF TypeOK, Moved
  <2>5. ASSUME NEW k \in Key, k[1] # w
        PROVE  Untouched(k)
    BY <1>1, <2>1, <2>2, <2>5, KeyParts, CurrentKeyIsKey
    DEF Untouched, Moved, TypeOK
  <2>6. ASSUME NEW k \in Key, k[1] = w
        PROVE  Keeps(k)
    <3>2. KeyInvariant(k) /\ k[2] \in 1..Files /\ (k = CurrentKey(w) <=> Here(k))
      BY <1>1, <2>6, KeyParts, CurrentKeyIsKey DEF IInv
    <3>3. RowFollowsCall(k)'
      BY <1>1, <1>2, <2>1, <2>2, <2>6, <3>2
      DEF KeyInvariant, RowFollowsCall, CallKnowsBytes, RowKnowsBytes, Moved, Of, Here,
          Building, Handling, HasBytes, NoReservation, TypeOK
    <3>4. CallKnowsBytes(k)' /\ RowKnowsBytes(k)'
      BY <1>1, <1>2, <2>1, <2>2, <2>6, <3>2
      DEF KeyInvariant, RowFollowsCall, CallKnowsBytes, RowKnowsBytes, Moved, Of, Here,
          Building, Handling, HasBytes, NoReservation, TypeOK
    <3>5. LockIsHeld(k)'
      BY <1>1, <1>2, <2>1, <2>2, <2>6, <3>2, StorageAssumption
      DEF KeyInvariant, RowFollowsCall, CallKnowsBytes, RowKnowsBytes, Moved, Of, Here,
          Building, Handling, HasBytes, NoReservation, TypeOK, LockIsHeld
    <3>6. BytesStay(k) => BytesStay(k)'
      BY <1>1, <1>2, <2>1, <2>2, <2>6, <3>2
      DEF KeyInvariant, RowFollowsCall, CallKnowsBytes, RowKnowsBytes, Moved, Of, Here,
          Building, Handling, HasBytes, NoReservation, TypeOK, BytesStay
    <3> QED  BY <3>3, <3>4, <3>5, <3>6 DEF Keeps, KeyInvariant
  <2> QED  BY <2>4, <2>5, <2>6, CallStep
<1> QED  BY <1>2

\* _reserve_storage_key made a row, or the call failed.
LEMMA ReserveKeeps ==
    ASSUME IInv, NEW w \in Writer, reserve(w)
    PROVE  TypeOK' /\ \A k \in Key : Keeps(k)
<1>1. /\ TypeOK /\ CurrentKey(w) \in Key /\ writer[w].file \in 1..Files
      /\ writer[w].pc = "reserve"
  BY CurrentKeyIsKey DEF IInv, reserve, TypeOK
<1>2. CASE /\ SetReservation(CurrentKey(w), Row("reserved", FALSE))
           /\ writer' = [writer EXCEPT ![w].pc = "write",
                                      ![w].reserved = @ \cup {writer[w].file}]
  <2>1. Moved(w, "write", writer[w].file, writer[w].reserved \cup {writer[w].file},
                  writer[w].owns_bytes, writer[w].uncertain)
    <3>1. writer' = [writer EXCEPT ![w] = Memory("write", writer[w].file, writer[w].reserved \cup {writer[w].file},
                  writer[w].owns_bytes, writer[w].uncertain)]
      BY <1>1, <1>2, ReservedUpdate, CallTypes DEF WriterStages
    <3> QED  BY <1>1, <3>1, MemoryMoves, CallTypes DEF WriterStages
  <2>2. UNCHANGED <<expired, lock, artifacts, pending, final, cleaner>>
    BY <1>1, <1>2 DEF reserve, rowVars, fileVars, SetReservation
  <2>3. reservation' = [reservation EXCEPT ![CurrentKey(w)] = Row("reserved", FALSE)]
    BY <1>1, <1>2 DEF reserve, SetReservation
  <2>4. TypeOK'
    BY <1>1, <2>1, <2>2, <2>3 DEF TypeOK, Moved, Row, NoReservation
  <2>5. ASSUME NEW k \in Key, k[1] # w
        PROVE  Untouched(k)
    BY <1>1, <2>1, <2>2, <2>3, <2>5, KeyParts, CurrentKeyIsKey
    DEF Untouched, Moved, TypeOK
  <2>6. ASSUME NEW k \in Key, k[1] = w
        PROVE  Keeps(k)
    <3>1. /\ reservation'[k] = IF Here(k) THEN Row("reserved", FALSE) ELSE reservation[k]
          /\ reservation'[k].state = IF Here(k) THEN "reserved" ELSE reservation[k].state
      BY <1>1, <2>3, <2>6, CurrentKeyIsKey DEF TypeOK, Row, NoReservation
    <3>2. KeyInvariant(k) /\ k[2] \in 1..Files /\ (k = CurrentKey(w) <=> Here(k))
      BY <1>1, <2>6, KeyParts, CurrentKeyIsKey DEF IInv
    <3>3. RowFollowsCall(k)'
      <4>1. RowFollowsCall(k) /\ Of(k) = writer[w] /\ Of(k)' = writer'[w]
        BY <2>6, <3>2 DEF KeyInvariant, Of
      <4>2. k \notin artifacts
        BY <1>1, <4>1 DEF RowFollowsCall, Building
      <4>3. k[2] > writer[w].file => ~Here(k)
        BY <1>1, <3>2, <4>1 DEF Here
      <4> QED
        BY <1>1, <2>1, <2>2, <3>1, <4>1, <4>2, <4>3
        DEF RowFollowsCall, Moved, Of, Here, Building, Handling
    <3>4. CallKnowsBytes(k)' /\ RowKnowsBytes(k)'
      <4>1. CallKnowsBytes(k)'
        BY <1>1, <1>2, <2>1, <2>2, <2>6, <3>1, <3>2
        DEF KeyInvariant, RowFollowsCall, CallKnowsBytes, RowKnowsBytes, Moved, Of, Here,
          Building, Handling, HasBytes, NoReservation, TypeOK, Row
      <4>2. RowKnowsBytes(k)'
        BY <1>1, <1>2, <2>1, <2>2, <2>6, <3>1, <3>2
        DEF KeyInvariant, RowFollowsCall, CallKnowsBytes, RowKnowsBytes, Moved, Of, Here,
          Building, Handling, HasBytes, NoReservation, TypeOK, Row
      <4> QED  BY <4>1, <4>2
    <3>5. LockIsHeld(k)'
      BY <1>1, <1>2, <2>1, <2>2, <2>6, <3>1, <3>2, StorageAssumption
      DEF KeyInvariant, RowFollowsCall, CallKnowsBytes, RowKnowsBytes, Moved, Of, Here,
          Building, Handling, HasBytes, NoReservation, TypeOK, Row, LockIsHeld
    <3>6. BytesStay(k) => BytesStay(k)'
      BY <1>1, <1>2, <2>1, <2>2, <2>6, <3>1, <3>2
      DEF KeyInvariant, RowFollowsCall, CallKnowsBytes, RowKnowsBytes, Moved, Of, Here,
          Building, Handling, HasBytes, NoReservation, TypeOK, Row, BytesStay
    <3> QED  BY <3>3, <3>4, <3>5, <3>6 DEF Keeps, KeyInvariant
  <2> QED  BY <2>4, <2>5, <2>6, CallStep
<1>3. CASE Fail(w) /\ UNCHANGED reservation
  BY <1>1, <1>3, FailKeeps DEF reserve, rowVars, fileVars
<1> QED  BY <1>1, <1>2, <1>3 DEF reserve

\* The pending file was opened, or not.
LEMMA WritePendingKeeps ==
    ASSUME IInv, NEW w \in Writer, write_pending(w)
    PROVE  TypeOK' /\ \A k \in Key : Keeps(k)
<1>1. /\ TypeOK /\ CurrentKey(w) \in Key /\ writer[w].file \in 1..Files
      /\ writer[w].pc = "write"
  BY CurrentKeyIsKey DEF IInv, write_pending, TypeOK
<1>2. CASE /\ pending' = pending \cup {CurrentKey(w)}
           /\ Goto(w, "install")
  <2>1. Moved(w, "install", writer[w].file, writer[w].reserved,
                  writer[w].owns_bytes, writer[w].uncertain)
    <3>1. writer' = [writer EXCEPT ![w] = Memory("install", writer[w].file, writer[w].reserved,
                  writer[w].owns_bytes, writer[w].uncertain)]
      BY <1>1, <1>2, StageUpdate, CallTypes DEF WriterStages, Goto
    <3> QED  BY <1>1, <3>1, MemoryMoves, CallTypes DEF WriterStages
  <2>2. UNCHANGED <<reservation, expired, lock, artifacts, final, cleaner>>
    BY <1>1, <1>2 DEF write_pending, rowVars, fileVars, Goto
  <2>3. pending' = pending \cup {CurrentKey(w)}
    BY <1>1, <1>2 DEF write_pending, Goto
  <2>4. TypeOK'
    BY <1>1, <2>1, <2>2, <2>3 DEF TypeOK, Moved
  <2>5. ASSUME NEW k \in Key, k[1] # w
        PROVE  Untouched(k)
    BY <1>1, <2>1, <2>2, <2>3, <2>5, KeyParts, CurrentKeyIsKey
    DEF Untouched, Moved, TypeOK
  <2>6. ASSUME NEW k \in Key, k[1] = w
        PROVE  Keeps(k)
    <3>1. k \in pending' <=> Here(k) \/ k \in pending
      BY <1>1, <2>3, <2>6, CurrentKeyIsKey DEF TypeOK
    <3>2. KeyInvariant(k) /\ k[2] \in 1..Files /\ (k = CurrentKey(w) <=> Here(k))
      BY <1>1, <2>6, KeyParts, CurrentKeyIsKey DEF IInv
    <3>3. RowFollowsCall(k)'
      BY <1>1, <1>2, <2>1, <2>2, <2>6, <3>1, <3>2
      DEF KeyInvariant, RowFollowsCall, CallKnowsBytes, RowKnowsBytes, Moved, Of, Here,
          Building, Handling, HasBytes, NoReservation, TypeOK
    <3>4. CallKnowsBytes(k)' /\ RowKnowsBytes(k)'
      BY <1>1, <1>2, <2>1, <2>2, <2>6, <3>1, <3>2
      DEF KeyInvariant, RowFollowsCall, CallKnowsBytes, RowKnowsBytes, Moved, Of, Here,
          Building, Handling, HasBytes, NoReservation, TypeOK
    <3>5. LockIsHeld(k)'
      BY <1>1, <1>2, <2>1, <2>2, <2>6, <3>1, <3>2, StorageAssumption
      DEF KeyInvariant, RowFollowsCall, CallKnowsBytes, RowKnowsBytes, Moved, Of, Here,
          Building, Handling, HasBytes, NoReservation, TypeOK, LockIsHeld
    <3>6. BytesStay(k) => BytesStay(k)'
      BY <1>1, <1>2, <2>1, <2>2, <2>6, <3>1, <3>2
      DEF KeyInvariant, RowFollowsCall, CallKnowsBytes, RowKnowsBytes, Moved, Of, Here,
          Building, Handling, HasBytes, NoReservation, TypeOK, BytesStay
    <3> QED  BY <3>3, <3>4, <3>5, <3>6 DEF Keeps, KeyInvariant
  <2> QED  BY <2>4, <2>5, <2>6, CallStep
<1>3. CASE UNCHANGED pending /\ Fail(w)
  BY <1>1, <1>3, FailKeeps DEF write_pending, rowVars, fileVars
<1>4. CASE UNCHANGED pending /\ Goto(w, "collided")
  <2>1. Moved(w, "collided", writer[w].file, writer[w].reserved,
                  writer[w].owns_bytes, writer[w].uncertain)
    <3>1. writer' = [writer EXCEPT ![w] = Memory("collided", writer[w].file, writer[w].reserved,
                  writer[w].owns_bytes, writer[w].uncertain)]
      BY <1>1, <1>4, StageUpdate, CallTypes DEF WriterStages, Goto
    <3> QED  BY <1>1, <3>1, MemoryMoves, CallTypes DEF WriterStages
  <2>2. UNCHANGED <<reservation, expired, lock, artifacts, pending, final, cleaner>>
    BY <1>1, <1>4 DEF write_pending, rowVars, fileVars, Goto
  <2>4. TypeOK'
    BY <1>1, <2>1, <2>2 DEF TypeOK, Moved
  <2>5. ASSUME NEW k \in Key, k[1] # w
        PROVE  Untouched(k)
    BY <1>1, <2>1, <2>2, <2>5, KeyParts, CurrentKeyIsKey
    DEF Untouched, Moved, TypeOK
  <2>6. ASSUME NEW k \in Key, k[1] = w
        PROVE  Keeps(k)
    <3>2. KeyInvariant(k) /\ k[2] \in 1..Files /\ (k = CurrentKey(w) <=> Here(k))
      BY <1>1, <2>6, KeyParts, CurrentKeyIsKey DEF IInv
    <3>3. RowFollowsCall(k)'
      BY <1>1, <1>4, <2>1, <2>2, <2>6, <3>2
      DEF KeyInvariant, RowFollowsCall, CallKnowsBytes, RowKnowsBytes, Moved, Of, Here,
          Building, Handling, HasBytes, NoReservation, TypeOK
    <3>4. CallKnowsBytes(k)' /\ RowKnowsBytes(k)'
      BY <1>1, <1>4, <2>1, <2>2, <2>6, <3>2
      DEF KeyInvariant, RowFollowsCall, CallKnowsBytes, RowKnowsBytes, Moved, Of, Here,
          Building, Handling, HasBytes, NoReservation, TypeOK
    <3>5. LockIsHeld(k)'
      BY <1>1, <1>4, <2>1, <2>2, <2>6, <3>2, StorageAssumption
      DEF KeyInvariant, RowFollowsCall, CallKnowsBytes, RowKnowsBytes, Moved, Of, Here,
          Building, Handling, HasBytes, NoReservation, TypeOK, LockIsHeld
    <3>6. BytesStay(k) => BytesStay(k)'
      BY <1>1, <1>4, <2>1, <2>2, <2>6, <3>2
      DEF KeyInvariant, RowFollowsCall, CallKnowsBytes, RowKnowsBytes, Moved, Of, Here,
          Building, Handling, HasBytes, NoReservation, TypeOK, BytesStay
    <3> QED  BY <3>3, <3>4, <3>5, <3>6 DEF Keeps, KeyInvariant
  <2> QED  BY <2>4, <2>5, <2>6, CallStep
<1> QED  BY <1>1, <1>2, <1>3, <1>4 DEF write_pending

\* A write is given up before its file has a final name.
LEMMA WriteFailsKeeps ==
    ASSUME IInv, NEW w \in Writer, write_fails(w)
    PROVE  TypeOK' /\ \A k \in Key : Keeps(k)
<1>1. /\ TypeOK /\ CurrentKey(w) \in Key /\ writer[w].file \in 1..Files
      /\ writer[w].pc = "install"
  BY CurrentKeyIsKey DEF IInv, write_fails, TypeOK
<1>2. CASE pending' = pending \ {CurrentKey(w)} /\ Fail(w)
  <2>1. Moved(w, "cleanup", 1, writer[w].reserved,
                  writer[w].owns_bytes, writer[w].uncertain)
    <3>1. writer' = [writer EXCEPT ![w] = Memory("cleanup", 1, writer[w].reserved,
                  writer[w].owns_bytes, writer[w].uncertain)]
      BY <1>1, <1>2, FileUpdate, CallTypes DEF WriterStages, Fail
    <3> QED  BY <1>1, <3>1, MemoryMoves, CallTypes DEF WriterStages
  <2>2. UNCHANGED <<reservation, expired, lock, artifacts, final, cleaner>>
    BY <1>1, <1>2 DEF write_fails, rowVars, fileVars, Fail
  <2>3. pending' = pending \ {CurrentKey(w)}
    BY <1>1, <1>2 DEF write_fails, Fail
  <2>4. TypeOK'
    BY <1>1, <2>1, <2>2, <2>3 DEF TypeOK, Moved
  <2>5. ASSUME NEW k \in Key, k[1] # w
        PROVE  Untouched(k)
    BY <1>1, <2>1, <2>2, <2>3, <2>5, KeyParts, CurrentKeyIsKey
    DEF Untouched, Moved, TypeOK
  <2>6. ASSUME NEW k \in Key, k[1] = w
        PROVE  Keeps(k)
    <3>1. k \in pending' <=> ~Here(k) /\ k \in pending
      BY <1>1, <2>3, <2>6, CurrentKeyIsKey DEF TypeOK
    <3>2. KeyInvariant(k) /\ k[2] \in 1..Files /\ (k = CurrentKey(w) <=> Here(k))
      BY <1>1, <2>6, KeyParts, CurrentKeyIsKey DEF IInv
    <3>3. RowFollowsCall(k)'
      BY <1>1, <1>2, <2>1, <2>2, <2>6, <3>1, <3>2
      DEF KeyInvariant, RowFollowsCall, CallKnowsBytes, RowKnowsBytes, Moved, Of, Here,
          Building, Handling, HasBytes, NoReservation, TypeOK
    <3>4. CallKnowsBytes(k)' /\ RowKnowsBytes(k)'
      BY <1>1, <1>2, <2>1, <2>2, <2>6, <3>1, <3>2
      DEF KeyInvariant, RowFollowsCall, CallKnowsBytes, RowKnowsBytes, Moved, Of, Here,
          Building, Handling, HasBytes, NoReservation, TypeOK
    <3>5. LockIsHeld(k)'
      BY <1>1, <1>2, <2>1, <2>2, <2>6, <3>1, <3>2, StorageAssumption
      DEF KeyInvariant, RowFollowsCall, CallKnowsBytes, RowKnowsBytes, Moved, Of, Here,
          Building, Handling, HasBytes, NoReservation, TypeOK, LockIsHeld
    <3>6. BytesStay(k) => BytesStay(k)'
      BY <1>1, <1>2, <2>1, <2>2, <2>6, <3>1, <3>2
      DEF KeyInvariant, RowFollowsCall, CallKnowsBytes, RowKnowsBytes, Moved, Of, Here,
          Building, Handling, HasBytes, NoReservation, TypeOK, BytesStay
    <3> QED  BY <3>3, <3>4, <3>5, <3>6 DEF Keeps, KeyInvariant
  <2> QED  BY <2>4, <2>5, <2>6, CallStep
<1>3. CASE UNCHANGED pending /\ Goto(w, "uncertain")
  <2>1. Moved(w, "uncertain", writer[w].file, writer[w].reserved,
                  writer[w].owns_bytes, writer[w].uncertain)
    <3>1. writer' = [writer EXCEPT ![w] = Memory("uncertain", writer[w].file, writer[w].reserved,
                  writer[w].owns_bytes, writer[w].uncertain)]
      BY <1>1, <1>3, StageUpdate, CallTypes DEF WriterStages, Goto
    <3> QED  BY <1>1, <3>1, MemoryMoves, CallTypes DEF WriterStages
  <2>2. UNCHANGED <<reservation, expired, lock, artifacts, pending, final, cleaner>>
    BY <1>1, <1>3 DEF write_fails, rowVars, fileVars, Goto
  <2>4. TypeOK'
    BY <1>1, <2>1, <2>2 DEF TypeOK, Moved
  <2>5. ASSUME NEW k \in Key, k[1] # w
        PROVE  Untouched(k)
    BY <1>1, <2>1, <2>2, <2>5, KeyParts, CurrentKeyIsKey
    DEF Untouched, Moved, TypeOK
  <2>6. ASSUME NEW k \in Key, k[1] = w
        PROVE  Keeps(k)
    <3>2. KeyInvariant(k) /\ k[2] \in 1..Files /\ (k = CurrentKey(w) <=> Here(k))
      BY <1>1, <2>6, KeyParts, CurrentKeyIsKey DEF IInv
    <3>3. RowFollowsCall(k)'
      BY <1>1, <1>3, <2>1, <2>2, <2>6, <3>2
      DEF KeyInvariant, RowFollowsCall, CallKnowsBytes, RowKnowsBytes, Moved, Of, Here,
          Building, Handling, HasBytes, NoReservation, TypeOK
    <3>4. CallKnowsBytes(k)' /\ RowKnowsBytes(k)'
      BY <1>1, <1>3, <2>1, <2>2, <2>6, <3>2
      DEF KeyInvariant, RowFollowsCall, CallKnowsBytes, RowKnowsBytes, Moved, Of, Here,
          Building, Handling, HasBytes, NoReservation, TypeOK
    <3>5. LockIsHeld(k)'
      BY <1>1, <1>3, <2>1, <2>2, <2>6, <3>2, StorageAssumption
      DEF KeyInvariant, RowFollowsCall, CallKnowsBytes, RowKnowsBytes, Moved, Of, Here,
          Building, Handling, HasBytes, NoReservation, TypeOK, LockIsHeld
    <3>6. BytesStay(k) => BytesStay(k)'
      BY <1>1, <1>3, <2>1, <2>2, <2>6, <3>2
      DEF KeyInvariant, RowFollowsCall, CallKnowsBytes, RowKnowsBytes, Moved, Of, Here,
          Building, Handling, HasBytes, NoReservation, TypeOK, BytesStay
    <3> QED  BY <3>3, <3>4, <3>5, <3>6 DEF Keeps, KeyInvariant
  <2> QED  BY <2>4, <2>5, <2>6, CallStep
<1> QED  BY <1>1, <1>2, <1>3 DEF write_fails, DropPending

\* os.link made the final name, or found it taken.
LEMMA WriteInstallsKeeps ==
    ASSUME IInv, NEW w \in Writer, write_installs(w)
    PROVE  TypeOK' /\ \A k \in Key : Keeps(k)
<1>1. /\ TypeOK /\ CurrentKey(w) \in Key /\ writer[w].file \in 1..Files
      /\ writer[w].pc = "install"
  BY CurrentKeyIsKey DEF IInv, write_installs, TypeOK
<1>2. CASE /\ final[CurrentKey(w)] = "none"
           /\ final' = [final EXCEPT ![CurrentKey(w)] = "own"]
           /\ Goto(w, "settle")
           /\ UNCHANGED pending
  <2>1. Moved(w, "settle", writer[w].file, writer[w].reserved,
                  writer[w].owns_bytes, writer[w].uncertain)
    <3>1. writer' = [writer EXCEPT ![w] = Memory("settle", writer[w].file, writer[w].reserved,
                  writer[w].owns_bytes, writer[w].uncertain)]
      BY <1>1, <1>2, StageUpdate, CallTypes DEF WriterStages, Goto
    <3> QED  BY <1>1, <3>1, MemoryMoves, CallTypes DEF WriterStages
  <2>2. UNCHANGED <<reservation, expired, lock, artifacts, pending, cleaner>>
    BY <1>1, <1>2 DEF write_installs, rowVars, fileVars, Goto
  <2>3. final' = [final EXCEPT ![CurrentKey(w)] = "own"]
    BY <1>1, <1>2 DEF write_installs, Goto
  <2>4. TypeOK'
    BY <1>1, <2>1, <2>2, <2>3 DEF TypeOK, Moved
  <2>5. ASSUME NEW k \in Key, k[1] # w
        PROVE  Untouched(k)
    BY <1>1, <2>1, <2>2, <2>3, <2>5, KeyParts, CurrentKeyIsKey
    DEF Untouched, Moved, TypeOK
  <2>6. ASSUME NEW k \in Key, k[1] = w
        PROVE  Keeps(k)
    <3>1. final'[k] = IF Here(k) THEN "own" ELSE final[k]
      BY <1>1, <2>3, <2>6, CurrentKeyIsKey DEF TypeOK
    <3>2. KeyInvariant(k) /\ k[2] \in 1..Files /\ (k = CurrentKey(w) <=> Here(k))
      BY <1>1, <2>6, KeyParts, CurrentKeyIsKey DEF IInv
    <3>3. RowFollowsCall(k)'
      BY <1>1, <1>2, <2>1, <2>2, <2>6, <3>1, <3>2
      DEF KeyInvariant, RowFollowsCall, CallKnowsBytes, RowKnowsBytes, Moved, Of, Here,
          Building, Handling, HasBytes, NoReservation, TypeOK
    <3>4. CallKnowsBytes(k)' /\ RowKnowsBytes(k)'
      <4>1. CallKnowsBytes(k)'
        BY <1>1, <1>2, <2>1, <2>2, <2>6, <3>1, <3>2
        DEF KeyInvariant, RowFollowsCall, CallKnowsBytes, RowKnowsBytes, Moved, Of, Here,
          Building, Handling, HasBytes, NoReservation, TypeOK
      <4>2. RowKnowsBytes(k)'
        BY <1>1, <1>2, <2>1, <2>2, <2>6, <3>1, <3>2
        DEF KeyInvariant, RowFollowsCall, CallKnowsBytes, RowKnowsBytes, Moved, Of, Here,
          Building, Handling, HasBytes, NoReservation, TypeOK
      <4> QED  BY <4>1, <4>2
    <3>5. LockIsHeld(k)'
      BY <1>1, <1>2, <2>1, <2>2, <2>6, <3>1, <3>2, StorageAssumption
      DEF KeyInvariant, RowFollowsCall, CallKnowsBytes, RowKnowsBytes, Moved, Of, Here,
          Building, Handling, HasBytes, NoReservation, TypeOK, LockIsHeld
    <3>6. BytesStay(k) => BytesStay(k)'
      BY <1>1, <1>2, <2>1, <2>2, <2>6, <3>1, <3>2
      DEF KeyInvariant, RowFollowsCall, CallKnowsBytes, RowKnowsBytes, Moved, Of, Here,
          Building, Handling, HasBytes, NoReservation, TypeOK, BytesStay
    <3> QED  BY <3>3, <3>4, <3>5, <3>6 DEF Keeps, KeyInvariant
  <2> QED  BY <2>4, <2>5, <2>6, CallStep
<1>3. CASE /\ final[CurrentKey(w)] # "none" /\ UNCHANGED final
           /\ pending' = pending \ {CurrentKey(w)} /\ Goto(w, "collided")
  <2>1. Moved(w, "collided", writer[w].file, writer[w].reserved,
                  writer[w].owns_bytes, writer[w].uncertain)
    <3>1. writer' = [writer EXCEPT ![w] = Memory("collided", writer[w].file, writer[w].reserved,
                  writer[w].owns_bytes, writer[w].uncertain)]
      BY <1>1, <1>3, StageUpdate, CallTypes DEF WriterStages, Goto
    <3> QED  BY <1>1, <3>1, MemoryMoves, CallTypes DEF WriterStages
  <2>2. UNCHANGED <<reservation, expired, lock, artifacts, final, cleaner>>
    BY <1>1, <1>3 DEF write_installs, rowVars, fileVars, Goto
  <2>3. pending' = pending \ {CurrentKey(w)}
    BY <1>1, <1>3 DEF write_installs, Goto
  <2>4. TypeOK'
    BY <1>1, <2>1, <2>2, <2>3 DEF TypeOK, Moved
  <2>5. ASSUME NEW k \in Key, k[1] # w
        PROVE  Untouched(k)
    BY <1>1, <2>1, <2>2, <2>3, <2>5, KeyParts, CurrentKeyIsKey
    DEF Untouched, Moved, TypeOK
  <2>6. ASSUME NEW k \in Key, k[1] = w
        PROVE  Keeps(k)
    <3>1. k \in pending' <=> ~Here(k) /\ k \in pending
      BY <1>1, <2>3, <2>6, CurrentKeyIsKey DEF TypeOK
    <3>2. KeyInvariant(k) /\ k[2] \in 1..Files /\ (k = CurrentKey(w) <=> Here(k))
      BY <1>1, <2>6, KeyParts, CurrentKeyIsKey DEF IInv
    <3>3. RowFollowsCall(k)'
      BY <1>1, <1>3, <2>1, <2>2, <2>6, <3>1, <3>2
      DEF KeyInvariant, RowFollowsCall, CallKnowsBytes, RowKnowsBytes, Moved, Of, Here,
          Building, Handling, HasBytes, NoReservation, TypeOK
    <3>4. CallKnowsBytes(k)' /\ RowKnowsBytes(k)'
      BY <1>1, <1>3, <2>1, <2>2, <2>6, <3>1, <3>2
      DEF KeyInvariant, RowFollowsCall, CallKnowsBytes, RowKnowsBytes, Moved, Of, Here,
          Building, Handling, HasBytes, NoReservation, TypeOK
    <3>5. LockIsHeld(k)'
      BY <1>1, <1>3, <2>1, <2>2, <2>6, <3>1, <3>2, StorageAssumption
      DEF KeyInvariant, RowFollowsCall, CallKnowsBytes, RowKnowsBytes, Moved, Of, Here,
          Building, Handling, HasBytes, NoReservation, TypeOK, LockIsHeld
    <3>6. BytesStay(k) => BytesStay(k)'
      BY <1>1, <1>3, <2>1, <2>2, <2>6, <3>1, <3>2
      DEF KeyInvariant, RowFollowsCall, CallKnowsBytes, RowKnowsBytes, Moved, Of, Here,
          Building, Handling, HasBytes, NoReservation, TypeOK, BytesStay
    <3> QED  BY <3>3, <3>4, <3>5, <3>6 DEF Keeps, KeyInvariant
  <2> QED  BY <2>4, <2>5, <2>6, CallStep
<1>4. CASE /\ final[CurrentKey(w)] # "none" /\ UNCHANGED <<final, pending>>
           /\ Goto(w, "uncertain")
  <2>1. Moved(w, "uncertain", writer[w].file, writer[w].reserved,
                  writer[w].owns_bytes, writer[w].uncertain)
    <3>1. writer' = [writer EXCEPT ![w] = Memory("uncertain", writer[w].file, writer[w].reserved,
                  writer[w].owns_bytes, writer[w].uncertain)]
      BY <1>1, <1>4, StageUpdate, CallTypes DEF WriterStages, Goto
    <3> QED  BY <1>1, <3>1, MemoryMoves, CallTypes DEF WriterStages
  <2>2. UNCHANGED <<reservation, expired, lock, artifacts, pending, final, cleaner>>
    BY <1>1, <1>4 DEF write_installs, rowVars, fileVars, Goto
  <2>4. TypeOK'
    BY <1>1, <2>1, <2>2 DEF TypeOK, Moved
  <2>5. ASSUME NEW k \in Key, k[1] # w
        PROVE  Untouched(k)
    BY <1>1, <2>1, <2>2, <2>5, KeyParts, CurrentKeyIsKey
    DEF Untouched, Moved, TypeOK
  <2>6. ASSUME NEW k \in Key, k[1] = w
        PROVE  Keeps(k)
    <3>2. KeyInvariant(k) /\ k[2] \in 1..Files /\ (k = CurrentKey(w) <=> Here(k))
      BY <1>1, <2>6, KeyParts, CurrentKeyIsKey DEF IInv
    <3>3. RowFollowsCall(k)'
      BY <1>1, <1>4, <2>1, <2>2, <2>6, <3>2
      DEF KeyInvariant, RowFollowsCall, CallKnowsBytes, RowKnowsBytes, Moved, Of, Here,
          Building, Handling, HasBytes, NoReservation, TypeOK
    <3>4. CallKnowsBytes(k)' /\ RowKnowsBytes(k)'
      BY <1>1, <1>4, <2>1, <2>2, <2>6, <3>2
      DEF KeyInvariant, RowFollowsCall, CallKnowsBytes, RowKnowsBytes, Moved, Of, Here,
          Building, Handling, HasBytes, NoReservation, TypeOK
    <3>5. LockIsHeld(k)'
      BY <1>1, <1>4, <2>1, <2>2, <2>6, <3>2, StorageAssumption
      DEF KeyInvariant, RowFollowsCall, CallKnowsBytes, RowKnowsBytes, Moved, Of, Here,
          Building, Handling, HasBytes, NoReservation, TypeOK, LockIsHeld
    <3>6. BytesStay(k) => BytesStay(k)'
      BY <1>1, <1>4, <2>1, <2>2, <2>6, <3>2
      DEF KeyInvariant, RowFollowsCall, CallKnowsBytes, RowKnowsBytes, Moved, Of, Here,
          Building, Handling, HasBytes, NoReservation, TypeOK, BytesStay
    <3> QED  BY <3>3, <3>4, <3>5, <3>6 DEF Keeps, KeyInvariant
  <2> QED  BY <2>4, <2>5, <2>6, CallStep
<1> QED  BY <1>1, <1>2, <1>3, <1>4 DEF write_installs, DropPending

\* The write is over; the call owns the bytes.
LEMMA WriteSettlesKeeps ==
    ASSUME IInv, NEW w \in Writer, write_settles(w)
    PROVE  TypeOK' /\ \A k \in Key : Keeps(k)
<1>1. /\ TypeOK /\ CurrentKey(w) \in Key /\ writer[w].file \in 1..Files
      /\ writer[w].pc = "settle"
  BY CurrentKeyIsKey DEF IInv, write_settles, TypeOK
<1>2. CASE /\ pending' = pending \ {CurrentKey(w)}
           /\ writer' = [writer EXCEPT ![w].pc = "verify",
                                      ![w].owns_bytes = @ \cup {writer[w].file}]
  <2>1. Moved(w, "verify", writer[w].file, writer[w].reserved,
                  writer[w].owns_bytes \cup {writer[w].file}, writer[w].uncertain)
    <3>1. writer' = [writer EXCEPT ![w] = Memory("verify", writer[w].file, writer[w].reserved,
                  writer[w].owns_bytes \cup {writer[w].file}, writer[w].uncertain)]
      BY <1>1, <1>2, OwnedUpdate, CallTypes DEF WriterStages
    <3> QED  BY <1>1, <3>1, MemoryMoves, CallTypes DEF WriterStages
  <2>2. UNCHANGED <<reservation, expired, lock, artifacts, final, cleaner>>
    BY <1>1, <1>2 DEF write_settles, rowVars, fileVars
  <2>3. pending' = pending \ {CurrentKey(w)}
    BY <1>1, <1>2 DEF write_settles
  <2>4. TypeOK'
    BY <1>1, <2>1, <2>2, <2>3 DEF TypeOK, Moved
  <2>5. ASSUME NEW k \in Key, k[1] # w
        PROVE  Untouched(k)
    BY <1>1, <2>1, <2>2, <2>3, <2>5, KeyParts, CurrentKeyIsKey
    DEF Untouched, Moved, TypeOK
  <2>6. ASSUME NEW k \in Key, k[1] = w
        PROVE  Keeps(k)
    <3>1. k \in pending' <=> ~Here(k) /\ k \in pending
      BY <1>1, <2>3, <2>6, CurrentKeyIsKey DEF TypeOK
    <3>2. KeyInvariant(k) /\ k[2] \in 1..Files /\ (k = CurrentKey(w) <=> Here(k))
      BY <1>1, <2>6, KeyParts, CurrentKeyIsKey DEF IInv
    <3>3. RowFollowsCall(k)'
      BY <1>1, <1>2, <2>1, <2>2, <2>6, <3>1, <3>2
      DEF KeyInvariant, RowFollowsCall, CallKnowsBytes, RowKnowsBytes, Moved, Of, Here,
          Building, Handling, HasBytes, NoReservation, TypeOK
    <3>4. CallKnowsBytes(k)' /\ RowKnowsBytes(k)'
      BY <1>1, <1>2, <2>1, <2>2, <2>6, <3>1, <3>2
      DEF KeyInvariant, RowFollowsCall, CallKnowsBytes, RowKnowsBytes, Moved, Of, Here,
          Building, Handling, HasBytes, NoReservation, TypeOK
    <3>5. LockIsHeld(k)'
      BY <1>1, <1>2, <2>1, <2>2, <2>6, <3>1, <3>2, StorageAssumption
      DEF KeyInvariant, RowFollowsCall, CallKnowsBytes, RowKnowsBytes, Moved, Of, Here,
          Building, Handling, HasBytes, NoReservation, TypeOK, LockIsHeld
    <3>6. BytesStay(k) => BytesStay(k)'
      BY <1>1, <1>2, <2>1, <2>2, <2>6, <3>1, <3>2
      DEF KeyInvariant, RowFollowsCall, CallKnowsBytes, RowKnowsBytes, Moved, Of, Here,
          Building, Handling, HasBytes, NoReservation, TypeOK, BytesStay
    <3> QED  BY <3>3, <3>4, <3>5, <3>6 DEF Keeps, KeyInvariant
  <2> QED  BY <2>4, <2>5, <2>6, CallStep
<1>3. CASE /\ pending' \in {pending, pending \ {CurrentKey(w)}}
           /\ writer' = [writer EXCEPT ![w].pc = "committed_write",
                                      ![w].owns_bytes = @ \cup {writer[w].file}]
  <2>1. Moved(w, "committed_write", writer[w].file, writer[w].reserved,
                  writer[w].owns_bytes \cup {writer[w].file}, writer[w].uncertain)
    <3>1. writer' = [writer EXCEPT ![w] = Memory("committed_write", writer[w].file, writer[w].reserved,
                  writer[w].owns_bytes \cup {writer[w].file}, writer[w].uncertain)]
      BY <1>1, <1>3, OwnedUpdate, CallTypes DEF WriterStages
    <3> QED  BY <1>1, <3>1, MemoryMoves, CallTypes DEF WriterStages
  <2>2. UNCHANGED <<reservation, expired, lock, artifacts, final, cleaner>>
    BY <1>1, <1>3 DEF write_settles, rowVars, fileVars
  <2>3. pending' \in {pending, pending \ {CurrentKey(w)}}
    BY <1>1, <1>3 DEF write_settles
  <2>4. TypeOK'
    BY <1>1, <2>1, <2>2, <2>3 DEF TypeOK, Moved
  <2>5. ASSUME NEW k \in Key, k[1] # w
        PROVE  Untouched(k)
    BY <1>1, <2>1, <2>2, <2>3, <2>5, KeyParts, CurrentKeyIsKey
    DEF Untouched, Moved, TypeOK
  <2>6. ASSUME NEW k \in Key, k[1] = w
        PROVE  Keeps(k)
    <3>1. (~Here(k) \/ k \notin pending => (k \in pending' <=> k \in pending))
      BY <1>1, <2>3, <2>6, CurrentKeyIsKey DEF TypeOK
    <3>2. KeyInvariant(k) /\ k[2] \in 1..Files /\ (k = CurrentKey(w) <=> Here(k))
      BY <1>1, <2>6, KeyParts, CurrentKeyIsKey DEF IInv
    <3>3. RowFollowsCall(k)'
      BY <1>1, <1>3, <2>1, <2>2, <2>6, <3>1, <3>2
      DEF KeyInvariant, RowFollowsCall, CallKnowsBytes, RowKnowsBytes, Moved, Of, Here,
          Building, Handling, HasBytes, NoReservation, TypeOK
    <3>4. CallKnowsBytes(k)' /\ RowKnowsBytes(k)'
      BY <1>1, <1>3, <2>1, <2>2, <2>6, <3>1, <3>2
      DEF KeyInvariant, RowFollowsCall, CallKnowsBytes, RowKnowsBytes, Moved, Of, Here,
          Building, Handling, HasBytes, NoReservation, TypeOK
    <3>5. LockIsHeld(k)'
      BY <1>1, <1>3, <2>1, <2>2, <2>6, <3>1, <3>2, StorageAssumption
      DEF KeyInvariant, RowFollowsCall, CallKnowsBytes, RowKnowsBytes, Moved, Of, Here,
          Building, Handling, HasBytes, NoReservation, TypeOK, LockIsHeld
    <3>6. BytesStay(k) => BytesStay(k)'
      BY <1>1, <1>3, <2>1, <2>2, <2>6, <3>1, <3>2
      DEF KeyInvariant, RowFollowsCall, CallKnowsBytes, RowKnowsBytes, Moved, Of, Here,
          Building, Handling, HasBytes, NoReservation, TypeOK, BytesStay
    <3> QED  BY <3>3, <3>4, <3>5, <3>6 DEF Keeps, KeyInvariant
  <2> QED  BY <2>4, <2>5, <2>6, CallStep
<1> QED  BY <1>1, <1>2, <1>3 DEF write_settles

\* The row is verified, and the next file or the commit follows; or the call failed.
LEMMA MarkVerifiedKeeps ==
    ASSUME IInv, NEW w \in Writer, mark_verified(w)
    PROVE  TypeOK' /\ \A k \in Key : Keeps(k)
<1>1. /\ TypeOK /\ CurrentKey(w) \in Key /\ writer[w].file \in 1..Files
      /\ writer[w].pc = "verify"
  BY CurrentKeyIsKey DEF IInv, mark_verified, TypeOK
<1>2. CASE /\ MayVerify(CurrentKey(w)) /\ Verified(CurrentKey(w))
           /\ writer[w].file < Files
           /\ writer' = [writer EXCEPT ![w].pc = "reserve", ![w].file = @ + 1]
  <2>1. Moved(w, "reserve", writer[w].file + 1, writer[w].reserved,
                  writer[w].owns_bytes, writer[w].uncertain)
    <3>1. writer' = [writer EXCEPT ![w] = Memory("reserve", writer[w].file + 1, writer[w].reserved,
                  writer[w].owns_bytes, writer[w].uncertain)]
      BY <1>1, <1>2, NextFileUpdate, CallTypes DEF WriterStages
    <3>2. writer[w].file + 1 \in 1..Files
      BY <1>1, <1>2, CallTypes
    <3> QED  BY <1>1, <3>1, <3>2, MemoryMoves, CallTypes DEF WriterStages
  <2>2. UNCHANGED <<expired, lock, artifacts, pending, final, cleaner>>
    BY <1>1, <1>2 DEF mark_verified, rowVars, fileVars, SetReservation, Verified
  <2>3. reservation' = [reservation EXCEPT ![CurrentKey(w)] = Row("owned", FALSE)]
    BY <1>1, <1>2 DEF mark_verified, SetReservation, Verified
  <2>4. TypeOK'
    BY <1>1, <2>1, <2>2, <2>3 DEF TypeOK, Moved, Row, NoReservation
  <2>5. ASSUME NEW k \in Key, k[1] # w
        PROVE  Untouched(k)
    BY <1>1, <2>1, <2>2, <2>3, <2>5, KeyParts, CurrentKeyIsKey
    DEF Untouched, Moved, TypeOK
  <2>6. ASSUME NEW k \in Key, k[1] = w
        PROVE  Keeps(k)
    <3>1. /\ reservation'[k] = IF Here(k) THEN Row("owned", FALSE) ELSE reservation[k]
          /\ reservation'[k].state = IF Here(k) THEN "owned" ELSE reservation[k].state
      BY <1>1, <2>3, <2>6, CurrentKeyIsKey DEF TypeOK, Row, NoReservation
    <3>2. KeyInvariant(k) /\ k[2] \in 1..Files /\ (k = CurrentKey(w) <=> Here(k))
      BY <1>1, <2>6, KeyParts, CurrentKeyIsKey DEF IInv
    <3>3. RowFollowsCall(k)'
      BY <1>1, <1>2, <2>1, <2>2, <2>6, <3>1, <3>2
      DEF KeyInvariant, RowFollowsCall, CallKnowsBytes, RowKnowsBytes, Moved, Of, Here,
          Building, Handling, HasBytes, NoReservation, TypeOK, Row,
          MayVerify, Unlocked
    <3>4. CallKnowsBytes(k)' /\ RowKnowsBytes(k)'
      BY <1>1, <1>2, <2>1, <2>2, <2>6, <3>1, <3>2
      DEF KeyInvariant, RowFollowsCall, CallKnowsBytes, RowKnowsBytes, Moved, Of, Here,
          Building, Handling, HasBytes, NoReservation, TypeOK, Row,
          MayVerify, Unlocked
    <3>5. LockIsHeld(k)'
      BY <1>1, <1>2, <2>1, <2>2, <2>6, <3>1, <3>2, StorageAssumption
      DEF KeyInvariant, RowFollowsCall, CallKnowsBytes, RowKnowsBytes, Moved, Of, Here,
          Building, Handling, HasBytes, NoReservation, TypeOK, Row,
          MayVerify, Unlocked, LockIsHeld
    <3>6. BytesStay(k) => BytesStay(k)'
      BY <1>1, <1>2, <2>1, <2>2, <2>6, <3>1, <3>2
      DEF KeyInvariant, RowFollowsCall, CallKnowsBytes, RowKnowsBytes, Moved, Of, Here,
          Building, Handling, HasBytes, NoReservation, TypeOK, Row,
          MayVerify, Unlocked, BytesStay
    <3> QED  BY <3>3, <3>4, <3>5, <3>6 DEF Keeps, KeyInvariant
  <2> QED  BY <2>4, <2>5, <2>6, CallStep
<1>3. CASE /\ MayVerify(CurrentKey(w)) /\ Verified(CurrentKey(w))
           /\ ~(writer[w].file < Files) /\ Goto(w, "commit")
  <2>1. Moved(w, "commit", writer[w].file, writer[w].reserved,
                  writer[w].owns_bytes, writer[w].uncertain)
    <3>1. writer' = [writer EXCEPT ![w] = Memory("commit", writer[w].file, writer[w].reserved,
                  writer[w].owns_bytes, writer[w].uncertain)]
      BY <1>1, <1>3, StageUpdate, CallTypes DEF WriterStages, Goto
    <3> QED  BY <1>1, <3>1, MemoryMoves, CallTypes DEF WriterStages
  <2>2. UNCHANGED <<expired, lock, artifacts, pending, final, cleaner>>
    BY <1>1, <1>3 DEF mark_verified, rowVars, fileVars, Goto, SetReservation, Verified
  <2>3. reservation' = [reservation EXCEPT ![CurrentKey(w)] = Row("owned", FALSE)]
    BY <1>1, <1>3 DEF mark_verified, SetReservation, Verified, Goto
  <2>4. TypeOK'
    BY <1>1, <2>1, <2>2, <2>3 DEF TypeOK, Moved, Row, NoReservation
  <2>5. ASSUME NEW k \in Key, k[1] # w
        PROVE  Untouched(k)
    BY <1>1, <2>1, <2>2, <2>3, <2>5, KeyParts, CurrentKeyIsKey
    DEF Untouched, Moved, TypeOK
  <2>6. ASSUME NEW k \in Key, k[1] = w
        PROVE  Keeps(k)
    <3>1. /\ reservation'[k] = IF Here(k) THEN Row("owned", FALSE) ELSE reservation[k]
          /\ reservation'[k].state = IF Here(k) THEN "owned" ELSE reservation[k].state
      BY <1>1, <2>3, <2>6, CurrentKeyIsKey DEF TypeOK, Row, NoReservation
    <3>2. KeyInvariant(k) /\ k[2] \in 1..Files /\ (k = CurrentKey(w) <=> Here(k))
      BY <1>1, <2>6, KeyParts, CurrentKeyIsKey DEF IInv
    <3>3. RowFollowsCall(k)'
      BY <1>1, <1>3, <2>1, <2>2, <2>6, <3>1, <3>2
      DEF KeyInvariant, RowFollowsCall, CallKnowsBytes, RowKnowsBytes, Moved, Of, Here,
          Building, Handling, HasBytes, NoReservation, TypeOK, Row,
          MayVerify, Unlocked
    <3>4. CallKnowsBytes(k)' /\ RowKnowsBytes(k)'
      BY <1>1, <1>3, <2>1, <2>2, <2>6, <3>1, <3>2
      DEF KeyInvariant, RowFollowsCall, CallKnowsBytes, RowKnowsBytes, Moved, Of, Here,
          Building, Handling, HasBytes, NoReservation, TypeOK, Row,
          MayVerify, Unlocked
    <3>5. LockIsHeld(k)'
      BY <1>1, <1>3, <2>1, <2>2, <2>6, <3>1, <3>2, StorageAssumption
      DEF KeyInvariant, RowFollowsCall, CallKnowsBytes, RowKnowsBytes, Moved, Of, Here,
          Building, Handling, HasBytes, NoReservation, TypeOK, Row,
          MayVerify, Unlocked, LockIsHeld
    <3>6. BytesStay(k) => BytesStay(k)'
      BY <1>1, <1>3, <2>1, <2>2, <2>6, <3>1, <3>2
      DEF KeyInvariant, RowFollowsCall, CallKnowsBytes, RowKnowsBytes, Moved, Of, Here,
          Building, Handling, HasBytes, NoReservation, TypeOK, Row,
          MayVerify, Unlocked, BytesStay
    <3> QED  BY <3>3, <3>4, <3>5, <3>6 DEF Keeps, KeyInvariant
  <2> QED  BY <2>4, <2>5, <2>6, CallStep
<1>4. CASE Fail(w) /\ UNCHANGED reservation
  BY <1>1, <1>4, FailKeeps DEF mark_verified, rowVars, fileVars
<1> QED  BY <1>1, <1>2, <1>3, <1>4 DEF mark_verified

\* A failed write was recorded in its row, or not; the call gives up.
LEMMA RecordFailedWriteKeeps ==
    ASSUME IInv, NEW w \in Writer, record_failed_write(w)
    PROVE  TypeOK' /\ \A k \in Key : Keeps(k)
<1>1. /\ TypeOK /\ CurrentKey(w) \in Key /\ writer[w].file \in 1..Files
      /\ writer[w].pc \in {"committed_write", "collided", "uncertain"}
  BY CurrentKeyIsKey DEF IInv, record_failed_write, TypeOK
<1>2. CASE /\ writer[w].pc = "committed_write"
           /\ MayVerify(CurrentKey(w)) /\ Verified(CurrentKey(w)) /\ Fail(w)
  <2>1. Moved(w, "cleanup", 1, writer[w].reserved,
                  writer[w].owns_bytes, writer[w].uncertain)
    <3>1. writer' = [writer EXCEPT ![w] = Memory("cleanup", 1, writer[w].reserved,
                  writer[w].owns_bytes, writer[w].uncertain)]
      BY <1>1, <1>2, FileUpdate, CallTypes DEF WriterStages, Fail
    <3> QED  BY <1>1, <3>1, MemoryMoves, CallTypes DEF WriterStages
  <2>2. UNCHANGED <<expired, lock, artifacts, pending, final, cleaner>>
    BY <1>1, <1>2 DEF record_failed_write, rowVars, fileVars, Fail, SetReservation, Verified
  <2>3. reservation' = [reservation EXCEPT ![CurrentKey(w)] = Row("owned", FALSE)]
    BY <1>1, <1>2 DEF record_failed_write, SetReservation, Verified, Fail
  <2>4. TypeOK'
    BY <1>1, <2>1, <2>2, <2>3 DEF TypeOK, Moved, Row, NoReservation
  <2>5. ASSUME NEW k \in Key, k[1] # w
        PROVE  Untouched(k)
    BY <1>1, <2>1, <2>2, <2>3, <2>5, KeyParts, CurrentKeyIsKey
    DEF Untouched, Moved, TypeOK
  <2>6. ASSUME NEW k \in Key, k[1] = w
        PROVE  Keeps(k)
    <3>1. /\ reservation'[k] = IF Here(k) THEN Row("owned", FALSE) ELSE reservation[k]
          /\ reservation'[k].state = IF Here(k) THEN "owned" ELSE reservation[k].state
      BY <1>1, <2>3, <2>6, CurrentKeyIsKey DEF TypeOK, Row, NoReservation
    <3>2. KeyInvariant(k) /\ k[2] \in 1..Files /\ (k = CurrentKey(w) <=> Here(k))
      BY <1>1, <2>6, KeyParts, CurrentKeyIsKey DEF IInv
    <3>3. RowFollowsCall(k)'
      BY <1>1, <1>2, <2>1, <2>2, <2>6, <3>1, <3>2
      DEF KeyInvariant, RowFollowsCall, CallKnowsBytes, RowKnowsBytes, Moved, Of, Here,
          Building, Handling, HasBytes, NoReservation, TypeOK, Row,
          MayVerify, Unlocked
    <3>4. CallKnowsBytes(k)' /\ RowKnowsBytes(k)'
      BY <1>1, <1>2, <2>1, <2>2, <2>6, <3>1, <3>2
      DEF KeyInvariant, RowFollowsCall, CallKnowsBytes, RowKnowsBytes, Moved, Of, Here,
          Building, Handling, HasBytes, NoReservation, TypeOK, Row,
          MayVerify, Unlocked
    <3>5. LockIsHeld(k)'
      BY <1>1, <1>2, <2>1, <2>2, <2>6, <3>1, <3>2, StorageAssumption
      DEF KeyInvariant, RowFollowsCall, CallKnowsBytes, RowKnowsBytes, Moved, Of, Here,
          Building, Handling, HasBytes, NoReservation, TypeOK, Row,
          MayVerify, Unlocked, LockIsHeld
    <3>6. BytesStay(k) => BytesStay(k)'
      BY <1>1, <1>2, <2>1, <2>2, <2>6, <3>1, <3>2
      DEF KeyInvariant, RowFollowsCall, CallKnowsBytes, RowKnowsBytes, Moved, Of, Here,
          Building, Handling, HasBytes, NoReservation, TypeOK, Row,
          MayVerify, Unlocked, BytesStay
    <3> QED  BY <3>3, <3>4, <3>5, <3>6 DEF Keeps, KeyInvariant
  <2> QED  BY <2>4, <2>5, <2>6, CallStep
<1>3. CASE /\ writer[w].pc = "committed_write"
           /\ UNCHANGED reservation /\ Fail(w)
  BY <1>1, <1>3, FailKeeps DEF record_failed_write, rowVars, fileVars
<1>4. CASE /\ writer[w].pc = "collided" /\ Unlocked(CurrentKey(w))
           /\ reservation[CurrentKey(w)].state = "reserved"
           /\ reservation' = [reservation EXCEPT ![CurrentKey(w)].state = "collision"]
           /\ Fail(w)
  <2>1. Moved(w, "cleanup", 1, writer[w].reserved,
                  writer[w].owns_bytes, writer[w].uncertain)
    <3>1. writer' = [writer EXCEPT ![w] = Memory("cleanup", 1, writer[w].reserved,
                  writer[w].owns_bytes, writer[w].uncertain)]
      BY <1>1, <1>4, FileUpdate, CallTypes DEF WriterStages, Fail
    <3> QED  BY <1>1, <3>1, MemoryMoves, CallTypes DEF WriterStages
  <2>2. UNCHANGED <<expired, lock, artifacts, pending, final, cleaner>>
    BY <1>1, <1>4 DEF record_failed_write, rowVars, fileVars, Fail, SetReservation
  <2>3. reservation' = [reservation EXCEPT ![CurrentKey(w)] = 
                                        Row("collision", reservation[CurrentKey(w)].cleanup_required)]
    BY <1>1, <1>4, RowUpdate DEF record_failed_write, SetReservation, Fail
  <2>4. TypeOK'
    BY <1>1, <2>1, <2>2, <2>3 DEF TypeOK, Moved, Row, NoReservation
  <2>5. ASSUME NEW k \in Key, k[1] # w
        PROVE  Untouched(k)
    BY <1>1, <2>1, <2>2, <2>3, <2>5, KeyParts, CurrentKeyIsKey
    DEF Untouched, Moved, TypeOK
  <2>6. ASSUME NEW k \in Key, k[1] = w
        PROVE  Keeps(k)
    <3>1. /\ reservation'[k] = IF Here(k) THEN Row("collision", reservation[CurrentKey(w)].cleanup_required)
                                        ELSE reservation[k]
          /\ reservation'[k].state = IF Here(k) THEN "collision" ELSE reservation[k].state
      BY <1>1, <2>3, <2>6, CurrentKeyIsKey DEF TypeOK, Row, NoReservation
    <3>2. KeyInvariant(k) /\ k[2] \in 1..Files /\ (k = CurrentKey(w) <=> Here(k))
      BY <1>1, <2>6, KeyParts, CurrentKeyIsKey DEF IInv
    <3>3. RowFollowsCall(k)'
      BY <1>1, <1>4, <2>1, <2>2, <2>6, <3>1, <3>2
      DEF KeyInvariant, RowFollowsCall, CallKnowsBytes, RowKnowsBytes, Moved, Of, Here,
          Building, Handling, HasBytes, NoReservation, TypeOK, Row,
          Unlocked
    <3>4. CallKnowsBytes(k)' /\ RowKnowsBytes(k)'
      BY <1>1, <1>4, <2>1, <2>2, <2>6, <3>1, <3>2
      DEF KeyInvariant, RowFollowsCall, CallKnowsBytes, RowKnowsBytes, Moved, Of, Here,
          Building, Handling, HasBytes, NoReservation, TypeOK, Row,
          Unlocked
    <3>5. LockIsHeld(k)'
      BY <1>1, <1>4, <2>1, <2>2, <2>6, <3>1, <3>2, StorageAssumption
      DEF KeyInvariant, RowFollowsCall, CallKnowsBytes, RowKnowsBytes, Moved, Of, Here,
          Building, Handling, HasBytes, NoReservation, TypeOK, Row,
          Unlocked, LockIsHeld
    <3>6. BytesStay(k) => BytesStay(k)'
      BY <1>1, <1>4, <2>1, <2>2, <2>6, <3>1, <3>2
      DEF KeyInvariant, RowFollowsCall, CallKnowsBytes, RowKnowsBytes, Moved, Of, Here,
          Building, Handling, HasBytes, NoReservation, TypeOK, Row,
          Unlocked, BytesStay
    <3> QED  BY <3>3, <3>4, <3>5, <3>6 DEF Keeps, KeyInvariant
  <2> QED  BY <2>4, <2>5, <2>6, CallStep
<1>5. CASE /\ writer[w].pc = "collided"
           /\ UNCHANGED reservation /\ Fail(w)
  BY <1>1, <1>5, FailKeeps DEF record_failed_write, rowVars, fileVars
<1>6. CASE /\ writer[w].pc = "uncertain" /\ Unlocked(CurrentKey(w))
           /\ reservation[CurrentKey(w)] # NoReservation
           /\ reservation' = [reservation EXCEPT ![CurrentKey(w)].cleanup_required = TRUE]
           /\ writer' = [writer EXCEPT ![w].pc = "cleanup", ![w].file = 1,
                                      ![w].uncertain = @ \cup {writer[w].file}]
  <2>1. Moved(w, "cleanup", 1, writer[w].reserved,
                  writer[w].owns_bytes, writer[w].uncertain \cup {writer[w].file})
    <3>1. writer' = [writer EXCEPT ![w] = Memory("cleanup", 1, writer[w].reserved,
                  writer[w].owns_bytes, writer[w].uncertain \cup {writer[w].file})]
      BY <1>1, <1>6, UncertainUpdate
    <3> QED  BY <1>1, <3>1, MemoryMoves, CallTypes DEF WriterStages
  <2>2. UNCHANGED <<expired, lock, artifacts, pending, final, cleaner>>
    BY <1>1, <1>6 DEF record_failed_write, rowVars, fileVars, SetReservation
  <2>3. reservation' = [reservation EXCEPT ![CurrentKey(w)] = 
                                        Row(reservation[CurrentKey(w)].state, TRUE)]
    BY <1>1, <1>6, RowUpdate DEF record_failed_write, SetReservation
  <2>4. TypeOK'
    BY <1>1, <2>1, <2>2, <2>3 DEF TypeOK, Moved, Row, NoReservation
  <2>5. ASSUME NEW k \in Key, k[1] # w
        PROVE  Untouched(k)
    BY <1>1, <2>1, <2>2, <2>3, <2>5, KeyParts, CurrentKeyIsKey
    DEF Untouched, Moved, TypeOK
  <2>6. ASSUME NEW k \in Key, k[1] = w
        PROVE  Keeps(k)
    <3>1. /\ reservation'[k] = IF Here(k) THEN Row(reservation[CurrentKey(w)].state, TRUE)
                                        ELSE reservation[k]
          /\ reservation'[k].state = IF Here(k) THEN reservation[k].state ELSE reservation[k].state
      BY <1>1, <2>3, <2>6, CurrentKeyIsKey DEF TypeOK, Row, NoReservation
    <3>2. KeyInvariant(k) /\ k[2] \in 1..Files /\ (k = CurrentKey(w) <=> Here(k))
      BY <1>1, <2>6, KeyParts, CurrentKeyIsKey DEF IInv
    <3>3. RowFollowsCall(k)'
      BY <1>1, <1>6, <2>1, <2>2, <2>6, <3>1, <3>2
      DEF KeyInvariant, RowFollowsCall, CallKnowsBytes, RowKnowsBytes, Moved, Of, Here,
          Building, Handling, HasBytes, NoReservation, TypeOK, Row,
          Unlocked
    <3>4. CallKnowsBytes(k)' /\ RowKnowsBytes(k)'
      BY <1>1, <1>6, <2>1, <2>2, <2>6, <3>1, <3>2
      DEF KeyInvariant, RowFollowsCall, CallKnowsBytes, RowKnowsBytes, Moved, Of, Here,
          Building, Handling, HasBytes, NoReservation, TypeOK, Row,
          Unlocked
    <3>5. LockIsHeld(k)'
      BY <1>1, <1>6, <2>1, <2>2, <2>6, <3>1, <3>2, StorageAssumption
      DEF KeyInvariant, RowFollowsCall, CallKnowsBytes, RowKnowsBytes, Moved, Of, Here,
          Building, Handling, HasBytes, NoReservation, TypeOK, Row,
          Unlocked, LockIsHeld
    <3>6. BytesStay(k) => BytesStay(k)'
      BY <1>1, <1>6, <2>1, <2>2, <2>6, <3>1, <3>2
      DEF KeyInvariant, RowFollowsCall, CallKnowsBytes, RowKnowsBytes, Moved, Of, Here,
          Building, Handling, HasBytes, NoReservation, TypeOK, Row,
          Unlocked, BytesStay
    <3> QED  BY <3>3, <3>4, <3>5, <3>6 DEF Keeps, KeyInvariant
  <2> QED  BY <2>4, <2>5, <2>6, CallStep
<1>7. CASE /\ writer[w].pc = "uncertain" /\ UNCHANGED reservation
           /\ writer' = [writer EXCEPT ![w].pc = "cleanup", ![w].file = 1,
                                      ![w].uncertain = @ \cup {writer[w].file}]
  <2>1. Moved(w, "cleanup", 1, writer[w].reserved,
                  writer[w].owns_bytes, writer[w].uncertain \cup {writer[w].file})
    <3>1. writer' = [writer EXCEPT ![w] = Memory("cleanup", 1, writer[w].reserved,
                  writer[w].owns_bytes, writer[w].uncertain \cup {writer[w].file})]
      BY <1>1, <1>7, UncertainUpdate
    <3> QED  BY <1>1, <3>1, MemoryMoves, CallTypes DEF WriterStages
  <2>2. UNCHANGED <<reservation, expired, lock, artifacts, pending, final, cleaner>>
    BY <1>1, <1>7 DEF record_failed_write, rowVars, fileVars
  <2>4. TypeOK'
    BY <1>1, <2>1, <2>2 DEF TypeOK, Moved
  <2>5. ASSUME NEW k \in Key, k[1] # w
        PROVE  Untouched(k)
    BY <1>1, <2>1, <2>2, <2>5, KeyParts, CurrentKeyIsKey
    DEF Untouched, Moved, TypeOK
  <2>6. ASSUME NEW k \in Key, k[1] = w
        PROVE  Keeps(k)
    <3>2. KeyInvariant(k) /\ k[2] \in 1..Files /\ (k = CurrentKey(w) <=> Here(k))
      BY <1>1, <2>6, KeyParts, CurrentKeyIsKey DEF IInv
    <3>3. RowFollowsCall(k)'
      BY <1>1, <1>7, <2>1, <2>2, <2>6, <3>2
      DEF KeyInvariant, RowFollowsCall, CallKnowsBytes, RowKnowsBytes, Moved, Of, Here,
          Building, Handling, HasBytes, NoReservation, TypeOK
    <3>4. CallKnowsBytes(k)' /\ RowKnowsBytes(k)'
      BY <1>1, <1>7, <2>1, <2>2, <2>6, <3>2
      DEF KeyInvariant, RowFollowsCall, CallKnowsBytes, RowKnowsBytes, Moved, Of, Here,
          Building, Handling, HasBytes, NoReservation, TypeOK
    <3>5. LockIsHeld(k)'
      BY <1>1, <1>7, <2>1, <2>2, <2>6, <3>2, StorageAssumption
      DEF KeyInvariant, RowFollowsCall, CallKnowsBytes, RowKnowsBytes, Moved, Of, Here,
          Building, Handling, HasBytes, NoReservation, TypeOK, LockIsHeld
    <3>6. BytesStay(k) => BytesStay(k)'
      BY <1>1, <1>7, <2>1, <2>2, <2>6, <3>2
      DEF KeyInvariant, RowFollowsCall, CallKnowsBytes, RowKnowsBytes, Moved, Of, Here,
          Building, Handling, HasBytes, NoReservation, TypeOK, BytesStay
    <3> QED  BY <3>3, <3>4, <3>5, <3>6 DEF Keeps, KeyInvariant
  <2> QED  BY <2>4, <2>5, <2>6, CallStep
<1> QED  BY <1>1, <1>2, <1>3, <1>4, <1>5, <1>6, <1>7 DEF record_failed_write

\* The commit failed.
LEMMA CommitRefusedKeeps ==
    ASSUME IInv, NEW w \in Writer, commit_refused(w)
    PROVE  TypeOK' /\ \A k \in Key : Keeps(k)
<1>1. /\ TypeOK /\ CurrentKey(w) \in Key /\ writer[w].file \in 1..Files
      /\ writer[w].pc = "commit"
  BY CurrentKeyIsKey DEF IInv, commit_refused, TypeOK
<1>2. CASE Fail(w)
  BY <1>1, <1>2, FailKeeps DEF commit_refused, rowVars, fileVars
<1> QED  BY <1>1, <1>2 DEF commit_refused

\* A candidate was settled without touching bytes, or skipped.
LEMMA CleanupUnownedKeeps ==
    ASSUME IInv, NEW w \in Writer, cleanup_unowned(w)
    PROVE  TypeOK' /\ \A k \in Key : Keeps(k)
<1>1. /\ TypeOK /\ CurrentKey(w) \in Key /\ writer[w].file \in 1..Files
      /\ writer[w].pc = "cleanup"
  BY CurrentKeyIsKey DEF IInv, cleanup_unowned, TypeOK
<1>2. CASE /\ Unlocked(CurrentKey(w)) /\ reservation[CurrentKey(w)] # NoReservation
           /\ ForgetsRow(w, CurrentKey(w), writer[w].file)
           /\ SetReservation(CurrentKey(w), NoReservation)
           /\ NextCandidate(w)
  <2>1. PICK pc \in {"cleanup", "done"}, file \in 1..Files :
          Moved(w, pc, file, writer[w].reserved, writer[w].owns_bytes, writer[w].uncertain)
    BY <1>1, <1>2, NextCandidateMoves
  <2>2. UNCHANGED <<expired, lock, artifacts, pending, final, cleaner>>
    BY <1>1, <1>2 DEF cleanup_unowned, rowVars, fileVars, SetReservation
  <2>3. reservation' = [reservation EXCEPT ![CurrentKey(w)] = NoReservation]
    BY <1>1, <1>2 DEF cleanup_unowned, SetReservation
  <2>4. TypeOK'
    BY <1>1, <2>1, <2>2, <2>3 DEF TypeOK, Moved, Row, NoReservation
  <2>5. ASSUME NEW k \in Key, k[1] # w
        PROVE  Untouched(k)
    BY <1>1, <2>1, <2>2, <2>3, <2>5, KeyParts, CurrentKeyIsKey
    DEF Untouched, Moved, TypeOK
  <2>6. ASSUME NEW k \in Key, k[1] = w
        PROVE  Keeps(k)
    <3>1. /\ reservation'[k] = IF Here(k) THEN NoReservation ELSE reservation[k]
          /\ reservation'[k].state = IF Here(k) THEN "absent" ELSE reservation[k].state
      BY <1>1, <2>3, <2>6, CurrentKeyIsKey DEF TypeOK, Row, NoReservation
    <3>2. KeyInvariant(k) /\ k[2] \in 1..Files /\ (k = CurrentKey(w) <=> Here(k))
      BY <1>1, <2>6, KeyParts, CurrentKeyIsKey DEF IInv
    <3>3. RowFollowsCall(k)'
      BY <1>1, <1>2, <2>1, <2>2, <2>6, <3>1, <3>2
      DEF KeyInvariant, RowFollowsCall, CallKnowsBytes, RowKnowsBytes, Moved, Of, Here,
          Building, Handling, HasBytes, NoReservation, TypeOK, Row,
          Unlocked, ForgetsRow
    <3>4. CallKnowsBytes(k)' /\ RowKnowsBytes(k)'
      BY <1>1, <1>2, <2>1, <2>2, <2>6, <3>1, <3>2
      DEF KeyInvariant, RowFollowsCall, CallKnowsBytes, RowKnowsBytes, Moved, Of, Here,
          Building, Handling, HasBytes, NoReservation, TypeOK, Row,
          Unlocked, ForgetsRow
    <3>5. LockIsHeld(k)'
      BY <1>1, <1>2, <2>1, <2>2, <2>6, <3>1, <3>2, StorageAssumption
      DEF KeyInvariant, RowFollowsCall, CallKnowsBytes, RowKnowsBytes, Moved, Of, Here,
          Building, Handling, HasBytes, NoReservation, TypeOK, Row,
          Unlocked, ForgetsRow, LockIsHeld
    <3>6. BytesStay(k) => BytesStay(k)'
      BY <1>1, <1>2, <2>1, <2>2, <2>6, <3>1, <3>2
      DEF KeyInvariant, RowFollowsCall, CallKnowsBytes, RowKnowsBytes, Moved, Of, Here,
          Building, Handling, HasBytes, NoReservation, TypeOK, Row,
          Unlocked, ForgetsRow, BytesStay
    <3> QED  BY <3>3, <3>4, <3>5, <3>6 DEF Keeps, KeyInvariant
  <2> QED  BY <2>4, <2>5, <2>6, CallStep
<1>3. CASE /\ Unlocked(CurrentKey(w)) /\ reservation[CurrentKey(w)] # NoReservation
           /\ SetReservation(CurrentKey(w),
                   [reservation[CurrentKey(w)] EXCEPT !.cleanup_required = TRUE])
           /\ NextCandidate(w)
  <2>1. PICK pc \in {"cleanup", "done"}, file \in 1..Files :
          Moved(w, pc, file, writer[w].reserved, writer[w].owns_bytes, writer[w].uncertain)
    BY <1>1, <1>3, NextCandidateMoves
  <2>2. UNCHANGED <<expired, lock, artifacts, pending, final, cleaner>>
    BY <1>1, <1>3 DEF cleanup_unowned, rowVars, fileVars, SetReservation
  <2>3. reservation' = [reservation EXCEPT ![CurrentKey(w)] = 
                                        Row(reservation[CurrentKey(w)].state, TRUE)]
    BY <1>1, <1>3, RowUpdate DEF cleanup_unowned, SetReservation
  <2>4. TypeOK'
    BY <1>1, <2>1, <2>2, <2>3 DEF TypeOK, Moved, Row, NoReservation
  <2>5. ASSUME NEW k \in Key, k[1] # w
        PROVE  Untouched(k)
    BY <1>1, <2>1, <2>2, <2>3, <2>5, KeyParts, CurrentKeyIsKey
    DEF Untouched, Moved, TypeOK
  <2>6. ASSUME NEW k \in Key, k[1] = w
        PROVE  Keeps(k)
    <3>1. /\ reservation'[k] = IF Here(k) THEN Row(reservation[CurrentKey(w)].state, TRUE)
                                        ELSE reservation[k]
          /\ reservation'[k].state = IF Here(k) THEN reservation[k].state ELSE reservation[k].state
      BY <1>1, <2>3, <2>6, CurrentKeyIsKey DEF TypeOK, Row, NoReservation
    <3>2. KeyInvariant(k) /\ k[2] \in 1..Files /\ (k = CurrentKey(w) <=> Here(k))
      BY <1>1, <2>6, KeyParts, CurrentKeyIsKey DEF IInv
    <3>3. RowFollowsCall(k)'
      BY <1>1, <1>3, <2>1, <2>2, <2>6, <3>1, <3>2
      DEF KeyInvariant, RowFollowsCall, CallKnowsBytes, RowKnowsBytes, Moved, Of, Here,
          Building, Handling, HasBytes, NoReservation, TypeOK, Row,
          Unlocked
    <3>4. CallKnowsBytes(k)' /\ RowKnowsBytes(k)'
      BY <1>1, <1>3, <2>1, <2>2, <2>6, <3>1, <3>2
      DEF KeyInvariant, RowFollowsCall, CallKnowsBytes, RowKnowsBytes, Moved, Of, Here,
          Building, Handling, HasBytes, NoReservation, TypeOK, Row,
          Unlocked
    <3>5. LockIsHeld(k)'
      BY <1>1, <1>3, <2>1, <2>2, <2>6, <3>1, <3>2, StorageAssumption
      DEF KeyInvariant, RowFollowsCall, CallKnowsBytes, RowKnowsBytes, Moved, Of, Here,
          Building, Handling, HasBytes, NoReservation, TypeOK, Row,
          Unlocked, LockIsHeld
    <3>6. BytesStay(k) => BytesStay(k)'
      BY <1>1, <1>3, <2>1, <2>2, <2>6, <3>1, <3>2
      DEF KeyInvariant, RowFollowsCall, CallKnowsBytes, RowKnowsBytes, Moved, Of, Here,
          Building, Handling, HasBytes, NoReservation, TypeOK, Row,
          Unlocked, BytesStay
    <3> QED  BY <3>3, <3>4, <3>5, <3>6 DEF Keeps, KeyInvariant
  <2> QED  BY <2>4, <2>5, <2>6, CallStep
<1>4. CASE UNCHANGED reservation /\ NextCandidate(w)
  <2>1. PICK pc \in {"cleanup", "done"}, file \in 1..Files :
          Moved(w, pc, file, writer[w].reserved, writer[w].owns_bytes, writer[w].uncertain)
    BY <1>1, <1>4, NextCandidateMoves
  <2>2. UNCHANGED <<reservation, expired, lock, artifacts, pending, final, cleaner>>
    BY <1>1, <1>4 DEF cleanup_unowned, rowVars, fileVars
  <2>4. TypeOK'
    BY <1>1, <2>1, <2>2 DEF TypeOK, Moved
  <2>5. ASSUME NEW k \in Key, k[1] # w
        PROVE  Untouched(k)
    BY <1>1, <2>1, <2>2, <2>5, KeyParts, CurrentKeyIsKey
    DEF Untouched, Moved, TypeOK
  <2>6. ASSUME NEW k \in Key, k[1] = w
        PROVE  Keeps(k)
    <3>2. KeyInvariant(k) /\ k[2] \in 1..Files /\ (k = CurrentKey(w) <=> Here(k))
      BY <1>1, <2>6, KeyParts, CurrentKeyIsKey DEF IInv
    <3>3. RowFollowsCall(k)'
      BY <1>1, <1>4, <2>1, <2>2, <2>6, <3>2
      DEF KeyInvariant, RowFollowsCall, CallKnowsBytes, RowKnowsBytes, Moved, Of, Here,
          Building, Handling, HasBytes, NoReservation, TypeOK
    <3>4. CallKnowsBytes(k)' /\ RowKnowsBytes(k)'
      BY <1>1, <1>4, <2>1, <2>2, <2>6, <3>2
      DEF KeyInvariant, RowFollowsCall, CallKnowsBytes, RowKnowsBytes, Moved, Of, Here,
          Building, Handling, HasBytes, NoReservation, TypeOK
    <3>5. LockIsHeld(k)'
      BY <1>1, <1>4, <2>1, <2>2, <2>6, <3>2, StorageAssumption
      DEF KeyInvariant, RowFollowsCall, CallKnowsBytes, RowKnowsBytes, Moved, Of, Here,
          Building, Handling, HasBytes, NoReservation, TypeOK, LockIsHeld
    <3>6. BytesStay(k) => BytesStay(k)'
      BY <1>1, <1>4, <2>1, <2>2, <2>6, <3>2
      DEF KeyInvariant, RowFollowsCall, CallKnowsBytes, RowKnowsBytes, Moved, Of, Here,
          Building, Handling, HasBytes, NoReservation, TypeOK, BytesStay
    <3> QED  BY <3>3, <3>4, <3>5, <3>6 DEF Keeps, KeyInvariant
  <2> QED  BY <2>4, <2>5, <2>6, CallStep
<1> QED  BY <1>1, <1>2, <1>3, <1>4 DEF cleanup_unowned

\* A candidate's bytes were deleted, or some of them, under its row lock.
LEMMA CleanupDeletesKeeps ==
    ASSUME IInv, NEW w \in Writer, cleanup_deletes(w)
    PROVE  TypeOK' /\ \A k \in Key : Keeps(k)
<1>1. /\ TypeOK /\ CurrentKey(w) \in Key /\ writer[w].file \in 1..Files
      /\ /\ writer[w].pc = "cleanup" /\ Unlocked(CurrentKey(w))
         /\ reservation[CurrentKey(w)] # NoReservation
         /\ DeletesBytes(w, CurrentKey(w), writer[w].file)
  BY CurrentKeyIsKey DEF IInv, cleanup_deletes, TypeOK, Acquire
<1>2. CASE /\ Goto(w, "deleted")
           /\ final' = [final EXCEPT ![CurrentKey(w)] = "none"]
           /\ pending' = pending \ {CurrentKey(w)}
  <2>1. Moved(w, "deleted", writer[w].file, writer[w].reserved,
                  writer[w].owns_bytes, writer[w].uncertain)
    <3>1. writer' = [writer EXCEPT ![w] = Memory("deleted", writer[w].file, writer[w].reserved,
                  writer[w].owns_bytes, writer[w].uncertain)]
      BY <1>1, <1>2, StageUpdate, CallTypes DEF WriterStages, Goto
    <3> QED  BY <1>1, <3>1, MemoryMoves, CallTypes DEF WriterStages
  <2>2. UNCHANGED <<reservation, expired, artifacts, cleaner>>
    BY <1>1, <1>2 DEF cleanup_deletes, rowVars, fileVars, Goto, Acquire
  <2>3. /\ final' = [final EXCEPT ![CurrentKey(w)] = "none"]
        /\ lock' = [lock EXCEPT ![CurrentKey(w)] = w]
        /\ pending' = pending \ {CurrentKey(w)}
    BY <1>1, <1>2 DEF cleanup_deletes, Acquire, Goto
  <2>4. TypeOK'
    BY <1>1, <2>1, <2>2, <2>3 DEF TypeOK, Moved
  <2>5. ASSUME NEW k \in Key, k[1] # w
        PROVE  Untouched(k)
    BY <1>1, <2>1, <2>2, <2>3, <2>5, KeyParts, CurrentKeyIsKey
    DEF Untouched, Moved, TypeOK
  <2>6. ASSUME NEW k \in Key, k[1] = w
        PROVE  Keeps(k)
    <3>1. /\ final'[k] = IF Here(k) THEN "none" ELSE final[k]
          /\ lock'[k] = IF Here(k) THEN w ELSE lock[k]
          /\ k \in pending' <=> ~Here(k) /\ k \in pending
      BY <1>1, <2>3, <2>6, CurrentKeyIsKey DEF TypeOK
    <3>2. KeyInvariant(k) /\ k[2] \in 1..Files /\ (k = CurrentKey(w) <=> Here(k))
      BY <1>1, <2>6, KeyParts, CurrentKeyIsKey DEF IInv
    <3>3. RowFollowsCall(k)'
      BY <1>1, <1>2, <2>1, <2>2, <2>6, <3>1, <3>2
      DEF KeyInvariant, RowFollowsCall, CallKnowsBytes, RowKnowsBytes, Moved, Of, Here,
          Building, Handling, HasBytes, NoReservation, TypeOK, Row,
          Acquire, Unlocked, DeletesBytes, ForgetsRow
    <3>4. CallKnowsBytes(k)' /\ RowKnowsBytes(k)'
      BY <1>1, <1>2, <2>1, <2>2, <2>6, <3>1, <3>2
      DEF KeyInvariant, RowFollowsCall, CallKnowsBytes, RowKnowsBytes, Moved, Of, Here,
          Building, Handling, HasBytes, NoReservation, TypeOK, Row,
          Acquire, Unlocked, DeletesBytes, ForgetsRow
    <3>5. LockIsHeld(k)'
      BY <1>1, <1>2, <2>1, <2>2, <2>6, <3>1, <3>2, StorageAssumption
      DEF KeyInvariant, RowFollowsCall, CallKnowsBytes, RowKnowsBytes, Moved, Of, Here,
          Building, Handling, HasBytes, NoReservation, TypeOK, Row,
          Acquire, Unlocked, DeletesBytes, ForgetsRow, LockIsHeld
    <3>6. BytesStay(k) => BytesStay(k)'
      BY <1>1, <1>2, <2>1, <2>2, <2>6, <3>1, <3>2
      DEF KeyInvariant, RowFollowsCall, CallKnowsBytes, RowKnowsBytes, Moved, Of, Here,
          Building, Handling, HasBytes, NoReservation, TypeOK, Row,
          Acquire, Unlocked, DeletesBytes, ForgetsRow, BytesStay
    <3> QED  BY <3>3, <3>4, <3>5, <3>6 DEF Keeps, KeyInvariant
  <2> QED  BY <2>4, <2>5, <2>6, CallStep
<1>3. CASE /\ Goto(w, "delete_failed")
           /\ final' = [final EXCEPT ![CurrentKey(w)] = "none"]
           /\ pending' = pending \ {CurrentKey(w)}
  <2>1. Moved(w, "delete_failed", writer[w].file, writer[w].reserved,
                  writer[w].owns_bytes, writer[w].uncertain)
    <3>1. writer' = [writer EXCEPT ![w] = Memory("delete_failed", writer[w].file, writer[w].reserved,
                  writer[w].owns_bytes, writer[w].uncertain)]
      BY <1>1, <1>3, StageUpdate, CallTypes DEF WriterStages, Goto
    <3> QED  BY <1>1, <3>1, MemoryMoves, CallTypes DEF WriterStages
  <2>2. UNCHANGED <<reservation, expired, artifacts, cleaner>>
    BY <1>1, <1>3 DEF cleanup_deletes, rowVars, fileVars, Goto, Acquire
  <2>3. /\ final' = [final EXCEPT ![CurrentKey(w)] = "none"]
        /\ lock' = [lock EXCEPT ![CurrentKey(w)] = w]
        /\ pending' = pending \ {CurrentKey(w)}
    BY <1>1, <1>3 DEF cleanup_deletes, Acquire, Goto
  <2>4. TypeOK'
    BY <1>1, <2>1, <2>2, <2>3 DEF TypeOK, Moved
  <2>5. ASSUME NEW k \in Key, k[1] # w
        PROVE  Untouched(k)
    BY <1>1, <2>1, <2>2, <2>3, <2>5, KeyParts, CurrentKeyIsKey
    DEF Untouched, Moved, TypeOK
  <2>6. ASSUME NEW k \in Key, k[1] = w
        PROVE  Keeps(k)
    <3>1. /\ final'[k] = IF Here(k) THEN "none" ELSE final[k]
          /\ lock'[k] = IF Here(k) THEN w ELSE lock[k]
          /\ k \in pending' <=> ~Here(k) /\ k \in pending
      BY <1>1, <2>3, <2>6, CurrentKeyIsKey DEF TypeOK
    <3>2. KeyInvariant(k) /\ k[2] \in 1..Files /\ (k = CurrentKey(w) <=> Here(k))
      BY <1>1, <2>6, KeyParts, CurrentKeyIsKey DEF IInv
    <3>3. RowFollowsCall(k)'
      BY <1>1, <1>3, <2>1, <2>2, <2>6, <3>1, <3>2
      DEF KeyInvariant, RowFollowsCall, CallKnowsBytes, RowKnowsBytes, Moved, Of, Here,
          Building, Handling, HasBytes, NoReservation, TypeOK, Row,
          Acquire, Unlocked, DeletesBytes, ForgetsRow
    <3>4. CallKnowsBytes(k)' /\ RowKnowsBytes(k)'
      BY <1>1, <1>3, <2>1, <2>2, <2>6, <3>1, <3>2
      DEF KeyInvariant, RowFollowsCall, CallKnowsBytes, RowKnowsBytes, Moved, Of, Here,
          Building, Handling, HasBytes, NoReservation, TypeOK, Row,
          Acquire, Unlocked, DeletesBytes, ForgetsRow
    <3>5. LockIsHeld(k)'
      BY <1>1, <1>3, <2>1, <2>2, <2>6, <3>1, <3>2, StorageAssumption
      DEF KeyInvariant, RowFollowsCall, CallKnowsBytes, RowKnowsBytes, Moved, Of, Here,
          Building, Handling, HasBytes, NoReservation, TypeOK, Row,
          Acquire, Unlocked, DeletesBytes, ForgetsRow, LockIsHeld
    <3>6. BytesStay(k) => BytesStay(k)'
      BY <1>1, <1>3, <2>1, <2>2, <2>6, <3>1, <3>2
      DEF KeyInvariant, RowFollowsCall, CallKnowsBytes, RowKnowsBytes, Moved, Of, Here,
          Building, Handling, HasBytes, NoReservation, TypeOK, Row,
          Acquire, Unlocked, DeletesBytes, ForgetsRow, BytesStay
    <3> QED  BY <3>3, <3>4, <3>5, <3>6 DEF Keeps, KeyInvariant
  <2> QED  BY <2>4, <2>5, <2>6, CallStep
<1>4. CASE /\ Goto(w, "delete_failed")
           /\ final' = [final EXCEPT ![CurrentKey(w)] = "none"]
           /\ UNCHANGED pending
  <2>1. Moved(w, "delete_failed", writer[w].file, writer[w].reserved,
                  writer[w].owns_bytes, writer[w].uncertain)
    <3>1. writer' = [writer EXCEPT ![w] = Memory("delete_failed", writer[w].file, writer[w].reserved,
                  writer[w].owns_bytes, writer[w].uncertain)]
      BY <1>1, <1>4, StageUpdate, CallTypes DEF WriterStages, Goto
    <3> QED  BY <1>1, <3>1, MemoryMoves, CallTypes DEF WriterStages
  <2>2. UNCHANGED <<reservation, expired, artifacts, pending, cleaner>>
    BY <1>1, <1>4 DEF cleanup_deletes, rowVars, fileVars, Goto, Acquire
  <2>3. /\ final' = [final EXCEPT ![CurrentKey(w)] = "none"]
        /\ lock' = [lock EXCEPT ![CurrentKey(w)] = w]
    BY <1>1, <1>4 DEF cleanup_deletes, Acquire, Goto
  <2>4. TypeOK'
    BY <1>1, <2>1, <2>2, <2>3 DEF TypeOK, Moved
  <2>5. ASSUME NEW k \in Key, k[1] # w
        PROVE  Untouched(k)
    BY <1>1, <2>1, <2>2, <2>3, <2>5, KeyParts, CurrentKeyIsKey
    DEF Untouched, Moved, TypeOK
  <2>6. ASSUME NEW k \in Key, k[1] = w
        PROVE  Keeps(k)
    <3>1. /\ final'[k] = IF Here(k) THEN "none" ELSE final[k]
          /\ lock'[k] = IF Here(k) THEN w ELSE lock[k]
      BY <1>1, <2>3, <2>6, CurrentKeyIsKey DEF TypeOK
    <3>2. KeyInvariant(k) /\ k[2] \in 1..Files /\ (k = CurrentKey(w) <=> Here(k))
      BY <1>1, <2>6, KeyParts, CurrentKeyIsKey DEF IInv
    <3>3. RowFollowsCall(k)'
      BY <1>1, <1>4, <2>1, <2>2, <2>6, <3>1, <3>2
      DEF KeyInvariant, RowFollowsCall, CallKnowsBytes, RowKnowsBytes, Moved, Of, Here,
          Building, Handling, HasBytes, NoReservation, TypeOK, Row,
          Acquire, Unlocked, DeletesBytes, ForgetsRow
    <3>4. CallKnowsBytes(k)' /\ RowKnowsBytes(k)'
      BY <1>1, <1>4, <2>1, <2>2, <2>6, <3>1, <3>2
      DEF KeyInvariant, RowFollowsCall, CallKnowsBytes, RowKnowsBytes, Moved, Of, Here,
          Building, Handling, HasBytes, NoReservation, TypeOK, Row,
          Acquire, Unlocked, DeletesBytes, ForgetsRow
    <3>5. LockIsHeld(k)'
      BY <1>1, <1>4, <2>1, <2>2, <2>6, <3>1, <3>2, StorageAssumption
      DEF KeyInvariant, RowFollowsCall, CallKnowsBytes, RowKnowsBytes, Moved, Of, Here,
          Building, Handling, HasBytes, NoReservation, TypeOK, Row,
          Acquire, Unlocked, DeletesBytes, ForgetsRow, LockIsHeld
    <3>6. BytesStay(k) => BytesStay(k)'
      BY <1>1, <1>4, <2>1, <2>2, <2>6, <3>1, <3>2
      DEF KeyInvariant, RowFollowsCall, CallKnowsBytes, RowKnowsBytes, Moved, Of, Here,
          Building, Handling, HasBytes, NoReservation, TypeOK, Row,
          Acquire, Unlocked, DeletesBytes, ForgetsRow, BytesStay
    <3> QED  BY <3>3, <3>4, <3>5, <3>6 DEF Keeps, KeyInvariant
  <2> QED  BY <2>4, <2>5, <2>6, CallStep
<1>5. CASE /\ Goto(w, "delete_failed")
           /\ UNCHANGED final
           /\ UNCHANGED pending
  <2>1. Moved(w, "delete_failed", writer[w].file, writer[w].reserved,
                  writer[w].owns_bytes, writer[w].uncertain)
    <3>1. writer' = [writer EXCEPT ![w] = Memory("delete_failed", writer[w].file, writer[w].reserved,
                  writer[w].owns_bytes, writer[w].uncertain)]
      BY <1>1, <1>5, StageUpdate, CallTypes DEF WriterStages, Goto
    <3> QED  BY <1>1, <3>1, MemoryMoves, CallTypes DEF WriterStages
  <2>2. UNCHANGED <<reservation, expired, artifacts, pending, final, cleaner>>
    BY <1>1, <1>5 DEF cleanup_deletes, rowVars, fileVars, Goto, Acquire
  <2>3. lock' = [lock EXCEPT ![CurrentKey(w)] = w]
    BY <1>1, <1>5 DEF cleanup_deletes, Acquire, Goto
  <2>4. TypeOK'
    BY <1>1, <2>1, <2>2, <2>3 DEF TypeOK, Moved
  <2>5. ASSUME NEW k \in Key, k[1] # w
        PROVE  Untouched(k)
    BY <1>1, <2>1, <2>2, <2>3, <2>5, KeyParts, CurrentKeyIsKey
    DEF Untouched, Moved, TypeOK
  <2>6. ASSUME NEW k \in Key, k[1] = w
        PROVE  Keeps(k)
    <3>1. lock'[k] = IF Here(k) THEN w ELSE lock[k]
      BY <1>1, <2>3, <2>6, CurrentKeyIsKey DEF TypeOK
    <3>2. KeyInvariant(k) /\ k[2] \in 1..Files /\ (k = CurrentKey(w) <=> Here(k))
      BY <1>1, <2>6, KeyParts, CurrentKeyIsKey DEF IInv
    <3>3. RowFollowsCall(k)'
      BY <1>1, <1>5, <2>1, <2>2, <2>6, <3>1, <3>2
      DEF KeyInvariant, RowFollowsCall, CallKnowsBytes, RowKnowsBytes, Moved, Of, Here,
          Building, Handling, HasBytes, NoReservation, TypeOK, Row,
          Acquire, Unlocked, DeletesBytes, ForgetsRow
    <3>4. CallKnowsBytes(k)' /\ RowKnowsBytes(k)'
      BY <1>1, <1>5, <2>1, <2>2, <2>6, <3>1, <3>2
      DEF KeyInvariant, RowFollowsCall, CallKnowsBytes, RowKnowsBytes, Moved, Of, Here,
          Building, Handling, HasBytes, NoReservation, TypeOK, Row,
          Acquire, Unlocked, DeletesBytes, ForgetsRow
    <3>5. LockIsHeld(k)'
      BY <1>1, <1>5, <2>1, <2>2, <2>6, <3>1, <3>2, StorageAssumption
      DEF KeyInvariant, RowFollowsCall, CallKnowsBytes, RowKnowsBytes, Moved, Of, Here,
          Building, Handling, HasBytes, NoReservation, TypeOK, Row,
          Acquire, Unlocked, DeletesBytes, ForgetsRow, LockIsHeld
    <3>6. BytesStay(k) => BytesStay(k)'
      BY <1>1, <1>5, <2>1, <2>2, <2>6, <3>1, <3>2
      DEF KeyInvariant, RowFollowsCall, CallKnowsBytes, RowKnowsBytes, Moved, Of, Here,
          Building, Handling, HasBytes, NoReservation, TypeOK, Row,
          Acquire, Unlocked, DeletesBytes, ForgetsRow, BytesStay
    <3> QED  BY <3>3, <3>4, <3>5, <3>6 DEF Keeps, KeyInvariant
  <2> QED  BY <2>4, <2>5, <2>6, CallStep
<1> QED  BY <1>1, <1>2, <1>3, <1>4, <1>5 DEF cleanup_deletes, DeleteBytes, fileVars

\* The transaction that deleted ended one way or the other.
LEMMA CleanupCommitsKeeps ==
    ASSUME IInv, NEW w \in Writer, cleanup_commits(w)
    PROVE  TypeOK' /\ \A k \in Key : Keeps(k)
<1>1. /\ TypeOK /\ CurrentKey(w) \in Key /\ writer[w].file \in 1..Files
      /\ writer[w].pc \in {"deleted", "delete_failed"}
  BY CurrentKeyIsKey DEF IInv, cleanup_commits, TypeOK
<1>2. CASE /\ writer[w].pc = "deleted"
           /\ SettleRow(CurrentKey(w), TRUE)
           /\ NextCandidate(w)
  <2>1. PICK pc \in {"cleanup", "done"}, file \in 1..Files :
          Moved(w, pc, file, writer[w].reserved, writer[w].owns_bytes, writer[w].uncertain)
    BY <1>1, <1>2, NextCandidateMoves
  <2>2. UNCHANGED <<expired, artifacts, pending, final, cleaner>>
    BY <1>1, <1>2 DEF cleanup_commits, rowVars, fileVars, SettleRow, SetReservation
  <2>3. /\ reservation' = [reservation EXCEPT ![CurrentKey(w)] = NoReservation]
        /\ lock' = [lock EXCEPT ![CurrentKey(w)] = Nobody]
    BY <1>1, <1>2 DEF cleanup_commits, SettleRow, SetReservation
  <2>4. TypeOK'
    BY <1>1, <2>1, <2>2, <2>3 DEF TypeOK, Moved, Row, NoReservation
  <2>5. ASSUME NEW k \in Key, k[1] # w
        PROVE  Untouched(k)
    BY <1>1, <2>1, <2>2, <2>3, <2>5, KeyParts, CurrentKeyIsKey
    DEF Untouched, Moved, TypeOK
  <2>6. ASSUME NEW k \in Key, k[1] = w
        PROVE  Keeps(k)
    <3>1. /\ reservation'[k] = IF Here(k) THEN NoReservation ELSE reservation[k]
          /\ lock'[k] = IF Here(k) THEN Nobody ELSE lock[k]
          /\ reservation'[k].state = IF Here(k) THEN "absent" ELSE reservation[k].state
      BY <1>1, <2>3, <2>6, CurrentKeyIsKey DEF TypeOK, Row, NoReservation
    <3>2. KeyInvariant(k) /\ k[2] \in 1..Files /\ (k = CurrentKey(w) <=> Here(k))
      BY <1>1, <2>6, KeyParts, CurrentKeyIsKey DEF IInv
    <3>3. RowFollowsCall(k)'
      BY <1>1, <1>2, <2>1, <2>2, <2>6, <3>1, <3>2
      DEF KeyInvariant, RowFollowsCall, CallKnowsBytes, RowKnowsBytes, Moved, Of, Here,
          Building, Handling, HasBytes, NoReservation, TypeOK, Row
    <3>4. CallKnowsBytes(k)' /\ RowKnowsBytes(k)'
      BY <1>1, <1>2, <2>1, <2>2, <2>6, <3>1, <3>2
      DEF KeyInvariant, RowFollowsCall, CallKnowsBytes, RowKnowsBytes, Moved, Of, Here,
          Building, Handling, HasBytes, NoReservation, TypeOK, Row
    <3>5. LockIsHeld(k)'
      BY <1>1, <1>2, <2>1, <2>2, <2>6, <3>1, <3>2, StorageAssumption
      DEF KeyInvariant, RowFollowsCall, CallKnowsBytes, RowKnowsBytes, Moved, Of, Here,
          Building, Handling, HasBytes, NoReservation, TypeOK, Row, LockIsHeld
    <3>6. BytesStay(k) => BytesStay(k)'
      BY <1>1, <1>2, <2>1, <2>2, <2>6, <3>1, <3>2
      DEF KeyInvariant, RowFollowsCall, CallKnowsBytes, RowKnowsBytes, Moved, Of, Here,
          Building, Handling, HasBytes, NoReservation, TypeOK, Row, BytesStay
    <3> QED  BY <3>3, <3>4, <3>5, <3>6 DEF Keeps, KeyInvariant
  <2> QED  BY <2>4, <2>5, <2>6, CallStep
<1>3. CASE /\ writer[w].pc = "delete_failed"
           /\ SettleRow(CurrentKey(w), FALSE)
           /\ NextCandidate(w)
  <2>1. PICK pc \in {"cleanup", "done"}, file \in 1..Files :
          Moved(w, pc, file, writer[w].reserved, writer[w].owns_bytes, writer[w].uncertain)
    BY <1>1, <1>3, NextCandidateMoves
  <2>2. UNCHANGED <<expired, artifacts, pending, final, cleaner>>
    BY <1>1, <1>3 DEF cleanup_commits, rowVars, fileVars, SettleRow, SetReservation
  <2>3. /\ reservation' = [reservation EXCEPT ![CurrentKey(w)] = 
                                        Row(reservation[CurrentKey(w)].state, TRUE)]
        /\ lock' = [lock EXCEPT ![CurrentKey(w)] = Nobody]
    BY <1>1, <1>3, RowUpdate DEF cleanup_commits, SettleRow, SetReservation
  <2>4. TypeOK'
    BY <1>1, <2>1, <2>2, <2>3 DEF TypeOK, Moved, Row, NoReservation
  <2>5. ASSUME NEW k \in Key, k[1] # w
        PROVE  Untouched(k)
    BY <1>1, <2>1, <2>2, <2>3, <2>5, KeyParts, CurrentKeyIsKey
    DEF Untouched, Moved, TypeOK
  <2>6. ASSUME NEW k \in Key, k[1] = w
        PROVE  Keeps(k)
    <3>1. /\ reservation'[k] = IF Here(k) THEN Row(reservation[CurrentKey(w)].state, TRUE)
                                        ELSE reservation[k]
          /\ lock'[k] = IF Here(k) THEN Nobody ELSE lock[k]
          /\ reservation'[k].state = IF Here(k) THEN reservation[k].state ELSE reservation[k].state
      BY <1>1, <2>3, <2>6, CurrentKeyIsKey DEF TypeOK, Row, NoReservation
    <3>2. KeyInvariant(k) /\ k[2] \in 1..Files /\ (k = CurrentKey(w) <=> Here(k))
      BY <1>1, <2>6, KeyParts, CurrentKeyIsKey DEF IInv
    <3>3. RowFollowsCall(k)'
      BY <1>1, <1>3, <2>1, <2>2, <2>6, <3>1, <3>2, StorageAssumption
      DEF KeyInvariant, RowFollowsCall, CallKnowsBytes, RowKnowsBytes, Moved, Of, Here,
          Building, Handling, HasBytes, NoReservation, TypeOK, Row, LockIsHeld
    <3>4. CallKnowsBytes(k)' /\ RowKnowsBytes(k)'
      BY <1>1, <1>3, <2>1, <2>2, <2>6, <3>1, <3>2, StorageAssumption
      DEF KeyInvariant, RowFollowsCall, CallKnowsBytes, RowKnowsBytes, Moved, Of, Here,
          Building, Handling, HasBytes, NoReservation, TypeOK, Row, LockIsHeld
    <3>5. LockIsHeld(k)'
      BY <1>1, <1>3, <2>1, <2>2, <2>6, <3>1, <3>2, StorageAssumption
      DEF KeyInvariant, RowFollowsCall, CallKnowsBytes, RowKnowsBytes, Moved, Of, Here,
          Building, Handling, HasBytes, NoReservation, TypeOK, Row, LockIsHeld
    <3>6. BytesStay(k) => BytesStay(k)'
      BY <1>1, <1>3, <2>1, <2>2, <2>6, <3>1, <3>2, StorageAssumption
      DEF KeyInvariant, RowFollowsCall, CallKnowsBytes, RowKnowsBytes, Moved, Of, Here,
          Building, Handling, HasBytes, NoReservation, TypeOK, Row, BytesStay, LockIsHeld
    <3> QED  BY <3>3, <3>4, <3>5, <3>6 DEF Keeps, KeyInvariant
  <2> QED  BY <2>4, <2>5, <2>6, CallStep
<1>4. CASE /\ lock' = [lock EXCEPT ![CurrentKey(w)] = Nobody]
           /\ UNCHANGED reservation
           /\ NextCandidate(w)
  <2>1. PICK pc \in {"cleanup", "done"}, file \in 1..Files :
          Moved(w, pc, file, writer[w].reserved, writer[w].owns_bytes, writer[w].uncertain)
    BY <1>1, <1>4, NextCandidateMoves
  <2>2. UNCHANGED <<reservation, expired, artifacts, pending, final, cleaner>>
    BY <1>1, <1>4 DEF cleanup_commits, rowVars, fileVars, SetReservation
  <2>3. lock' = [lock EXCEPT ![CurrentKey(w)] = Nobody]
    BY <1>1, <1>4 DEF cleanup_commits, SetReservation
  <2>4. TypeOK'
    BY <1>1, <2>1, <2>2, <2>3 DEF TypeOK, Moved
  <2>5. ASSUME NEW k \in Key, k[1] # w
        PROVE  Untouched(k)
    BY <1>1, <2>1, <2>2, <2>3, <2>5, KeyParts, CurrentKeyIsKey
    DEF Untouched, Moved, TypeOK
  <2>6. ASSUME NEW k \in Key, k[1] = w
        PROVE  Keeps(k)
    <3>1. lock'[k] = IF Here(k) THEN Nobody ELSE lock[k]
      BY <1>1, <2>3, <2>6, CurrentKeyIsKey DEF TypeOK
    <3>2. KeyInvariant(k) /\ k[2] \in 1..Files /\ (k = CurrentKey(w) <=> Here(k))
      BY <1>1, <2>6, KeyParts, CurrentKeyIsKey DEF IInv
    <3>3. RowFollowsCall(k)'
      BY <1>1, <1>4, <2>1, <2>2, <2>6, <3>1, <3>2
      DEF KeyInvariant, RowFollowsCall, CallKnowsBytes, RowKnowsBytes, Moved, Of, Here,
          Building, Handling, HasBytes, NoReservation, TypeOK
    <3>4. CallKnowsBytes(k)' /\ RowKnowsBytes(k)'
      BY <1>1, <1>4, <2>1, <2>2, <2>6, <3>1, <3>2
      DEF KeyInvariant, RowFollowsCall, CallKnowsBytes, RowKnowsBytes, Moved, Of, Here,
          Building, Handling, HasBytes, NoReservation, TypeOK
    <3>5. LockIsHeld(k)'
      BY <1>1, <1>4, <2>1, <2>2, <2>6, <3>1, <3>2, StorageAssumption
      DEF KeyInvariant, RowFollowsCall, CallKnowsBytes, RowKnowsBytes, Moved, Of, Here,
          Building, Handling, HasBytes, NoReservation, TypeOK, LockIsHeld
    <3>6. BytesStay(k) => BytesStay(k)'
      BY <1>1, <1>4, <2>1, <2>2, <2>6, <3>1, <3>2
      DEF KeyInvariant, RowFollowsCall, CallKnowsBytes, RowKnowsBytes, Moved, Of, Here,
          Building, Handling, HasBytes, NoReservation, TypeOK, BytesStay
    <3> QED  BY <3>3, <3>4, <3>5, <3>6 DEF Keeps, KeyInvariant
  <2> QED  BY <2>4, <2>5, <2>6, CallStep
<1> QED  BY <1>1, <1>2, <1>3, <1>4 DEF cleanup_commits

\* The commit turns the call's rows into artifacts.
LEMMA CommitKeeps ==
    ASSUME IInv, NEW w \in Writer, commit_revision_metadata(w)
    PROVE  TypeOK' /\ \A k \in Key : Keeps(k)
<1>1. TypeOK /\ writer[w].pc = "commit" /\ AllVerified(w)
  BY DEF IInv, commit_revision_metadata
<1>2. PICK pc \in {"done", "cleanup"}, file \in 1..Files :
        Moved(w, pc, file, writer[w].reserved, writer[w].owns_bytes, writer[w].uncertain)
  <2>1. CASE Goto(w, "done")
    <3>1. writer' = [writer EXCEPT ![w] = Memory("done", writer[w].file, writer[w].reserved,
                  writer[w].owns_bytes, writer[w].uncertain)]
      BY <1>1, <2>1, StageUpdate DEF WriterStages, Goto
    <3>2. Moved(w, "done", writer[w].file, writer[w].reserved, writer[w].owns_bytes,
                writer[w].uncertain)
      BY <1>1, <3>1, MemoryMoves, CallTypes DEF WriterStages
    <3> QED  BY <1>1, <3>2, CallTypes
  <2>2. CASE Fail(w)
    <3>1. writer' = [writer EXCEPT ![w] = Memory("cleanup", 1, writer[w].reserved,
                  writer[w].owns_bytes, writer[w].uncertain)]
      BY <1>1, <2>2, FileUpdate, CallTypes DEF WriterStages, Fail
    <3>2. Moved(w, "cleanup", 1, writer[w].reserved, writer[w].owns_bytes,
                writer[w].uncertain)
      BY <1>1, <3>1, MemoryMoves, CallTypes DEF WriterStages
    <3> QED  BY <1>1, <3>2, CallTypes
  <2> QED  BY <2>1, <2>2 DEF commit_revision_metadata
<1>3. /\ UNCHANGED <<expired, lock, pending, final, cleaner>>
      /\ artifacts' = artifacts \cup KeysOf(w)
      /\ reservation' = [k \in Key |-> IF k \in KeysOf(w) THEN NoReservation
                                                         ELSE reservation[k]]
  BY DEF commit_revision_metadata, fileVars
<1>4. \A k \in Key : k \in KeysOf(w) <=> k[1] = w
  BY DEF Key, KeysOf
<1>5. TypeOK'
  <2>1. artifacts' \subseteq Key
    BY <1>1, <1>3 DEF TypeOK, KeysOf, Key
  <2> QED  BY <1>1, <1>2, <1>3, <2>1 DEF TypeOK, Moved, NoReservation
<1>6. ASSUME NEW k \in Key, k[1] # w
      PROVE  Untouched(k)
  BY <1>1, <1>2, <1>3, <1>4, <1>6, KeyParts DEF Untouched, Moved, TypeOK
<1>7. ASSUME NEW k \in Key, k[1] = w
      PROVE  Keeps(k)
  <2>1. /\ reservation'[k] = NoReservation /\ k \in artifacts'
        /\ lock[k] = Nobody /\ reservation[k] = Row("owned", FALSE)
    BY <1>1, <1>3, <1>4, <1>7 DEF AllVerified, Unlocked
  <2>2. KeyInvariant(k)
    BY DEF IInv
  <2>3. RowFollowsCall(k)'
    BY <1>2, <1>7, <2>1 DEF RowFollowsCall, Moved, Of, Building, Handling
  <2>4. CallKnowsBytes(k)'
    BY <1>1, <1>2, <1>3, <1>7, <2>2
    DEF KeyInvariant, CallKnowsBytes, Moved, Of, Here, HasBytes, Building
  <2>5. RowKnowsBytes(k)'
    BY <2>1 DEF RowKnowsBytes, NoReservation
  <2>6. LockIsHeld(k)'
    BY <1>1, <1>2, <1>3, <1>7, <2>1, <2>2, StorageAssumption
    DEF KeyInvariant, LockIsHeld, Moved, Of, Here, HasBytes
  <2>7. BytesStay(k) => BytesStay(k)'
    BY <1>1, <1>2, <1>3, <1>7, <2>1 DEF BytesStay, Moved, Of, Building
  <2> QED  BY <2>3, <2>4, <2>5, <2>6, <2>7 DEF Keeps, KeyInvariant
<1> QED  BY <1>5, <1>6, <1>7, CallStep

\* A call that dies leaves rows and files as they are.
LEMMA WriterDiesKeeps ==
    ASSUME IInv, NEW w \in Writer, writer_dies(w)
    PROVE  TypeOK' /\ \A k \in Key : Keeps(k)
<1>1. TypeOK
  BY DEF IInv
<1>2. Moved(w, "done", writer[w].file, writer[w].reserved, writer[w].owns_bytes,
            writer[w].uncertain)
  <2>1. writer' = [writer EXCEPT ![w] = Memory("done", writer[w].file, writer[w].reserved,
                writer[w].owns_bytes, writer[w].uncertain)]
    BY <1>1, StageUpdate DEF WriterStages, Goto, writer_dies
  <2> QED  BY <1>1, <2>1, MemoryMoves, CallTypes DEF WriterStages
<1>3. /\ UNCHANGED <<reservation, expired, artifacts, pending, final, cleaner>>
      /\ lock' = [k \in Key |-> IF lock[k] = w THEN Nobody ELSE lock[k]]
  BY DEF writer_dies, fileVars, ReleaseLocks
<1>4. TypeOK'
  BY <1>1, <1>2, <1>3 DEF TypeOK, Moved
<1>5. ASSUME NEW k \in Key, k[1] # w
      PROVE  Untouched(k)
  <2>1. lock[k] # w
    BY <1>5 DEF IInv, KeyInvariant, LockIsHeld
  <2> QED  BY <1>2, <1>3, <1>5, <2>1, KeyParts DEF Untouched, Moved
<1>6. ASSUME NEW k \in Key, k[1] = w
      PROVE  Keeps(k)
  <2>1. /\ lock'[k] = IF lock[k] = w THEN Nobody ELSE lock[k]
        /\ KeyInvariant(k)
    BY <1>3 DEF IInv
  <2>2. RowFollowsCall(k)' /\ CallKnowsBytes(k)' /\ RowKnowsBytes(k)'
    BY <1>2, <1>3, <1>6, <2>1
    DEF KeyInvariant, RowFollowsCall, CallKnowsBytes, RowKnowsBytes, Moved, Of, Here,
        HasBytes, Building, Handling
  <2>3. LockIsHeld(k)'
    BY <1>2, <1>3, <1>6, <2>1, StorageAssumption
    DEF KeyInvariant, LockIsHeld, Moved, Of, Here, HasBytes
  <2>4. BytesStay(k) => BytesStay(k)'
    BY <1>2, <1>3, <1>6 DEF BytesStay, Moved, Of, Building
  <2> QED  BY <2>2, <2>3, <2>4 DEF Keeps, KeyInvariant
<1> QED  BY <1>4, <1>5, <1>6, CallStep

----------------------------------------------------------------------------
(* The steps of the cleaners, and time.                                    *)

\* A row is settled without touching bytes.
LEMMA CleanerSettlesKeeps ==
    ASSUME IInv, NEW c \in Cleaner, NEW key \in Key, cleaner_settles(c, key)
    PROVE  TypeOK' /\ \A k \in Key : Keeps(k)
<1>1. /\ TypeOK /\ KeyInvariant(key) /\ lock[key] = Nobody /\ key[1] \in Writer
      /\ reservation[key] # NoReservation
  BY KeyParts DEF IInv, cleaner_settles, Unlocked, Listed
<1>2. UNCHANGED <<expired, lock, artifacts, pending, final, writer, cleaner>>
  BY DEF cleaner_settles, fileVars
<1>3. PICK row \in {NoReservation, Row("reserved", TRUE)} :
        /\ reservation' = [reservation EXCEPT ![key] = row]
        /\ \/ row = NoReservation
              /\ (key \in artifacts \/ reservation[key].state = "collision")
           \/ row = Row("reserved", TRUE) /\ reservation[key].state = "reserved"
  BY DEF cleaner_settles, SetReservation
<1>4. /\ row \in [state : {"absent", "reserved", "owned", "collision"},
                   cleanup_required : BOOLEAN]
      /\ row.state \in {"absent", "reserved"} /\ row # Row("owned", FALSE)
      /\ (row = NoReservation <=> row.state = "absent")
      /\ (row = Row("reserved", TRUE) <=> row.state = "reserved")
  BY CleanersRows
<1>5. TypeOK'
  BY <1>1, <1>2, <1>3, <1>4 DEF TypeOK
<1>6. ASSUME NEW k \in Key, k # key
      PROVE  Untouched(k)
  BY <1>1, <1>2, <1>3, <1>6 DEF Untouched, TypeOK
<1>7. reservation'[key] = row
  BY <1>1, <1>3 DEF TypeOK
<1>8. Keeps(key)
  <2>1. RowFollowsCall(key)'
    BY <1>1, <1>2, <1>3, <1>4, <1>7 DEF KeyInvariant, RowFollowsCall, RowKnowsBytes, CallKnowsBytes,
        Of, Here, Building, Handling, NoReservation
  <2>2. CallKnowsBytes(key)' /\ RowKnowsBytes(key)'
    BY <1>1, <1>2, <1>3, <1>4, <1>7
    DEF KeyInvariant, CallKnowsBytes, RowKnowsBytes, Of, Here, HasBytes, Building
  <2>3. LockIsHeld(key)'
    BY <1>1, <1>2, StorageAssumption DEF KeyInvariant, LockIsHeld, Of, Here, HasBytes
  <2>4. BytesStay(key) => BytesStay(key)'
    BY <1>2, <1>4, <1>7 DEF BytesStay, Of
  <2> QED  BY <2>1, <2>2, <2>3, <2>4 DEF Keeps, KeyInvariant
<1> QED  BY <1>5, <1>6, <1>8, UntouchedKeeps DEF IInv

\* Verified bytes are deleted, or some of them, under the row's lock.
LEMMA CleanerDeletesKeeps ==
    ASSUME IInv, NEW c \in Cleaner, NEW key \in Key, NEW ok \in BOOLEAN,
           cleaner_deletes(c, key, ok)
    PROVE  TypeOK' /\ \A k \in Key : Keeps(k)
<1>1. /\ TypeOK /\ KeyInvariant(key) /\ lock[key] = Nobody /\ key[1] \in Writer
      /\ key \notin artifacts /\ reservation[key].state = "owned" /\ key \in expired
      /\ cleaner[c] = Idle
  BY KeyParts DEF IInv, cleaner_deletes, Acquire, Unlocked, Deletable, Listed
<1>2. /\ UNCHANGED <<reservation, expired, artifacts, writer>>
      /\ lock' = [lock EXCEPT ![key] = c]
  BY DEF cleaner_deletes, Acquire
<1>3. PICK pc \in {"deleted", "failed"} :
        /\ cleaner' = [cleaner EXCEPT ![c] = [pc |-> pc, key |-> key]]
        /\ pc = "deleted" => ok
  BY DEF cleaner_deletes
<1>4. /\ final' \in [Key -> {"none", "own", "foreign"}] /\ pending' \subseteq Key
      /\ \A k \in Key : k # key => final'[k] = final[k] /\ (k \in pending' <=> k \in pending)
      /\ final'[key] \in {"none", final[key]}
      /\ key \in pending' => key \in pending
      /\ ok => final'[key] = "none" /\ key \notin pending'
  <2>1. CASE final' = [final EXCEPT ![key] = "none"] /\ pending' = pending \ {key}
    BY <1>1, <2>1 DEF TypeOK
  <2>2. CASE ~ok /\ final' = [final EXCEPT ![key] = "none"] /\ UNCHANGED pending
    BY <1>1, <2>2 DEF TypeOK
  <2>3. CASE ~ok /\ UNCHANGED fileVars
    BY <1>1, <2>3 DEF TypeOK, fileVars
  <2> QED  BY <2>1, <2>2, <2>3 DEF cleaner_deletes, DeleteBytes
<1>5. /\ cleaner' \in [Cleaner -> [pc : {"idle", "deleted", "failed"},
                                   key : Key \cup {<<Nobody, 0>>}]]
      /\ cleaner'[c].pc = pc /\ cleaner'[c].key = key
      /\ \A d \in Cleaner : d # c => cleaner'[d] = cleaner[d]
  BY <1>1, <1>3 DEF TypeOK
<1>6. TypeOK'
  BY <1>1, <1>2, <1>4, <1>5 DEF TypeOK
<1>7. Idle.key \notin Key /\ Idle.pc = "idle"
  BY StorageAssumption DEF Idle, Key
<1>8. ASSUME NEW k \in Key, k # key
      PROVE  Untouched(k)
  BY <1>1, <1>2, <1>4, <1>5, <1>7, <1>8 DEF Untouched, TypeOK
<1>9. Keeps(key)
  <2>1. lock'[key] = c
    BY <1>1, <1>2 DEF TypeOK
  <2>2. RowFollowsCall(key)'
    BY <1>1, <1>2 DEF KeyInvariant, RowFollowsCall, Of, Here
  <2>3. CallKnowsBytes(key)'
    BY <1>1, <1>2, <1>4
    DEF KeyInvariant, RowFollowsCall, CallKnowsBytes, Of, Here, HasBytes, Building, Handling
  <2>4. RowKnowsBytes(key)'
    BY <1>1, <1>2, <1>4 DEF KeyInvariant, RowKnowsBytes, HasBytes, NoReservation
  <2>5. LockIsHeld(key)'
    <3>1. /\ \A d \in Cleaner : cleaner[d].key # key
          /\ reservation[key] # NoReservation
      BY <1>1, StorageAssumption DEF KeyInvariant, LockIsHeld, NoReservation
    <3>2. ~(Here(key) /\ Of(key).pc \in {"deleted", "delete_failed"})
      BY <1>1, StorageAssumption DEF KeyInvariant, LockIsHeld
    <3> QED  BY <1>1, <1>2, <1>3, <1>4, <1>5, <2>1, <3>1, <3>2, StorageAssumption
             DEF LockIsHeld, Of, Here, HasBytes
  <2>6. BytesStay(key) => BytesStay(key)'
    BY <1>1, <1>2, <2>1, StorageAssumption DEF BytesStay
  <2> QED  BY <2>2, <2>3, <2>4, <2>5, <2>6 DEF Keeps, KeyInvariant
<1> QED  BY <1>6, <1>8, <1>9, UntouchedKeeps DEF IInv

\* The transaction that deleted commits.
LEMMA CleanerCommitsKeeps ==
    ASSUME IInv, NEW c \in Cleaner, cleaner_commits(c)
    PROVE  TypeOK' /\ \A k \in Key : Keeps(k)
<1>0. PICK key \in Key : key = cleaner[c].key
  BY DEF IInv, CleanersHaveKeys, cleaner_commits
<1>1. /\ TypeOK /\ KeyInvariant(key) /\ key[1] \in Writer
      /\ UNCHANGED <<expired, artifacts, pending, final, writer>>
      /\ cleaner' = [cleaner EXCEPT ![c] = Idle]
      /\ lock' = [lock EXCEPT ![key] = Nobody]
  BY <1>0, KeyParts DEF IInv, cleaner_commits, SettleRow, fileVars
<1>2. PICK row \in {NoReservation, Row("owned", TRUE)} :
        /\ reservation' = [reservation EXCEPT ![key] = row]
        /\ row = NoReservation => ~HasBytes(key)
  <2>1. CASE cleaner[c].pc = "deleted"
    <3>1. ~HasBytes(key)
      BY <1>0, <1>1, <2>1 DEF KeyInvariant, LockIsHeld
    <3> QED  BY <1>0, <1>1, <2>1, <3>1 DEF cleaner_commits, SettleRow, SetReservation
  <2>2. CASE cleaner[c].pc # "deleted"
    <3>1. reservation' = [reservation EXCEPT ![key] = Row(reservation[key].state, TRUE)]
      BY <1>0, <1>1, <2>2, RowUpdate DEF cleaner_commits, SettleRow
    <3>2. reservation[key].state = "owned"
      BY <1>0, <1>1 DEF KeyInvariant, LockIsHeld
    <3>3. Row("owned", TRUE) # NoReservation
      BY CleanersRows
    <3> QED  BY <3>1, <3>2, <3>3
  <2> QED  BY <2>1, <2>2
<1>3. /\ row \in [state : {"absent", "reserved", "owned", "collision"},
                   cleanup_required : BOOLEAN]
      /\ row.state \in {"absent", "owned"} /\ row # Row("owned", FALSE)
      /\ row.state = "owned" => row # NoReservation
      /\ row.state = "absent" => row = NoReservation
  BY CleanersRows
<1>4. /\ cleaner' \in [Cleaner -> [pc : {"idle", "deleted", "failed"},
                                   key : Key \cup {<<Nobody, 0>>}]]
      /\ cleaner'[c] = Idle
      /\ \A d \in Cleaner : d # c => cleaner'[d] = cleaner[d]
  BY <1>1 DEF TypeOK, Idle
<1>5. Idle.key \notin Key /\ Idle.pc = "idle"
  BY StorageAssumption DEF Idle, Key
<1>6. TypeOK'
  BY <1>1, <1>2, <1>3, <1>4 DEF TypeOK
<1>7. ASSUME NEW k \in Key, k # key
      PROVE  Untouched(k)
  BY <1>0, <1>1, <1>2, <1>4, <1>5, <1>7 DEF Untouched, TypeOK
<1>8. Keeps(key)
  <2>1. /\ lock'[key] = Nobody /\ reservation'[key] = row
        /\ lock[key] = c /\ reservation[key].state = "owned"
    BY <1>0, <1>1, <1>2 DEF TypeOK, KeyInvariant, LockIsHeld
  <2>2. RowFollowsCall(key)'
    BY <1>1, <1>3, <2>1 DEF KeyInvariant, RowFollowsCall, Of, Here, Building, Handling, NoReservation
  <2>3. CallKnowsBytes(key)'
    BY <1>1 DEF KeyInvariant, CallKnowsBytes, Of, Here, HasBytes
  <2>4. RowKnowsBytes(key)'
    BY <1>1, <1>2, <1>3, <2>1 DEF KeyInvariant, RowKnowsBytes, HasBytes
  <2>5. LockIsHeld(key)'
    BY <1>0, <1>1, <1>4, <1>5, <2>1, StorageAssumption DEF KeyInvariant, LockIsHeld, Of, Here, HasBytes
  <2>6. BytesStay(key) => BytesStay(key)'
    BY <1>1, <1>3, <2>1 DEF BytesStay, Of
  <2> QED  BY <2>2, <2>3, <2>4, <2>5, <2>6 DEF Keeps, KeyInvariant
<1> QED  BY <1>6, <1>7, <1>8, UntouchedKeeps DEF IInv

\* A cleaner that dies gives its lock back and leaves the row as it was.  The
\* bytes may be gone: nobody may still be about to commit them.
LEMMA CleanerDiesKeeps ==
    ASSUME IInv, NEW c \in Cleaner, cleaner_dies(c)
    PROVE  /\ TypeOK' /\ \A k \in Key : KeyInvariant(k)'
           /\ ~OverdueDeaths => \A k \in Key : Keeps(k)
<1>0. PICK key \in Key : key = cleaner[c].key
  BY DEF IInv, CleanersHaveKeys, cleaner_dies
<1>1. /\ TypeOK /\ KeyInvariant(key) /\ key[1] \in Writer
      /\ UNCHANGED <<reservation, expired, artifacts, pending, final, writer>>
      /\ cleaner' = [cleaner EXCEPT ![c] = Idle]
      /\ lock' = [k \in Key |-> IF lock[k] = c THEN Nobody ELSE lock[k]]
  BY <1>0, KeyParts DEF IInv, cleaner_dies, ReleaseLocks, fileVars
<1>2. /\ cleaner' \in [Cleaner -> [pc : {"idle", "deleted", "failed"},
                                   key : Key \cup {<<Nobody, 0>>}]]
      /\ cleaner'[c] = Idle
      /\ \A d \in Cleaner : d # c => cleaner'[d] = cleaner[d]
  BY <1>1 DEF TypeOK, Idle
<1>3. Idle.key \notin Key /\ Idle.pc = "idle"
  BY StorageAssumption DEF Idle, Key
<1>4. TypeOK'
  BY <1>1, <1>2 DEF TypeOK
<1>5. \A k \in Key : lock[k] = c <=> k = key
  BY <1>0 DEF IInv, KeyInvariant, LockIsHeld
<1>6. /\ lock'[key] = Nobody /\ lock[key] = c /\ key \in expired
  BY <1>0, <1>1, <1>5 DEF KeyInvariant, LockIsHeld
<1>7. ~OverdueDeaths => writer[key[1]].pc = "done"
  BY <1>0, <1>1, <1>6 DEF cleaner_dies, Overdue
<1>8. ASSUME NEW k \in Key, k # key
      PROVE  Untouched(k)
  BY <1>0, <1>1, <1>2, <1>3, <1>5, <1>8 DEF Untouched, TypeOK
<1>9. KeyInvariant(key)'
  <2>1. RowFollowsCall(key)' /\ CallKnowsBytes(key)' /\ RowKnowsBytes(key)'
    BY <1>1 DEF KeyInvariant, RowFollowsCall, CallKnowsBytes, RowKnowsBytes, Of, Here, HasBytes
  <2>2. LockIsHeld(key)'
    BY <1>0, <1>1, <1>2, <1>3, <1>6, StorageAssumption DEF KeyInvariant, LockIsHeld, Of, Here, HasBytes
  <2> QED  BY <2>1, <2>2 DEF KeyInvariant
<1>10. ~OverdueDeaths => (BytesStay(key) => BytesStay(key)')
  BY <1>1, <1>7 DEF BytesStay, Of, Building
<1> QED  BY <1>4, <1>8, <1>9, <1>10, UntouchedKeeps DEF IInv, Keeps

\* Time only expires rows.
LEMMA ExpireKeeps ==
    ASSUME IInv, NEW key \in Key, expire(key)
    PROVE  TypeOK' /\ \A k \in Key : Keeps(k)
<1>1. TypeOK'
  BY DEF IInv, TypeOK, expire, fileVars
<1>2. \A k \in Key : Untouched(k)
  BY DEF expire, fileVars, Untouched
<1> QED  BY <1>1, <1>2, UntouchedKeeps DEF IInv

----------------------------------------------------------------------------
(* The invariant.                                                          *)

\* Nothing is reserved and nothing is written.
LEMMA StorageInitially ==
    ASSUME Init
    PROVE  IInv /\ \A k \in Key : BytesStay(k)
<1>1. writer = [w \in Writer |-> Memory("reserve", 1, {}, {}, {})]
  BY DEF Init, Start, Memory
<1>2. TypeOK
  BY <1>1, StorageAssumption DEF Init, TypeOK, WriterStages, Memory, NoReservation, Idle
<1>3. CleanersHaveKeys
  BY DEF Init, CleanersHaveKeys
<1>4. ASSUME NEW k \in Key
      PROVE  KeyInvariant(k) /\ BytesStay(k)
  <2>1. /\ Of(k).pc = "reserve" /\ Of(k).file = 1 /\ Of(k).owns_bytes = {}
        /\ Of(k).uncertain = {} /\ k \notin artifacts /\ k \notin pending
        /\ final[k] # "own" /\ reservation[k] = NoReservation /\ lock[k] = Nobody
    BY <1>1, KeyParts DEF Init, Of, Memory
  <2>2. NoReservation.state = "absent" /\ NoReservation # Row("owned", FALSE)
    BY CleanersRows
  <2>3. \A c \in Cleaner : cleaner[c].key # k
    <3>1. <<Nobody, 0>> \notin Key
      BY StorageAssumption DEF Key
    <3> QED  BY <3>1 DEF Init, Idle
  <2> QED  BY <2>1, <2>2, <2>3, StorageAssumption
           DEF KeyInvariant, RowFollowsCall, CallKnowsBytes, RowKnowsBytes, LockIsHeld,
               BytesStay, HasBytes, Building, Handling
<1> QED  BY <1>2, <1>3, <1>4 DEF IInv

\* Only cleaners change what cleaners are about.
LEMMA CleanersKeepKeys ==
    ASSUME IInv, [Next]_vars
    PROVE  CleanersHaveKeys'
<1>1. CleanersHaveKeys /\ TypeOK
  BY DEF IInv
<1>2. ASSUME NEW w \in Writer, CreateRevision(w)
      PROVE  UNCHANGED cleaner
  BY <1>2 DEF CreateRevision, reserve, write_pending, write_fails, write_installs,
        write_settles, mark_verified, record_failed_write, commit_revision_metadata,
        commit_refused, cleanup_unowned, cleanup_deletes, cleanup_commits, writer_dies
<1>3. ASSUME NEW c \in Cleaner, CleanExpired(c)
      PROVE  \/ UNCHANGED cleaner
             \/ cleaner' = [cleaner EXCEPT ![c] = Idle]
             \/ \E k \in Key : \E pc \in {"deleted", "failed"} :
                    cleaner' = [cleaner EXCEPT ![c] = [pc |-> pc, key |-> k]]
  BY <1>3 DEF CleanExpired, cleaner_settles, cleaner_deletes, cleaner_commits, cleaner_dies
<1>4. ASSUME NEW k \in Key, expire(k)
      PROVE  UNCHANGED cleaner
  BY <1>4 DEF expire
<1>5. CASE UNCHANGED cleaner
  BY <1>1, <1>5 DEF CleanersHaveKeys
<1>6. ASSUME NEW c \in Cleaner, cleaner' = [cleaner EXCEPT ![c] = Idle]
      PROVE  CleanersHaveKeys'
  BY <1>1, <1>6 DEF CleanersHaveKeys, TypeOK
<1>7. ASSUME NEW c \in Cleaner, NEW k \in Key, NEW pc \in {"deleted", "failed"},
             cleaner' = [cleaner EXCEPT ![c] = [pc |-> pc, key |-> k]]
      PROVE  CleanersHaveKeys'
  BY <1>1, <1>7 DEF CleanersHaveKeys, TypeOK
<1> QED  BY <1>2, <1>3, <1>4, <1>5, <1>6, <1>7 DEF Next, vars

\* Every step keeps the invariant, and the bytes that may still be committed
\* unless a cleaner dies late.
LEMMA StorageInductive ==
    ASSUME IInv, [Next]_vars
    PROVE  IInv' /\ (~OverdueDeaths => \A k \in Key : Keeps(k))
<1>1. ASSUME NEW w \in Writer, CreateRevision(w)
      PROVE  TypeOK' /\ \A k \in Key : Keeps(k)
  BY <1>1, ReserveKeeps, WritePendingKeeps, WriteFailsKeeps, WriteInstallsKeeps,
     WriteSettlesKeeps, MarkVerifiedKeeps, RecordFailedWriteKeeps, CommitKeeps,
     CommitRefusedKeeps, CleanupUnownedKeeps, CleanupDeletesKeeps, CleanupCommitsKeeps,
     WriterDiesKeeps DEF CreateRevision
<1>2. ASSUME NEW c \in Cleaner, CleanExpired(c)
      PROVE  /\ TypeOK' /\ \A k \in Key : KeyInvariant(k)'
             /\ ~OverdueDeaths => \A k \in Key : Keeps(k)
  <2>1. CASE \E k \in Key : cleaner_settles(c, k)
    BY <2>1, CleanerSettlesKeeps DEF Keeps
  <2>2. CASE \E k \in Key : \E ok \in BOOLEAN : cleaner_deletes(c, k, ok)
    BY <2>2, CleanerDeletesKeeps DEF Keeps
  <2>3. CASE cleaner_commits(c)
    BY <2>3, CleanerCommitsKeeps DEF Keeps
  <2>4. CASE cleaner_dies(c)
    BY <2>4, CleanerDiesKeeps
  <2> QED  BY <1>2, <2>1, <2>2, <2>3, <2>4 DEF CleanExpired
<1>3. ASSUME NEW k \in Key, expire(k)
      PROVE  TypeOK' /\ \A j \in Key : Keeps(j)
  BY <1>3, ExpireKeeps
<1>4. CASE UNCHANGED vars
  <2>1. TypeOK'
    BY <1>4 DEF IInv, TypeOK, vars, rowVars, fileVars
  <2>2. \A k \in Key : Untouched(k)
    BY <1>4 DEF Untouched, vars, rowVars, fileVars
  <2> QED  BY <2>1, <2>2, CleanersKeepKeys, UntouchedKeeps DEF IInv, Keeps
<1> QED  BY <1>1, <1>2, <1>3, <1>4, CleanersKeepKeys DEF Next, IInv, Keeps

\* It holds for ever.
LEMMA StorageAlways == Spec => []IInv
<1>1. Init => IInv
  BY StorageInitially
<1>2. IInv /\ [Next]_vars => IInv'
  BY StorageInductive
<1> QED  BY <1>1, <1>2, PTL DEF Spec

----------------------------------------------------------------------------
\* The tables, the files and the calls keep their types.
THEOREM StorageTypeCorrect == Spec => []TypeOK
<1>1. IInv => TypeOK
  BY DEF IInv
<1> QED  BY <1>1, StorageAlways, PTL

\* Whatever dies, fails or comes late, bytes that this system wrote have an owner
\* or a reservation through which they can be found (_cleanup_unowned and
\* cleanup_expired_reservations never forget a row whose bytes may be there).
THEOREM BytesAlwaysTracked == Spec => []BytesAreTracked
<1>1. IInv => BytesAreTracked
  BY DEF IInv, KeyInvariant, RowKnowsBytes, HasBytes, BytesAreTracked
<1> QED  BY <1>1, StorageAlways, PTL

\* Every committed artifact has its bytes, with any number of uploads, files and
\* cleaners, however long the uploads take, if no cleaner dies while an upload is
\* past the 24 hours of its reservations.
THEOREM ArtifactsHaveBytes ==
    ASSUME ~OverdueDeaths
    PROVE  Spec => []ArtifactHasBytes
<1> DEFINE Stay == \A k \in Key : BytesStay(k)
<1>1. Init => IInv /\ Stay
  BY StorageInitially
<1>2. IInv /\ Stay /\ [Next]_vars => IInv' /\ Stay'
  BY StorageInductive DEF Keeps
<1>3. IInv /\ Stay => ArtifactHasBytes
  BY DEF IInv, TypeOK, BytesStay, ArtifactHasBytes
<1> HIDE DEF Stay
<1> QED  BY <1>1, <1>2, <1>3, PTL DEF Spec

\* No step touches bytes that somebody else left under a key.
LEMMA ForeignStays ==
    ASSUME IInv, [Next]_vars, NEW k \in Key, final[k] = "foreign"
    PROVE  final'[k] = "foreign"
<1>1. TypeOK /\ \A j \in Key : KeyInvariant(j)
  BY DEF IInv
<1>2. ASSUME NEW w \in Writer, CreateRevision(w), final' # final
      PROVE  final'[k] = "foreign"
  <2>1. CurrentKey(w) \in Key /\ CurrentKey(w)[1] = w /\ Here(CurrentKey(w))
    BY <1>1, CurrentKeyIsKey
  <2>2. CASE write_installs(w)
    BY <1>1, <1>2, <2>1, <2>2 DEF write_installs, TypeOK
  <2>3. CASE cleanup_deletes(w)
    <3>1. CurrentKey(w)[2] \in Of(CurrentKey(w)).owns_bytes
      BY <2>1, <2>3 DEF cleanup_deletes, DeletesBytes, Of, Here
    <3>2. final[CurrentKey(w)] # "foreign"
      BY <1>1, <2>1, <3>1 DEF KeyInvariant, CallKnowsBytes
    <3>3. final' = [final EXCEPT ![CurrentKey(w)] = "none"]
      BY <1>2, <2>3 DEF cleanup_deletes, DeleteBytes, fileVars
    <3> QED  BY <1>1, <2>1, <3>2, <3>3 DEF TypeOK
  <2> QED  BY <1>2, <2>2, <2>3 DEF CreateRevision, reserve, write_pending, write_fails,
        write_settles, mark_verified, record_failed_write, commit_revision_metadata,
        commit_refused, cleanup_unowned, cleanup_commits, writer_dies, rowVars, fileVars
<1>3. ASSUME NEW c \in Cleaner, CleanExpired(c), final' # final
      PROVE  final'[k] = "foreign"
  <2>1. PICK key \in Key : /\ Deletable(key)
                           /\ final' = [final EXCEPT ![key] = "none"]
    BY <1>3 DEF CleanExpired, cleaner_settles, cleaner_deletes, cleaner_commits, cleaner_dies,
         DeleteBytes, fileVars
  <2>2. final[key] # "foreign"
    BY <1>1, <2>1 DEF Deletable, KeyInvariant, RowKnowsBytes
  <2> QED  BY <1>1, <2>1, <2>2 DEF TypeOK
<1>4. ASSUME NEW j \in Key, expire(j)
      PROVE  final' = final
  BY <1>4 DEF expire, fileVars
<1> QED  BY <1>2, <1>3, <1>4 DEF Next, vars, fileVars

\* The link never replaces, and compensation and cleaners delete only what was
\* verified or what the call itself wrote.
THEOREM ForeignBytesUntouched == Spec => ForeignBytesKept
<1>1. IInv /\ [Next]_vars
        => [\A k \in Key : final[k] = "foreign" => final'[k] = "foreign"]_vars
  BY ForeignStays
<1> QED  BY <1>1, StorageAlways, PTL DEF Spec, ForeignBytesKept
=============================================================================
