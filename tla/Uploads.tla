------------------------------- MODULE Uploads -------------------------------
(***************************************************************************)
(* An upload request up to the moment its revision is created              *)
(* (portal/views.py project_upload, uploads.py stage_upload,               *)
(* core/uploads.py create_upload_revision).                                *)
(*                                                                         *)
(* The request's files become a manifest; then each file is copied, chunk  *)
(* by chunk and under limits, into a temporary file and validated; then    *)
(* the package is handed to create_complete_revision (RevisionStorage),    *)
(* which reads the temporaries again.  Requests run in threads of one      *)
(* process and share csv.field_size_limit, a global of Python's csv        *)
(* module, which every CSV parse sets for itself under a lock.             *)
(*                                                                         *)
(* What is in a file is abstracted to what decides: the size of a chunk,   *)
(* whether its text is in order (Markup), a reference in it, the magic     *)
(* prefix of a binary, the widest field of a CSV.                          *)
(*                                                                         *)
(* An operator named <definition>_<Slip> is the definition with a plausible *)
(* mistake in it.  No specification uses it: it shows that a property would *)
(* notice the mistake.                                                      *)
(***************************************************************************)
EXTENDS UploadPolicy

CONSTANTS Request, NoRequest,
          Forms,              \* what the requests' multipart forms may hold
          NoReference,
          MaxFiles, MaxFileBytes, MaxTotalBytes, MaxChunks, MaxFieldBytes,  \* UploadLimits
          DefaultFieldLimit   \* csv.field_size_limit() of a fresh process

\* What the inspection of a chunk's text may find (UploadIssueCode), apart from
\* what is wrong with its reference, and what _validate_csv may find apart from
\* the width of a field.
TextIssue == {"none", "invalid_utf8", "binary_content", "html_malformed",
              "html_too_complex", "external_dependency", "invalid_asset_reference"}
TableIssue == {"none", "invalid_utf8", "empty_file", "media_type_mismatch",
               "csv_malformed", "csv_too_many_rows", "csv_too_many_fields",
               "csv_record_too_large", "staging_error"}

AssetReference == [form : ReferenceForms,
                   key : [stem : Stem, extension : KnownExtension]]
FileChunk == [bytes : Nat, issue : TextIssue,
              reference : AssetReference \cup {NoReference},
              allowed : SUBSET UploadKind]
FilePart == [name : FileName, declared : [media_type : STRING, charset : STRING],
             chunks : Seq(FileChunk), unfinished : BOOLEAN, signature : STRING,
             widest : Nat, csv_issue : TableIssue]

\* The running totals of a sequence of sizes, and the whole.
Sums(sizes) == LET f[n \in 0..Len(sizes)] == IF n = 0 THEN 0 ELSE f[n - 1] + sizes[n]
               IN  f
Total(sizes) == Sums(sizes)[Len(sizes)]

ChunkSizes(part) == [k \in DOMAIN part.chunks |-> part.chunks[k].bytes]
BytesOf(part) == Total(ChunkSizes(part))

FormFields == {"package_files", "files", "html_file", "supporting_files", "csv_files"}

\* A field, which is counted in characters, is never wider than its file.
ASSUME UploadsAssumption ==
    /\ NoRequest \notin Request
    /\ MaxFiles \in Nat \ {0} /\ MaxChunks \in Nat \ {0} /\ MaxFieldBytes \in Nat \ {0}
    /\ MaxFileBytes \in Nat /\ MaxTotalBytes \in Nat
    /\ DefaultFieldLimit \in Nat
    /\ \A form \in Forms, field \in FormFields :
          /\ form[field] \in Seq(FilePart)
          /\ \A i \in DOMAIN form[field] :
                form[field][i].widest <= BytesOf(form[field][i])

VARIABLES
    parts,            \* per request: the files of the package, in order
    phase,            \* per request: what it does next
    entry,            \* per request: the file that is staged
    chunk_count, byte_size, total_size,   \* per request: read of it, and of all
    temporaries,      \* per request: the files whose temporary is open
    outcome,          \* per request: "none", an issue, "revision", "not_stored"
    field_limit,      \* csv.field_size_limit
    limit_holder,     \* who holds _CSV_FIELD_LIMIT_LOCK
    previous_limit    \* per request: the limit it will restore

staging == <<parts, entry, chunk_count, byte_size, total_size>>
limitVars == <<field_limit, limit_holder, previous_limit>>
uploadVars == <<staging, phase, temporaries, outcome, limitVars>>

UploadInit == /\ parts = [r \in Request |-> <<>>]
              /\ phase = [r \in Request |-> "idle"]
              /\ entry = [r \in Request |-> 1]
              /\ chunk_count = [r \in Request |-> 0]
              /\ byte_size = [r \in Request |-> 0]
              /\ total_size = [r \in Request |-> 0]
              /\ temporaries = [r \in Request |-> {}]
              /\ outcome = [r \in Request |-> "none"]
              /\ field_limit = DefaultFieldLimit
              /\ limit_holder = NoRequest
              /\ previous_limit = [r \in Request |-> DefaultFieldLimit]

Goes(r, next) == phase' = [phase EXCEPT ![r] = next]

\* A rejection unwinds _stage_entry, which closes its own temporary, and then
\* stage_upload, which closes those it has staged.
Refuse_LeavesStaged(r, issue) ==
    /\ Goes(r, "done")
    /\ outcome' = [outcome EXCEPT ![r] = issue]
    /\ temporaries' = [temporaries EXCEPT ![r] = @ \ {entry[r]}]
Refuse(r, issue) == /\ Goes(r, "done")
                    /\ outcome' = [outcome EXCEPT ![r] = issue]
                    /\ temporaries' = [temporaries EXCEPT ![r] = {}]

----------------------------------------------------------------------------
(* The manifest.                                                            *)

Filled(form, fields) == \E f \in fields : form[f] # <<>>

\* _request_upload_parts: the present field, or one of the former shapes, unmixed.
FormIssue(form) ==
    IF form.unknown THEN "malformed_multipart"
    ELSE IF form.package_files # <<>>
    THEN IF Filled(form, FormFields \ {"package_files"}) THEN "malformed_multipart"
                                                         ELSE "none"
    ELSE IF form.files # <<>>
    THEN IF Filled(form, {"html_file", "supporting_files", "csv_files"})
         THEN "malformed_multipart" ELSE "none"
    ELSE IF form.html_file = <<>> THEN "missing_html"
    ELSE IF Len(form.html_file) > 1 THEN "multiple_html"
    ELSE IF form.supporting_files # <<>> /\ form.csv_files # <<>> THEN "malformed_multipart"
    ELSE "none"

\* At most one of the five is filled then, or html_file and one more.
FormParts(form) == form.package_files \o form.files \o form.html_file
                       \o form.supporting_files \o form.csv_files

post(r, form) == /\ phase[r] = "idle"
                 /\ IF FormIssue(form) # "none"
                    THEN Refuse(r, FormIssue(form)) /\ UNCHANGED parts
                    ELSE /\ parts' = [parts EXCEPT ![r] = FormParts(form)]
                         /\ Goes(r, "manifest")
                         /\ UNCHANGED <<temporaries, outcome>>
                 /\ UNCHANGED <<entry, chunk_count, byte_size, total_size, limitVars>>

PartIssue(ps, i) ==
    IF i > MaxFiles THEN "too_many_files"
    ELSE IF ps[i].name.stem = "reserved" THEN "invalid_filename"
    ELSE IF ~WellNamed(ps[i].name) THEN "extension_mismatch"
    ELSE IF ~DeclarationAgrees(ps[i].declared, ps[i].name) THEN "media_type_mismatch"
    ELSE IF \E j \in 1..(i - 1) : ComparisonKey(ps[j].name) = ComparisonKey(ps[i].name)
    THEN "duplicate_filename"
    ELSE "none"

HtmlParts(ps) == {i \in DOMAIN ps : KindOf(ps[i].name) = "html"}

\* _build_manifest: the first part that is wrong, or the number of HTML files.
ManifestIssue(ps) ==
    LET wrong == {i \in DOMAIN ps : PartIssue(ps, i) # "none"} IN
    IF wrong # {}
    THEN PartIssue(ps, CHOOSE i \in wrong : \A j \in wrong : i <= j)
    ELSE CASE Cardinality(HtmlParts(ps)) = 0 -> "missing_html"
           [] Cardinality(HtmlParts(ps)) > 1 -> "multiple_html"
           [] OTHER -> "none"

build_manifest(r) ==
    /\ phase[r] = "manifest"
    /\ IF ManifestIssue(parts[r]) # "none" THEN Refuse(r, ManifestIssue(parts[r]))
       ELSE Goes(r, "open") /\ UNCHANGED <<temporaries, outcome>>
    /\ UNCHANGED <<staging, limitVars>>

----------------------------------------------------------------------------
(* Staging one file after the other.                                        *)

Part(r) == parts[r][entry[r]]
Kind(r) == KindOf(Part(r).name)

\* The references of every file are resolved against the whole manifest.
KnownKinds_StagedSoFar(r) ==
    [key \in {ComparisonKey(parts[r][i].name) : i \in 1..entry[r]} |->
        UPLOAD_EXTENSION_TO_KIND[key.extension]]
KnownKinds(r) ==
    [key \in {ComparisonKey(parts[r][i].name) : i \in DOMAIN parts[r]} |->
        UPLOAD_EXTENSION_TO_KIND[key.extension]]

open_temporary(r) ==
    /\ phase[r] = "open"
    /\ temporaries' = [temporaries EXCEPT ![r] = @ \cup {entry[r]}]
    /\ Goes(r, "read")
    /\ UNCHANGED <<staging, outcome, limitVars>>

\* The temporary cannot be opened or written, or the source fails.
staging_fails(r, issue) == /\ \/ phase[r] = "open" /\ issue = "staging_error"
                              \/ phase[r] = "read"
                           /\ Refuse(r, issue)
                           /\ UNCHANGED <<staging, limitVars>>

NextChunk(r) == Part(r).chunks[chunk_count[r] + 1]

\* The order of the checks in _stage_entry.
ChunkIssue(r) ==
    LET chunk == NextChunk(r) IN
    IF chunk_count[r] + 1 > MaxChunks THEN "too_many_chunks"
    ELSE IF byte_size[r] + chunk.bytes > MaxFileBytes THEN "file_too_large"
    ELSE IF total_size[r] + chunk.bytes > MaxTotalBytes THEN "total_too_large"
    ELSE IF Kind(r) \in TextKinds /\ chunk.issue # "none" THEN chunk.issue
    ELSE IF Kind(r) \in {"html", "css"} /\ chunk.reference # NoReference
    THEN LET found == ResolveAssetReference(chunk.reference, KnownKinds(r), chunk.allowed)
         IN  IF found = "ok" THEN "none" ELSE found
    ELSE "none"

read_chunk(r) ==
    /\ phase[r] = "read"
    /\ chunk_count[r] < Len(Part(r).chunks)
    /\ IF ChunkIssue(r) # "none"
       THEN Refuse(r, ChunkIssue(r)) /\ UNCHANGED staging
       ELSE /\ chunk_count' = [chunk_count EXCEPT ![r] = @ + 1]
            /\ byte_size' = [byte_size EXCEPT ![r] = @ + NextChunk(r).bytes]
            /\ total_size' = [total_size EXCEPT ![r] = @ + NextChunk(r).bytes]
            /\ UNCHANGED <<parts, phase, entry, temporaries, outcome>>
    /\ UNCHANGED limitVars

\* The next file, or the package is staged.
StagesNext_CountsAnew(r) ==
    /\ Goes(r, IF entry[r] < Len(parts[r]) THEN "open" ELSE "staged")
    /\ entry' = [entry EXCEPT ![r] = IF @ < Len(parts[r]) THEN @ + 1 ELSE @]
    /\ chunk_count' = [chunk_count EXCEPT ![r] = 0]
    /\ byte_size' = [byte_size EXCEPT ![r] = 0]
    /\ total_size' = [total_size EXCEPT ![r] = 0]
    /\ UNCHANGED <<parts, temporaries, outcome>>
StagesNext(r) ==
    /\ Goes(r, IF entry[r] < Len(parts[r]) THEN "open" ELSE "staged")
    /\ entry' = [entry EXCEPT ![r] = IF @ < Len(parts[r]) THEN @ + 1 ELSE @]
    /\ chunk_count' = [chunk_count EXCEPT ![r] = 0]
    /\ byte_size' = [byte_size EXCEPT ![r] = 0]
    /\ UNCHANGED <<parts, total_size, temporaries, outcome>>

\* The end of the stream: a document that is unfinished, _validate_binary_signature.
EndIssue(r) ==
    IF byte_size[r] = 0 THEN "empty_file"
    ELSE IF Kind(r) \in {"html", "css"} /\ Part(r).unfinished THEN "html_malformed"
    ELSE IF Kind(r) \notin TextKinds /\ Part(r).signature # MediaTypeOf(Part(r).name)
    THEN "media_type_mismatch"
    ELSE "none"

finish_stream(r) ==
    /\ phase[r] = "read"
    /\ chunk_count[r] = Len(Part(r).chunks)
    /\ IF EndIssue(r) # "none" THEN Refuse(r, EndIssue(r)) /\ UNCHANGED staging
       ELSE IF Kind(r) = "csv"
       THEN Goes(r, "limit") /\ UNCHANGED <<staging, temporaries, outcome>>
       ELSE StagesNext(r)
    /\ UNCHANGED limitVars

\* _validate_csv.
OwnFieldLimit == IF MaxFileBytes > MaxFieldBytes THEN MaxFileBytes ELSE MaxFieldBytes

LimitIsFree_Unlocked == TRUE
LimitIsFree == limit_holder = NoRequest

set_field_limit(r) == /\ phase[r] = "limit"
                      /\ LimitIsFree
                      /\ limit_holder' = r
                      /\ previous_limit' = [previous_limit EXCEPT ![r] = field_limit]
                      /\ field_limit' = OwnFieldLimit
                      /\ Goes(r, "parse")
                      /\ UNCHANGED <<staging, temporaries, outcome>>

\* csv.reader fails on a field that exceeds the limit, whoever has set it.
CsvIssue(r) == IF Part(r).widest > field_limit THEN "csv_malformed"
               ELSE IF Part(r).widest > MaxFieldBytes THEN "csv_field_too_large"
               ELSE Part(r).csv_issue

parse_csv(r) ==
    /\ phase[r] = "parse"
    /\ field_limit' = previous_limit[r]
    /\ limit_holder' = NoRequest
    /\ IF CsvIssue(r) # "none" THEN Refuse(r, CsvIssue(r)) /\ UNCHANGED staging
                               ELSE StagesNext(r)
    /\ UNCHANGED previous_limit

----------------------------------------------------------------------------
\* create_complete_revision reads the temporaries; they are closed whatever it does.
create_upload_revision(r, result) ==
    /\ phase[r] = "staged"
    /\ result \in {"revision", "not_stored"}
    /\ Refuse(r, result)
    /\ UNCHANGED <<staging, limitVars>>

UploadStep(r) == \/ \E form \in Forms : post(r, form)
                 \/ build_manifest(r)
                 \/ open_temporary(r)
                 \/ \E issue \in {"staging_error", "stream_error"} : staging_fails(r, issue)
                 \/ read_chunk(r)
                 \/ finish_stream(r)
                 \/ set_field_limit(r)
                 \/ parse_csv(r)
                 \/ \E result \in {"revision", "not_stored"} :
                       create_upload_revision(r, result)

UploadNext == \E r \in Request : UploadStep(r)

UploadSpec == UploadInit /\ [][UploadNext]_uploadVars

----------------------------------------------------------------------------
\* A request that is over, in whatever way, has left no temporary file open, and
\* one whose package is staged still has all of them for the storage to read.
NoStrayTemporary ==
    \A r \in Request :
        /\ phase[r] = "done" => temporaries[r] = {}
        /\ phase[r] = "staged" => temporaries[r] = DOMAIN parts[r]

FileSizes(ps) == [i \in DOMAIN ps |-> BytesOf(ps[i])]
PackageBytes(ps) == Total(FileSizes(ps))

\* A package that becomes a revision has one HTML file and distinct names, no
\* file of it is empty, and no limit is exceeded: neither of a file nor of all
\* of them together, which are counted while they stream.
PackageWithinLimits ==
    \A r \in Request :
        phase[r] = "staged" \/ outcome[r] = "revision" =>
            /\ Cardinality(HtmlParts(parts[r])) = 1
            /\ Len(parts[r]) <= MaxFiles
            /\ PackageBytes(parts[r]) <= MaxTotalBytes
            /\ \A i, j \in DOMAIN parts[r] :
                  /\ BytesOf(parts[r][i]) \in 1..MaxFileBytes
                  /\ i # j => ComparisonKey(parts[r][i].name) # ComparisonKey(parts[r][j].name)

References(ps) == UNION {{ps[i].chunks[k] : k \in DOMAIN ps[i].chunks} :
                            i \in {j \in DOMAIN ps : KindOf(ps[j].name) \in {"html", "css"}}}
Names(ps, key) == {i \in DOMAIN ps : ComparisonKey(ps[i].name) = key}

\* A package is refused for a missing file only if the file is missing, wherever
\* in the upload it comes, and every file that an accepted one refers to is in it
\* and of a kind the place allows.
ReferencesAreDecided ==
    \A r \in Request :
        LET locals == {c \in References(parts[r]) : /\ c.reference # NoReference
                                                    /\ c.reference.form = "local"}
        IN  /\ phase[r] = "staged" \/ outcome[r] = "revision" =>
                 \A c \in locals : \E i \in Names(parts[r], c.reference.key) :
                                      KindOf(parts[r][i].name) \in c.allowed
            /\ outcome[r] \in MissingIssues =>
                 \E c \in locals : Names(parts[r], c.reference.key) = {}

\* Every parse runs under its own field limit, and the process has its old one
\* back when nobody parses: an oversized field is reported as that and a field
\* within the limits never fails for what another request does.
FieldLimitIsOwn ==
    /\ limit_holder = NoRequest => field_limit = DefaultFieldLimit
    /\ \A r \in Request :
          /\ phase[r] = "parse" => field_limit = OwnFieldLimit /\ limit_holder = r
          /\ outcome[r] = "csv_malformed" =>
                \E i \in DOMAIN parts[r] : parts[r][i].csv_issue = "csv_malformed"
=============================================================================
