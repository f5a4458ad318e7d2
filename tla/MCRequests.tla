------------------------------ MODULE MCRequests ------------------------------
(***************************************************************************)
(* Uploads, Markup and Pagination for TLC.  They share no variable, so the  *)
(* run explores the upload requests, the documents and the walks through a  *)
(* list one beside the other and not in product.                           *)
(***************************************************************************)
EXTENDS Uploads, Markup, Pagination, TLC

Named(stem, extension) == [stem |-> stem, inner |-> NoExtension,
                           extension |-> extension, spelling |-> "lower"]
Key(stem, extension) == [stem |-> stem, extension |-> extension]
Local(key) == [form |-> "local", key |-> key]

Chunk(n) == [bytes |-> n, issue |-> "none", reference |-> NoReference, allowed |-> {}]
Using(n, key, kinds) == [Chunk(n) EXCEPT !.reference = Local(key), !.allowed = kinds]

File(name, chunks) == [name |-> name, declared |-> Undeclared, chunks |-> chunks,
                       unfinished |-> FALSE, signature |-> MediaTypeOf(name),
                       widest |-> 1, csv_issue |-> "none"]

Page == File(Named("a", "html"), <<Chunk(1)>>)
Framing(key) == [Page EXCEPT !.chunks = <<Chunk(1), Using(1, key, {"img"})>>]
Fetching(key) == [Page EXCEPT !.chunks = <<Using(1, key, {"csv"})>>]
Chart == File(Named("a", "png"), <<Chunk(1), Chunk(1)>>)
Table == [File(Named("a", "csv"), <<Chunk(2)>>) EXCEPT !.widest = 2]
Sheet == File(Named("a", "css"), <<Using(1, Key("a", "png"), CssKinds)>>)
Respelt(part) == [part EXCEPT !.name.spelling = "upper"]

Packages ==
    {<<Framing(Key("a", "png")), Chart>>, <<Chart, Framing(Key("a", "png"))>>,
     <<Framing(Key("b", "png")), Chart>>, <<Framing(Key("a", "csv")), Table>>,
     <<Fetching(Key("a", "csv")), Table>>, <<Table, Fetching(Key("b", "csv"))>>,
     <<Fetching(Key("a", "png")), Chart>>, <<Sheet, Page, Chart>>, <<Table, Page, Chart>>, <<Page, Table>>,
     <<Page, [Table EXCEPT !.chunks = <<Chunk(3)>>, !.widest = 3]>>,
     <<Page, [Table EXCEPT !.csv_issue = "csv_malformed"]>>,
     <<Page, Table, [Table EXCEPT !.name.stem = "b"]>>,
     <<Page, [Chart EXCEPT !.chunks = <<Chunk(4)>>]>>,
     <<[Page EXCEPT !.chunks = <<Chunk(2)>>], Chart, Table>>,
     <<Page, [Chart EXCEPT !.chunks = <<>>, !.widest = 0]>>,
     <<Page, [Chart EXCEPT !.chunks = <<Chunk(1), Chunk(0), Chunk(1)>>]>>,
     <<Chart, [Page EXCEPT !.unfinished = TRUE]>>,
     <<Chart, [Page EXCEPT !.chunks[1].issue = "invalid_utf8"]>>,
     <<Page, [Chart EXCEPT !.signature = "image/gif"]>>,
     <<Page, Page>>, <<Page, [Page EXCEPT !.name.stem = "b"]>>, <<Chart>>,
     <<Page, Chart, Respelt(Chart)>>, <<Page, Chart, Table, Sheet>>,
     <<Page, [Chart EXCEPT !.name.stem = "reserved"]>>,
     <<Page, [Chart EXCEPT !.name.inner = "html"]>>,
     <<Page, [Chart EXCEPT !.name.extension = "exe"]>>,
     <<Page, [Chart EXCEPT !.declared = [media_type |-> "text/html", charset |-> "absent"]]>>,
     <<Page, [Chart EXCEPT !.declared = [media_type |-> "image/png", charset |-> "utf-8"]]>>,
     <<Page, [Table EXCEPT !.declared = [media_type |-> "text/csv", charset |-> "utf-8"]]>>}

NoFiles == [unknown |-> FALSE, package_files |-> <<>>, files |-> <<>>, html_file |-> <<>>,
            supporting_files |-> <<>>, csv_files |-> <<>>]

\* Every package in the present shape, and one of them in every other shape.
MCForms ==
    {[NoFiles EXCEPT !.package_files = p] : p \in Packages}
        \cup {[NoFiles EXCEPT !.files = <<Page, Table>>],
              [NoFiles EXCEPT !.package_files = <<Page>>, !.csv_files = <<Table>>],
              [NoFiles EXCEPT !.files = <<Page>>, !.csv_files = <<Table>>],
              [NoFiles EXCEPT !.html_file = <<Page>>, !.csv_files = <<Table>>],
              [NoFiles EXCEPT !.html_file = <<Page>>, !.supporting_files = <<Table>>],
              [NoFiles EXCEPT !.html_file = <<Page>>, !.supporting_files = <<Table>>,
                              !.csv_files = <<Table>>],
              [NoFiles EXCEPT !.html_file = <<Page, Page>>],
              [NoFiles EXCEPT !.unknown = TRUE], NoFiles}

MCArtifactKinds == [key \in {Key("a", "png"), Key("a", "csv")} |->
                       UPLOAD_EXTENSION_TO_KIND[key.extension]]
MCReference == {Local(Key("a", "png")), Local(Key("b", "png"))}

\* The list as it is while the others move.
NobodyReads == table = {} /\ stable /\ page.items = {} /\ walk.from = NoRow
NobodyUploads == language = "none" /\ phase = [r \in Request |-> "idle"]

RequestsInit == UploadInit /\ MarkupInit /\ Init
RequestsNext ==
    \/ NobodyReads /\ language = "none" /\ UploadNext /\ UNCHANGED <<markupVars, vars>>
    \/ /\ NobodyReads /\ phase = [r \in Request |-> "idle"]
       /\ MarkupNext /\ UNCHANGED <<uploadVars, vars>>
    \/ NobodyUploads /\ Next /\ UNCHANGED <<uploadVars, markupVars>>

RequestsSpec == RequestsInit /\ [][RequestsNext]_<<uploadVars, markupVars, vars>>

Symmetry == Permutations(Request)
=============================================================================
