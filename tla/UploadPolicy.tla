---------------------------- MODULE UploadPolicy ----------------------------
(***************************************************************************)
(* What a dashboard package may contain (uploads.py, core/names.py): the   *)
(* kinds of files and their names and media types, and the references that *)
(* one file of a package may make to another.                              *)
(*                                                                         *)
(* A file name is abstracted to the parts that are looked at: a stem, a    *)
(* known extension in the middle (or NoExtension), the final extension,    *)
(* and how it is spelt, which its comparison key ignores.  A reference in  *)
(* the text of a file is abstracted to its form and the key it decodes to. *)
(***************************************************************************)
EXTENDS Naturals, FiniteSets, Sequences

CONSTANTS Stem, Spelling

NoExtension == "none"

UPLOAD_EXTENSION_TO_KIND ==
    [html |-> "html", csv |-> "csv", css |-> "css", png |-> "img", jpg |-> "img",
     jpeg |-> "img", gif |-> "img", webp |-> "img", woff |-> "font", woff2 |-> "font"]

UPLOAD_EXTENSION_TO_MEDIA_TYPE ==
    [html |-> "text/html", csv |-> "text/csv", css |-> "text/css", png |-> "image/png",
     jpg |-> "image/jpeg", jpeg |-> "image/jpeg", gif |-> "image/gif",
     webp |-> "image/webp", woff |-> "font/woff", woff2 |-> "font/woff2"]

KnownExtension == DOMAIN UPLOAD_EXTENSION_TO_KIND
UploadKind == {"html", "csv", "css", "img", "font"}
TextKinds == {"html", "csv", "css"}
SupportingKinds == {"csv", "css", "img", "font"}

\* A stem "reserved" stands for what normalize_logical_name refuses.
FileName == [stem : Stem \cup {"reserved"}, inner : KnownExtension \cup {NoExtension},
             extension : KnownExtension \cup {NoExtension, "exe"}, spelling : Spelling]

\* Two spellings of one name (case, compatibility characters) share their key.
ComparisonKey(name) == [stem |-> name.stem, extension |-> name.extension]

\* normalize_logical_name and _classify_filename: one known extension, at the end.
WellNamed(name) == /\ name.stem # "reserved"
                   /\ name.inner = NoExtension
                   /\ name.extension \in KnownExtension

KindOf(name) == UPLOAD_EXTENSION_TO_KIND[name.extension]
MediaTypeOf(name) == UPLOAD_EXTENSION_TO_MEDIA_TYPE[name.extension]

DeclaredAliases(kind) ==
    CASE kind = "csv" -> {"application/vnd.ms-excel"}
      [] kind = "img" -> {"application/octet-stream"}
      [] kind = "font" -> {"application/octet-stream", "application/font-woff"}
      [] OTHER -> {}

\* _validate_declared_media_type: none at all, or the one the extension stands for;
\* only text may carry a parameter, and only charset=utf-8.
Undeclared == [media_type |-> "absent", charset |-> "absent"]
DeclarationAgrees(declared, name) ==
    \/ declared = Undeclared
    \/ /\ declared.media_type \in {MediaTypeOf(name)} \cup DeclaredAliases(KindOf(name))
       /\ \/ declared.charset = "absent"
          \/ declared.charset = "utf-8" /\ KindOf(name) \in TextKinds

----------------------------------------------------------------------------
\* References.  A local one decodes to a comparison key; the other forms are
\* an external URL, a fragment, data: and blob: URLs, and everything the
\* resolution refuses (absolute paths, queries, bad escapes, empty).
ReferenceForms == {"local", "external", "fragment", "data_image", "data_font", "blob",
                   "malformed"}

\* _allowed_attribute_kinds, and the kinds a link's rel asks for.
AllowedAttributeKinds(tag, attribute) ==
    CASE attribute = "href" /\ tag \in {"a", "area"} -> SupportingKinds
      [] attribute \in {"background", "poster"} -> {"img"}
      [] attribute = "src" /\ tag \in {"img", "source"} -> {"img"}
      [] attribute = "href" /\ tag = "link_stylesheet" -> {"css"}
      [] attribute = "href" /\ tag = "link_icon" -> {"img"}
      [] OTHER -> {}

CssKinds == {"img", "font"}

MissingIssues == {"missing_asset_reference", "missing_csv_reference"}

\* _resolve_asset_reference against the kinds of the files in the package: the
\* issue it raises, or "ok".  Where only a table may stand, as in the fetch of a
\* script, it has codes of its own and wants a name that ends as one.
ResolveAssetReference(reference, artifact_kinds, allowed) ==
    LET csv == allowed = {"csv"}
        invalid == IF csv THEN "invalid_csv_reference" ELSE "invalid_asset_reference"
        missing == IF csv THEN "missing_csv_reference" ELSE "missing_asset_reference" IN
    IF reference.form \in {"external", "data_image", "data_font", "blob"}
    THEN "external_dependency"
    ELSE IF reference.form # "local" \/ (csv /\ reference.key.extension # "csv") THEN invalid
    ELSE IF reference.key \notin DOMAIN artifact_kinds THEN missing
    ELSE IF artifact_kinds[reference.key] \notin allowed THEN invalid
    ELSE "ok"

\* _inspect_url_attribute: a fragment only where a link jumps, data: and blob: only
\* where a file could stand.
NeedsNoFile(reference, tag, attribute, allowed) ==
    \/ reference.form = "fragment" /\ attribute = "href" /\ tag \in {"a", "area"}
    \/ reference.form = "data_image" /\ "img" \in allowed
    \/ reference.form = "data_font" /\ "font" \in allowed
    \/ reference.form = "blob" /\ allowed # {}

InspectUrlAttribute(reference, tag, attribute, artifact_kinds) ==
    LET allowed == AllowedAttributeKinds(tag, attribute) IN
    IF NeedsNoFile(reference, tag, attribute, allowed) THEN "ok"
    ELSE ResolveAssetReference(reference, artifact_kinds, allowed)
=============================================================================
