------------------------------ MODULE Detector ------------------------------
(***************************************************************************)
(* Detector.detect: Magika's label for a file, corrected in turn by        *)
(* libmagic, by the mimetype member of an ODF package, by the sniff for    *)
(* MIME markers and by the first bytes, and then the decision: accept what *)
(* the content says, accept what the extension says, or reject.            *)
(*                                                                         *)
(* What can be read from a file, other than Magika's and libmagic's        *)
(* opinions of it, is a function of its body and of its first 8 KB.        *)
(***************************************************************************)
EXTENDS FiniteSets, Naturals

CONSTANTS
    RawLabels,    \* what Magika may call a file
    Extensions,   \* what its name may end with; "" for nothing
    Opinions,     \* the labels libmagic's MIME type may stand for; Silent
    Silent,       \* no label: an exception, or no pattern of the table
    Bodies        \* names of the kinds of file below

ASSUME DetectorAssumption ==
    /\ Silent \in Opinions
    /\ Bodies \subseteq {"flat", "word", "slides", "sheets", "mixed", "bomb", "drawing", "zip",
                        "entities"}

VARIABLES
    det,        \* where detect() stands
    file,       \* the file: its body, first bytes, extension, text MIME type
    raw,        \* raw_magika_label
    label,      \* magika_label, as corrected so far
    verdict     \* what detect() returned: the label and what it rests on

detVars == <<det, file, raw, label, verdict>>

OoxmlLabels == {"docx", "xlsx", "pptx"}
OdfLabels == {"odt", "ods", "odp", "odg"}
OleLabels == {"doc", "xls", "ppt"}

\* _OFFICE_LABELS, _SUPPORTED_MAGIKA, _GENERIC_LABELS.
OfficeLabels == OoxmlLabels \cup OleLabels \cup {"rtf", "txt", "csv"}
Supported ==
    OfficeLabels \cup OdfLabels \cup {"markdown", "xps", "oxps", "xlsb", "mht"}
Generic == {"zip", "xml"}

\* _LIBMAGIC_MIME_PATTERNS stands for office labels only.
ASSUME OpinionAssumption == Opinions \ {Silent} \subseteq OfficeLabels

\* _EXT_ALLOWLIST, by canonical label.
ExtensionsOf ==
    [docx |-> {"docx", "docm", "dotx", "dotm"},
     xlsx |-> {"xlsx", "xlsm", "xltx", "xltm", "xlam"},
     pptx |-> {"pptx", "pptm", "ppsx", "ppsm", "potx", "potm", "ppam"},
     doc  |-> {"doc", "dot"}, xls |-> {"xls", "xlt", "xla"},
     ppt  |-> {"ppt", "pps", "pot", "ppa"}, xlsb |-> {"xlsb"},
     odt  |-> {"odt", "ott", "fodt"}, ods |-> {"ods", "ots", "fods"},
     odp  |-> {"odp", "otp", "fodp"}, odg |-> {"odg", "otg", "fodg"},
     rtf  |-> {"rtf"}, txt |-> {"txt", "html", "htm"}, csv |-> {"csv"},
     md   |-> {"md", "markdown"}, xps |-> {"xps"}, oxps |-> {"oxps"},
     mht  |-> {"mht", "mhtml"}]

Allowed(ext) == \E c \in DOMAIN ExtensionsOf : ext \in ExtensionsOf[c]
CanonicalOf(ext) == CHOOSE c \in DOMAIN ExtensionsOf : ext \in ExtensionsOf[c]
Canonical(l) == IF l = "markdown" THEN "md" ELSE l

File == [body : Bodies, head : {"mime", "{\\rt", "other", "empty"},
         ext : Extensions, textMime : BOOLEAN]

NoVerdict == [label |-> "none", source |-> "none", agreed |-> FALSE, warnings |-> {}]

DetTypeOK ==
    /\ det \in {"idle", "identify", "office", "odf", "mht", "structure", "bytes",
                "decide", "accepted", "rejected", "forgotten"}
    /\ file \in File
    /\ raw \in RawLabels \cup {Silent}
    /\ label \in RawLabels \cup Supported \cup {Silent}
    /\ verdict.label \in DOMAIN ExtensionsOf \cup {"none"}

\* An empty file has no first bytes and no body to speak of.
DetInit ==
    /\ det = "idle"
    /\ file \in {f \in File : f.head = "empty" => f.body = "flat"}
    /\ raw = Silent /\ label = Silent
    /\ verdict = NoVerdict

DetGoto(pc) == det' = pc /\ UNCHANGED <<file, raw>>

-----------------------------------------------------------------------------
(* What the file says.                                                     *)

IsZip == file.body \in {"word", "slides", "sheets", "mixed", "bomb", "drawing", "zip"}

\* _looks_like_ooxml: the marker is there, the entries are few, the ratio low.
LooksLikeOoxml == file.body \in {"word", "slides", "sheets", "mixed"}

\* _looks_like_safe_xml
LooksLikeSafeXml == file.body # "entities"

\* The zip directory, when libmagic has no opinion.
DirectoryLabel ==
    CASE file.body = "word" -> "docx"
      [] file.body = "sheets" -> "xlsx"
      [] file.body \in {"slides", "bomb"} -> "pptx"
      [] OTHER -> label

\* _correct_odf_label_via_mimetype
OdfMimetypeLabel == IF file.body = "drawing" THEN "odg" ELSE label

NotEmpty == file.head # "empty"

-----------------------------------------------------------------------------
(* The corrections, in the order of detect().                              *)

TooLarge ==
    /\ det = "idle"
    /\ DetGoto("rejected")
    /\ UNCHANGED <<label, verdict>>

Identify ==
    /\ det = "idle"
    /\ raw' \in RawLabels /\ label' = raw'
    /\ det' = "office"
    /\ UNCHANGED <<file, verdict>>

\* _correct_office_label_via_libmagic
CorrectOffice(opinion) ==
    /\ det = "office"
    /\ label' = IF label \notin OfficeLabels \/ ~NotEmpty THEN label
                ELSE IF opinion # Silent THEN opinion
                ELSE IF label \in OoxmlLabels THEN DirectoryLabel ELSE label
    /\ DetGoto("odf")
    /\ UNCHANGED verdict

CorrectOdf ==
    /\ det = "odf"
    /\ label' = IF label \in OdfLabels /\ NotEmpty THEN OdfMimetypeLabel ELSE label
    /\ DetGoto("mht")
    /\ UNCHANGED verdict

\* The mutated forms of the definitions below stand before them.
\* _looks_like_mht overrides every label.
SniffMht ==
    /\ det = "mht"
    /\ label' = IF file.head = "mime" THEN "mht" ELSE label
    /\ DetGoto("structure")
    /\ UNCHANGED verdict

\* _check_ole_content and _check_ooxml_content never change the label.
CheckStructure(found) ==
    /\ det = "structure"
    /\ found => label \in OleLabels \cup OoxmlLabels /\ NotEmpty
    /\ verdict' = [verdict EXCEPT !.warnings = IF found THEN {"structural"} ELSE {}]
    /\ DetGoto("bytes")
    /\ UNCHANGED label

NoByteCheck ==
    /\ det = "bytes"
    /\ DetGoto("decide")
    /\ UNCHANGED <<label, verdict>>

\* _detect_by_magic_bytes, for a label that is not supported.
CheckBytes ==
    /\ det = "bytes"
    /\ label' = IF label \notin Supported /\ file.head = "{\\rt" THEN "rtf" ELSE label
    /\ DetGoto("decide")
    /\ UNCHANGED verdict

-----------------------------------------------------------------------------
(* The decision.                                                           *)

Accept(as, source, agreed, warnings) ==
    /\ verdict' = [label |-> as, source |-> source, agreed |-> agreed,
                   warnings |-> warnings]
    /\ DetGoto("accepted")
    /\ UNCHANGED label

Reject == DetGoto("rejected") /\ UNCHANGED <<label, verdict>>

ExtensionAgrees ==
    \/ file.ext = Canonical(label)
    \/ Allowed(file.ext) /\ CanonicalOf(file.ext) = Canonical(label)

RawGate == raw \in OoxmlLabels => LooksLikeOoxml

\* The label's own gate: a package is opened only if it looks like one.
PassesGate == label \in OoxmlLabels => LooksLikeOoxml

DecideSupported ==
    /\ det = "decide" /\ label \in Supported
    /\ IF PassesGate
       THEN Accept(Canonical(label), "magika", ExtensionAgrees, verdict.warnings)
       ELSE Reject

GenericIsSound ==
    /\ label = "zip" => LooksLikeOoxml
    /\ label = "xml" => LooksLikeSafeXml

DecideGeneric ==
    /\ det = "decide" /\ label \in Generic
    /\ IF Allowed(file.ext) /\ GenericIsSound
       THEN Accept(CanonicalOf(file.ext), "extension", TRUE, {"generic"})
       ELSE Reject

\* Without a label the extension decides, but a zip passes the same gate.
DecideUnknown ==
    /\ det = "decide" /\ label = "unknown"
    /\ IF Allowed(file.ext) /\ (CanonicalOf(file.ext) \in OoxmlLabels /\ IsZip => LooksLikeOoxml)
       THEN Accept(CanonicalOf(file.ext), "extension", TRUE, {"unrecognized"})
       ELSE Reject

DecideOther ==
    /\ det = "decide" /\ label \notin Supported \cup Generic \cup {"unknown"}
    /\ IF file.textMime
       THEN Accept("txt", "magika", file.ext = "txt", {"as_text"})
       ELSE Reject

DetNext ==
    \/ TooLarge \/ Identify
    \/ \E o \in Opinions : CorrectOffice(o)
    \/ CorrectOdf \/ SniffMht
    \/ \E found \in BOOLEAN : CheckStructure(found)
    \/ CheckBytes
    \/ DecideSupported \/ DecideGeneric \/ DecideUnknown \/ DecideOther

DetSpec == DetInit /\ [][DetNext]_detVars

-----------------------------------------------------------------------------
(* Properties.                                                             *)

\* Through four corrections and three ways to accept, a zip that ends as
\* docx, xlsx or pptx has passed the structural gate, whichever label it came
\* in with; the one way around it is Magika's "xml", which counts entities
\* instead.
PackagesPassTheGate ==
    det = "accepted" /\ verdict.label \in OoxmlLabels /\ IsZip /\ label # "xml" =>
        LooksLikeOoxml

\* Single-file web pages go to the unpacker however Magika, libmagic and the
\* extension call them: the sniff is never undone or rejected.  And what the
\* content says wins over the name: a file is taken for what its extension says
\* only when Magika had no better than a container or nothing to say, no later
\* check did either, and a warning goes with it.
ContentOverName ==
    /\ det \in {"accepted", "rejected"} /\ raw # Silent /\ file.head = "mime" =>
            det = "accepted" /\ verdict.label = "mht"
    /\ det = "accepted" /\ verdict.source = "extension" =>
            /\ raw \in Generic \cup {"unknown"} /\ file.head \notin {"mime", "{\\rt"}
            /\ verdict.warnings # {}
=============================================================================
