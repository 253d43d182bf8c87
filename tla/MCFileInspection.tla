--------------------------- MODULE MCFileInspection ---------------------------
(* FileInspection for TLC: one document of each sort that the parsers tell apart. *)
EXTENDS FileInspection

CONSTANTS u1, u2

Page(native, image, legible) == [native |-> native, image |-> image, legible |-> legible]
Pdf(pages) == [owner |-> u1, kind |-> "pdf", doc |-> [format |-> "pdf", pages |-> pages]]
Bytes(kind, format, pages) == [owner |-> u1, kind |-> kind, doc |-> [format |-> format, pages |-> pages]]

MCUploads ==
  { Pdf(<<Page("sufficient", "absent", FALSE), Page("failed", "unknown", TRUE)>>),
    Pdf(<<Page("low", "present", TRUE), Page("zero", "absent", TRUE)>>),
    Bytes("image", "bytes", <<Page("zero", "present", TRUE)>>),
    Bytes("pdf", "encrypted", << >>),
    Bytes("plain_text", "text", << >>),
    Bytes("code", "bytes", << >>),
    Bytes("unknown", "bytes", << >>) }

MCItems == { [ref |-> f, kind |-> kind, claim |-> TRUE] :
               f \in Files, kind \in {"pdf", "image", "plain_text", "code", "office_document", "unknown"} }
           \union { [ref |-> f, kind |-> "pdf", claim |-> FALSE] : f \in Files }

MCItemLists == { <<i>> : i \in MCItems }
               \union { <<i, i>> : i \in {k \in MCItems : k.kind = "pdf" /\ k.claim} }
===============================================================================
