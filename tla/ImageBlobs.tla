----------------------------- MODULE ImageBlobs -----------------------------
(***************************************************************************)
(* Image data kept out of the transcript (src/image-blob.ts): what leaves  *)
(* the server carries references in its place, and a reference is resolved *)
(* against the stored payload.                                             *)
(*                                                                         *)
(* A payload has a uuid, a content (a sequence of blocks) and a copy, the  *)
(* state of tool_use_result.file.base64; a block has a type, a source and, *)
(* for a tool_result, an inner sequence.  Base64 data is a token; sizes    *)
(* and media types are left out.                                           *)
(***************************************************************************)
EXTENDS Naturals, SequencesExt

CONSTANTS
  Ids,       \* the uuids REF_ID accepts
  MaxIndex   \* the largest number of REF's digits

NoSource == [type |-> "none"]
Base64(data) == [type |-> "base64", data |-> data]
BlobRef(uuid, n) == [type |-> "blob_ref", uuid |-> uuid, index |-> n]

isImageBlock(b) == b.type = "image" /\ b.source # NoSource
HasInner(b) == b.type = "tool_result"

(* Where the images of a content are, in the order the two sides count them: *)
(* <<i, 0>> is block i itself, <<i, j>> block j of the tool_result at i.     *)
eachImage(content) ==
  FlattenSeq([i \in DOMAIN content |->
    IF isImageBlock(content[i]) THEN <<<<i, 0>>>>
    ELSE IF ~HasInner(content[i]) THEN <<>>
    ELSE SelectSeq([j \in DOMAIN content[i].inner |-> <<i, j>>],
                   LAMBDA at : isImageBlock(content[i].inner[at[2]]))])

ImageAt(content, at) == IF at[2] = 0 THEN content[at[1]] ELSE content[at[1]].inner[at[2]]

hasImageBlobs(content) ==
  \E at \in Range(eachImage(content)) : ImageAt(content, at).source.type = "base64"

rewriteBlock(b, uuid, n) ==
  IF b.source.type = "base64" THEN [b EXCEPT !.source = BlobRef(uuid, n)] ELSE b

(* Mutant of Numbered: each container counts its own images from zero. *)
Numbered_PerBlock(content, at) ==
  Len(SelectSeq(eachImage(content), LAMBDA x : x[1] = at[1] /\ x[2] < at[2]))

(* The number the rewriting gives the image at a place: those before it. *)
Numbered(content, at) ==
  Len(SelectSeq(eachImage(content), LAMBDA x : x[1] < at[1] \/ (x[1] = at[1] /\ x[2] < at[2])))

stripContentImageBlobs(p) ==
  LET Stripped(b, at) == IF isImageBlock(b) THEN rewriteBlock(b, p.uuid, Numbered(p.content, at)) ELSE b
      Rewritten(i) ==
        LET b == p.content[i]
        IN  IF isImageBlock(b) \/ ~HasInner(b) THEN Stripped(b, <<i, 0>>)
            ELSE [b EXCEPT !.inner = [j \in DOMAIN @ |-> Stripped(@[j], <<i, j>>)]]
  IN  IF ~hasImageBlobs(p.content) \/ p.uuid \notin Ids THEN p
      ELSE [p EXCEPT !.content = [i \in DOMAIN @ |-> Rewritten(i)]]

stripResultImageCopy(p) == IF p.copy = "bytes" THEN [p EXCEPT !.copy = "withheld"] ELSE p

stripImageBlobs(p) == stripResultImageCopy(stripContentImageBlobs(p))

(* The data behind image number n, a set of one or none. *)
resolveImageBlob(p, n) ==
  LET places == eachImage(p.content)
      block == ImageAt(p.content, places[n + 1])
  IN  IF n >= Len(places) THEN {} ELSE IF block.source.type # "base64" THEN {} ELSE {block.source.data}

(* A reference as the blob route takes it: an id and a number of few digits. *)
parseBlobRef(ref) == {r \in {ref} : r.uuid \in Ids /\ r.index <= MaxIndex}

(* What the page shows of a tool_result: a reference or the bytes themselves. *)
imageAttachmentsOf(toolResult) ==
  LET shown(b) == isImageBlock(b) /\ b.source.type \in {"blob_ref", "base64"}
      inner == SelectSeq(toolResult.inner, shown)
  IN  [i \in DOMAIN inner |-> inner[i].source]

(* Its text: an unknown block leaves a placeholder, an image nothing. *)
toolResultText(content) ==
  LET said == SelectSeq(content, LAMBDA b : b.type # "image")
  IN  [i \in DOMAIN said |-> IF said[i].type = "text" THEN "text" ELSE "placeholder"]

-----------------------------------------------------------------------------
(* Of one payload *)

(* Every place that held an image still does, and a reference left there   *)
(* resolves, against the stored payload, to the data that was taken away:  *)
(* the two sides number alike (image-blob.ts:56-75 and 129-140).           *)
RefsResolve(p) ==
  LET out == stripImageBlobs(p)
  IN  /\ eachImage(out.content) = eachImage(p.content)
      /\ \A at \in Range(eachImage(p.content)) :
           LET was == ImageAt(p.content, at).source
               now == ImageAt(out.content, at).source
           IN  IF now.type = "blob_ref" /\ was.type = "base64"
               THEN \A ref \in parseBlobRef(now) :
                      ref.uuid = p.uuid /\ resolveImageBlob(p, ref.index) = {was.data}
               ELSE now = was

(* No data leaves the server but that of a payload nobody could refer to,  *)
(* stripping twice is stripping once, and what the page draws of a result  *)
(* names each of its images once and none of its bytes                     *)
(* (image-blob.ts:87-143, 182-217).                                        *)
NothingLeaks(p) ==
  LET out == stripImageBlobs(p)
      results == {i \in DOMAIN out.content : HasInner(out.content[i])}
  IN  /\ out.copy # "bytes"
      /\ stripImageBlobs(out) = out
      /\ p.uuid \in Ids => ~hasImageBlobs(out.content)
      /\ \A i \in results :
           LET drawn == imageAttachmentsOf(out.content[i])
               inner == p.content[i].inner
           IN  /\ p.uuid \in Ids => \A n \in DOMAIN drawn : drawn[n].type = "blob_ref"
               /\ \A m, n \in DOMAIN drawn : m # n /\ drawn[n].type = "blob_ref" => drawn[m] # drawn[n]
               /\ Len(toolResultText(inner)) + Len(SelectSeq(inner, LAMBDA b : b.type = "image"))
                    = Len(inner)

=============================================================================
