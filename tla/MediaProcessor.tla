---------------------------- MODULE MediaProcessor ----------------------------
(***************************************************************************)
(* platform/media: an uploaded picture is inspected without decoding it,   *)
(* checked against its kind's limits, decoded and encoded again as WebP    *)
(* under one of a few slots, and the container the encoder wrote is        *)
(* rebuilt without metadata and inspected again. A file is the sequence of *)
(* its blocks (chunks, segments); `tail` says whether the declared sizes   *)
(* end exactly at the end of the file, before it ("loose") or after it     *)
(* ("cut"). libvips is external: it may decode fewer frames than there     *)
(* are, and its saver may write metadata back or lose frames. Which error  *)
(* a refused upload gets is left out.                                      *)
(***************************************************************************)
EXTENDS Naturals, Sequences, SequencesExt

CONSTANTS Requests,
          Uploads,            \* [kind, mime, file], file: [format, tail, blocks]
          Slots,              \* MaxProcessingConcurrency
          MaxInputEdge, MaxInputPixels, MaxFrames, MaxDurationMS,
          TargetSize, FallbackSize, MaxOutputBytes

VARIABLES req,                \* the calls of Process
          slots               \* free slots

mediaVars == <<req, slots>>

NoHeader == [ok |-> FALSE, format |-> "", w |-> 0, h |-> 0, fw |-> 0, fh |-> 0, frames |-> 0, ms |-> 0, pixels |-> 0]
NoFile == [format |-> "webp", tail |-> "exact", blocks |-> <<>>]
NoUpload == [kind |-> "", mime |-> "", file |-> NoFile]
Idle == [pc |-> "new", upload |-> NoUpload, info |-> NoHeader, size |-> 0, pages |-> 0, ms |-> 0,
         out |-> NoFile, header |-> NoHeader, bytes |-> 0, cancelled |-> FALSE]

Refused == [Idle EXCEPT !.pc = "refused"]

(* The shape of every variable.                                            *)
MediaTypeOK ==
  /\ slots \in 0..Slots
  /\ \A r \in Requests : /\ req[r].pc \in {"new", "waiting", "decode", "export", "measure", "done", "refused"}
                         /\ req[r].size \in {0, TargetSize, FallbackSize} /\ req[r].cancelled \in BOOLEAN

MediaInit == req = [r \in Requests |-> Idle] /\ slots = Slots
-----------------------------------------------------------------------------
(* Inspection: one pass over the blocks.                                   *)
Larger(a, b) == IF a > b THEN a ELSE b
Scan0 == [bad |-> FALSE, over |-> FALSE, w |-> 0, h |-> 0, fw |-> 0, fh |-> 0,
          frames |-> 0, ms |-> 0, pixels |-> 0, pending |-> 0, animated |-> FALSE]
CountFrame(s, b, ms) ==
  [s EXCEPT !.frames = @ + 1, !.fw = Larger(@, b.w), !.fh = Larger(@, b.h), !.pixels = @ + b.w * b.h, !.ms = @ + ms, !.pending = 0]
Sized(s, b) == [s EXCEPT !.w = b.w, !.h = b.h, !.fw = b.w, !.fh = b.h]

staticImageHeader(format, w, h) ==
  [ok |-> w > 0 /\ h > 0, format |-> format, w |-> w, h |-> h, fw |-> w, fh |-> h, frames |-> 1, ms |-> 0, pixels |-> w * h]
Header(format, s) ==
  [ok |-> TRUE, format |-> format, w |-> s.w, h |-> s.h, fw |-> s.fw, fh |-> s.fh, frames |-> s.frames, ms |-> s.ms, pixels |-> s.pixels]

(* The first start of frame decides; a scan or the end before it is none.  *)
inspectJPEG(file) ==
  LET marks == {i \in DOMAIN file.blocks : file.blocks[i].kind \in {"sof", "sos", "eoi"}}
      first == IF marks = {} THEN 0 ELSE CHOOSE i \in marks : \A j \in marks : i <= j
  IN IF first = 0 THEN NoHeader
     ELSE IF file.blocks[first].kind # "sof" THEN NoHeader
     ELSE staticImageHeader("jpeg", file.blocks[first].w, file.blocks[first].h)
(* One header with the size; for BMP the rows must fit behind it.          *)
inspectFixed(file) == IF file.tail = "cut" THEN NoHeader ELSE staticImageHeader(file.format, file.blocks[1].w, file.blocks[1].h)

GIFBlock(s, b) ==
  IF s.bad \/ s.over THEN s
  ELSE CASE b.kind = "screen" -> [Sized(s, b) EXCEPT !.bad = b.w = 0 \/ b.h = 0]
         [] b.kind = "end" -> [s EXCEPT !.over = TRUE]
         [] b.kind = "gce" -> [s EXCEPT !.pending = b.ms]
         [] b.kind = "ext" -> s
         [] b.kind = "image" -> IF b.w = 0 \/ b.h = 0 THEN [s EXCEPT !.bad = TRUE] ELSE CountFrame(s, b, s.pending)
         [] OTHER -> [s EXCEPT !.bad = TRUE]
inspectGIF(file) ==
  LET s == FoldLeft(GIFBlock, Scan0, file.blocks)
  IN IF s.bad \/ ~s.over \/ s.frames = 0 THEN NoHeader ELSE Header("gif", s)

WebPChunk(s, b) ==
  CASE b.kind = "VP8X" -> [Sized(s, b) EXCEPT !.animated = "anim" \in b.flags]
    [] b.kind \in {"VP8 ", "VP8L"} -> IF s.w = 0 \/ s.h = 0 THEN Sized(s, b) ELSE s
    [] b.kind = "ANMF" -> CountFrame(s, b, b.ms)
    [] OTHER -> s
inspectWebP(file) ==
  LET s == FoldLeft(WebPChunk, Scan0, file.blocks)
  IN IF file.tail = "cut" \/ s.w = 0 \/ s.h = 0 \/ (s.animated <=> s.frames = 0) THEN NoHeader
     ELSE IF s.animated THEN Header("webp", s) ELSE staticImageHeader("webp", s.w, s.h)

inspectImage(file) ==
  CASE file.format = "jpeg" -> inspectJPEG(file)
    [] file.format \in {"png", "bmp"} -> inspectFixed(file)
    [] file.format = "gif" -> inspectGIF(file)
    [] file.format = "webp" -> inspectWebP(file)
    [] OTHER -> NoHeader
-----------------------------------------------------------------------------
allowedMIME(kind) == IF kind = "avatar" THEN {"jpeg", "png", "webp"} ELSE {"jpeg", "png", "webp", "gif", "bmp"}
formatAllowed(kind) == allowedMIME(kind)
PreserveAnimation(kind) == kind = "emote"
validateCanvas(h) ==
  /\ h.w <= MaxInputEdge /\ h.h <= MaxInputEdge
  /\ h.w * h.h <= MaxInputPixels /\ h.frames <= MaxFrames /\ h.ms <= MaxDurationMS
(* The canvas once for each frame, and the frames by their own sizes.      *)
validate(h) ==
  /\ h.w <= MaxInputEdge /\ h.h <= MaxInputEdge /\ h.fw <= MaxInputEdge /\ h.fh <= MaxInputEdge
  /\ h.w * h.h * h.frames <= MaxInputPixels /\ h.pixels <= MaxInputPixels
  /\ h.frames <= MaxFrames /\ h.ms <= MaxDurationMS

(* process up to acquire.                                                  *)
Process(r, u) ==
  /\ req[r].pc = "new"
  /\ LET info == inspectImage(u.file)
         accepted == /\ u.mime \in allowedMIME(u.kind) /\ info.ok
                     /\ info.format \in formatAllowed(u.kind) /\ validate(info)
     IN req' = [req EXCEPT ![r] = IF accepted THEN [Idle EXCEPT !.pc = "waiting", !.upload = u, !.info = info] ELSE Refused]
  /\ UNCHANGED slots

Cancel(r) ==
  /\ req[r].pc \in {"waiting", "decode", "export", "measure"} /\ ~req[r].cancelled
  /\ req' = [req EXCEPT ![r].cancelled = TRUE] /\ UNCHANGED slots

(* select: a free slot or the end of the context, whichever is seen.       *)
acquire(r) ==
  /\ req[r].pc = "waiting"
  /\ \/ slots > 0 /\ slots' = slots - 1 /\ req' = [req EXCEPT ![r].pc = "decode", ![r].size = TargetSize]
     \/ req[r].cancelled /\ req' = [req EXCEPT ![r] = Refused] /\ UNCHANGED slots

release(ok) == slots + 1
Refuse(r) == req' = [req EXCEPT ![r] = Refused] /\ slots' = release(FALSE)

(* What libvips hands back: some of the pages asked for, as one picture.   *)
Pages(info, kind) == IF PreserveAnimation(kind) THEN 1..info.frames ELSE {1}
validateDecodedImage(w, h, pages, ms) ==
  /\ w \in 1..MaxInputEdge /\ h \in 1..MaxInputEdge /\ pages \in 1..MaxFrames /\ ms <= MaxDurationMS /\ w * h * pages <= MaxInputPixels
decode(r) ==
  /\ req[r].pc = "decode"
  /\ LET info == req[r].info
         kind == req[r].upload.kind
     IN \/ /\ ~req[r].cancelled
           /\ \E pages \in Pages(info, kind) :
                LET ms == IF pages > 1 THEN info.ms ELSE IF PreserveAnimation(kind) /\ info.frames = 1 THEN info.ms ELSE 0
                    lost == PreserveAnimation(kind) /\ info.frames > 1 /\ pages < 2
                IN IF lost \/ ~validateDecodedImage(info.w, info.h, pages, ms) THEN Refuse(r)
                   ELSE req' = [req EXCEPT ![r].pc = "export", ![r].pages = pages, ![r].ms = ms] /\ UNCHANGED slots
        \/ Refuse(r)          \* the context ended, or the file cannot be decoded
-----------------------------------------------------------------------------
(* Resize: an avatar fills the square, an emote is only ever made smaller. *)
Resized(kind, info, size) ==
  LET edge == Larger(info.w, info.h)
      scaled(x) == Larger(1, (x * size) \div edge)
  IN IF kind = "avatar" THEN [w |-> size, h |-> size]
     ELSE IF edge > size THEN [w |-> scaled(info.w), h |-> scaled(info.h)] ELSE [w |-> info.w, h |-> info.h]
(* ExportWebp, with or without metadata the cleaning should have removed.  *)
Frame(d) == [kind |-> "ANMF", w |-> d.w, h |-> d.h, ms |-> 1, flags |-> {}]
VP8X(d, flags) == [kind |-> "VP8X", w |-> d.w, h |-> d.h, ms |-> 0, flags |-> flags]
Chunk(kind, d) == [kind |-> kind, w |-> d.w, h |-> d.h, ms |-> 0, flags |-> {}]
ExportWebp(d, pages) ==
  LET frames == IF pages = 1 THEN <<Chunk("VP8 ", d)>> ELSE [i \in 1..pages |-> Frame(d)]
      anim == IF pages = 1 THEN {} ELSE {"anim"}
  IN {[format |-> "webp", tail |-> "exact", blocks |-> b] :
        b \in {<<VP8X(d, anim \union {"exif", "icc"}), Chunk("ICCP", d)>> \o frames \o <<Chunk("EXIF", d)>>,
               <<VP8X(d, anim \union {"alpha"})>> \o frames, <<VP8X(d, anim \union {"reserved"})>> \o frames}
              \union (IF pages = 1 THEN {frames} ELSE {})}

webpStructuralChunks == {"VP8X", "VP8 ", "VP8L", "ALPH", "ANIM", "ANMF"}
parseWebPContainer(file) == file.tail = "exact" /\ file.blocks # <<>>
StripFlags(b) == IF b.kind = "VP8X" THEN [b EXCEPT !.flags = @ \intersect {"alpha", "anim"}] ELSE b
Strippable(file) ==
  /\ parseWebPContainer(file)
  /\ \A i \in DOMAIN file.blocks : file.blocks[i].kind = "VP8X" => "reserved" \notin file.blocks[i].flags
  /\ \E i \in DOMAIN file.blocks : file.blocks[i].kind \in webpStructuralChunks
stripWebPMetadata(file) ==
  LET kept == SelectSeq(file.blocks, LAMBDA b : b.kind \in webpStructuralChunks)
  IN [file EXCEPT !.blocks = [i \in DOMAIN kept |-> StripFlags(kept[i])]]

(* The saver's frames are compared with the decoded ones.                  *)
FramesKept(r, header) ==
  LET kind == req[r].upload.kind IN
  /\ PreserveAnimation(kind) /\ req[r].info.frames > 1 => header.frames = req[r].pages
  /\ ~PreserveAnimation(kind) => header.frames = 1
encode(r) ==
  /\ req[r].pc = "export"
  /\ \/ /\ ~req[r].cancelled
        /\ \E saved \in 1..req[r].pages :
           \E file \in ExportWebp(Resized(req[r].upload.kind, req[r].info, req[r].size), saved),
              bytes \in {MaxOutputBytes, MaxOutputBytes + 1} :
             LET out == stripWebPMetadata(file)
                 header == inspectImage(out)
             IN IF Strippable(file) /\ header.ok /\ FramesKept(r, header)
                THEN req' = [req EXCEPT ![r].pc = "measure", ![r].out = out, ![r].header = header, ![r].bytes = bytes] /\ UNCHANGED slots
                ELSE Refuse(r)
     \/ Refuse(r)             \* the context ended, or a step of libvips failed

(* The first encoding may be too large; the second may not.                *)
Fits(r) == req[r].upload.kind = "avatar" \/ req[r].bytes <= MaxOutputBytes
finish(r) ==
  /\ req[r].pc = "measure"
  /\ \/ ~Fits(r) /\ req[r].size = TargetSize /\ req' = [req EXCEPT ![r].pc = "decode", ![r].size = FallbackSize] /\ UNCHANGED slots
     \/ ~Fits(r) /\ req[r].size = FallbackSize /\ Refuse(r)
     \/ Fits(r) /\ ~req[r].cancelled /\ req' = [req EXCEPT ![r].pc = "done"] /\ slots' = release(TRUE)
     \/ Fits(r) /\ req[r].cancelled /\ Refuse(r)
-----------------------------------------------------------------------------
MediaNext == \E r \in Requests :
  \/ \E u \in Uploads : Process(r, u)
  \/ Cancel(r) \/ acquire(r) \/ decode(r) \/ encode(r) \/ finish(r)

-----------------------------------------------------------------------------
(* What the file makes a decoder do, counted from its blocks alone.        *)
FramesOf(file) == SelectSeq(file.blocks, LAMBDA b : b.kind \in {"image", "ANMF"})
Work(file) == FoldLeft(LAMBDA acc, b : acc + b.w * b.h, 0, FramesOf(file))
BeforeEnd(file) == \A i \in DOMAIN file.blocks : file.blocks[i].kind = "end" => i = Len(file.blocks)
(* However its blocks are arranged, no file reaches the decoder whose      *)
(* frames together exceed the pixel budget or the number of frames.        *)
DecodedWithinBudget ==
  \A r \in Requests : req[r].pc \in {"decode", "export", "measure", "done"} /\ BeforeEnd(req[r].upload.file) =>
    Work(req[r].upload.file) <= MaxInputPixels /\ Len(FramesOf(req[r].upload.file)) <= MaxFrames

(* What is stored carries no metadata chunk and no metadata flag, is a     *)
(* container the inspection accepts, has the size that is recorded with    *)
(* it, and fits the edge it was made for.                                  *)
StoredPictureClean ==
  \A r \in Requests : req[r].pc = "done" =>
    /\ \A i \in DOMAIN req[r].out.blocks : LET b == req[r].out.blocks[i] IN
         b.kind \in webpStructuralChunks /\ b.flags \subseteq {"alpha", "anim"}
    /\ inspectImage(req[r].out) = req[r].header /\ stripWebPMetadata(req[r].out) = req[r].out
    /\ req[r].header.w <= req[r].size /\ req[r].header.h <= req[r].size

(* An animated emote is never stored as a still picture, whatever the      *)
(* encoder lost on the way, and an avatar never moves.                     *)
AnimationKept ==
  \A r \in Requests : req[r].pc = "done" =>
    IF PreserveAnimation(req[r].upload.kind) /\ req[r].info.frames > 1 THEN req[r].header.frames = req[r].pages /\ req[r].pages > 1
    ELSE req[r].header.frames = 1

=============================================================================
