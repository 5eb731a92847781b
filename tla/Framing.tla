------------------------------- MODULE Framing -------------------------------
(***************************************************************************)
(* The three WebSocket receivers of the repository: the inspector client   *)
(* (src/injector/ws-client.ts), the browser channel (src/server/           *)
(* web-channel.ts) and the session ingress of older workers                *)
(* (src/server/ws-ingress.ts).  A peer sends a well-formed script of       *)
(* frames and TCP cuts the bytes wherever it likes.                        *)
(*                                                                         *)
(* Sizes are scaled: a payload byte is a bit, a length fits the header's   *)
(* second byte below Small (126 in the code), an extended length has Ext2  *)
(* or Ext8 bytes (2 and 8) and a mask MaskLen (4).  Left out: the HTTP     *)
(* upgrade (Inspector and Browser have it), UTF-8, and what is done with a *)
(* message once it is whole.                                               *)
(***************************************************************************)
EXTENDS Naturals, FiniteSetsExt, SequencesExt

CONSTANTS
  Small,      \* first length that needs an extension
  Ext2, Ext8, \* widths of the two extensions
  MaskLen,
  FramePayloads,   \* payloads a frame may carry: sequences of bits
  Masks,      \* mask keys a sender may draw
  MaxFrames,  \* bound: frames of a script
  MaxBytes    \* bound: their payloads' bytes

\* What the constants must be.
FramingOK ==
  /\ {Small, Ext2, Ext8, MaskLen, MaxFrames, MaxBytes} \subseteq Nat \ {0}
  /\ \A p \in FramePayloads : p \in Seq({0, 1}) /\ Len(p) < 2^Ext8
  /\ \A m \in Masks : m \in [1..MaskLen -> {0, 1}]

VARIABLES
  receiver,   \* "client", "web" or "ingress"
  script,     \* the frames its peer sends
  sent,       \* how many of their bytes have been delivered
  conn,       \* the receiver's buffers
  surfaced,   \* texts (ingress: lines) handed to the application
  wrote,      \* bytes written back
  left        \* bytes delivered when the client was closed by its owner, or Never

frameVars == <<receiver, script, sent, conn, surfaced, wrote, left>>

Cont == 0   Text == 1   Binary == 2   Close == 8   Ping == 9   Pong == 10

-----------------------------------------------------------------------------
(* Bytes *)

FRAME_HEADER_MAX == 2 + Ext8 + MaskLen

byte0(fin, opcode) == opcode + IF fin THEN 16 ELSE 0
byte1(masked, code) == code + IF masked THEN Small + 2 ELSE 0

readUIntBE(b) == FoldLeft(LAMBDA n, d : 2 * n + d, 0, b)
writeUIntBE(n, width) == [i \in 1..width |-> (n \div 2^(width - i)) % 2]

maskInto(payload, mask) ==
  [i \in DOMAIN payload |-> (payload[i] + mask[((i - 1) % MaskLen) + 1]) % 2]

(* The header at the front of b: a set of one, or none while it is not all there. *)
frameHeader(b) ==
  LET code == b[2] % (Small + 2)
      ext == CASE code = Small -> Ext2 [] code = Small + 1 -> Ext8 [] OTHER -> 0
      off == 2 + ext + IF b[2] > Small + 1 THEN MaskLen ELSE 0
  IN  IF Len(b) < 2 \/ Len(b) < off THEN {}
      ELSE {[fin |-> b[1] > 15, opcode |-> b[1] % 16, off |-> off,
             len |-> IF ext = 0 THEN code ELSE readUIntBE(SubSeq(b, 3, 2 + ext)),
             mask |-> SubSeq(b, 3 + ext, off)]}

(* The frame at the front of b, and what follows it. *)
takeFrame(b) ==
  {[fin |-> h.fin, opcode |-> h.opcode,
    payload |-> LET p == SubSeq(b, h.off + 1, h.off + h.len)
                IN  IF h.mask = <<>> THEN p ELSE maskInto(p, h.mask),
    rest |-> SubSeq(b, h.off + h.len + 1, Len(b))]
     : h \in {x \in frameHeader(b) : Len(b) >= x.off + x.len}}

header(fin, opcode, masked, len) ==
  CASE len < Small -> <<byte0(fin, opcode), byte1(masked, len)>>
    [] len >= Small /\ len < 2^Ext2 ->
         <<byte0(fin, opcode), byte1(masked, Small)>> \o writeUIntBE(len, Ext2)
    [] OTHER -> <<byte0(fin, opcode), byte1(masked, Small + 1)>> \o writeUIntBE(len, Ext8)

(* A masked frame of the client, and an unmasked one of a server. *)
clientFrame(fin, opcode, payload, mask) ==
  header(fin, opcode, TRUE, Len(payload)) \o mask \o maskInto(payload, mask)
serverFrame(fin, opcode, payload) == header(fin, opcode, FALSE, Len(payload)) \o payload

sendPong(payload) == <<byte0(TRUE, Pong), Len(payload) % (Small + 2)>> \o payload
sendClose == <<byte0(TRUE, Close), 0>>

-----------------------------------------------------------------------------
(* The peer *)

IsData(f) == f.opcode \in {Cont, Text, Binary}

Frames ==
  [fin : BOOLEAN, opcode : {Cont, Text, Binary}, payload : FramePayloads, mask : Masks]
    \cup [fin : {TRUE}, opcode : {Close, Ping, Pong},
          payload : {p \in FramePayloads : Len(p) < Small}, mask : Masks]

(* What RFC 6455 lets a peer send: a continuation only inside a message, a *)
(* new message only outside one, and nothing after a close.                *)
WellFormed(s) ==
  \A i \in DOMAIN s :
    LET before == {j \in 1..(i - 1) : IsData(s[j])}
        open == before # {} /\ ~s[Max(before)].fin
    IN  /\ IsData(s[i]) => (s[i].opcode = Cont <=> open)
        /\ s[i].opcode = Close => i = Len(s)

Size(s) == FoldLeft(LAMBDA n, f : n + Len(f.payload), 0, s)

(* Scripts, grown frame by frame. *)
ScriptsOf[n \in 0..MaxFrames] ==
  IF n = 0 THEN {<<>>}
  ELSE {s \in {Append(t, f) : t \in ScriptsOf[n - 1], f \in Frames} : WellFormed(s) /\ Size(s) <= MaxBytes}

Scripts == UNION {ScriptsOf[n] : n \in 1..MaxFrames}

Encoded(f) ==
  IF receiver = "client" THEN serverFrame(f.fin, f.opcode, f.payload)
                         ELSE clientFrame(f.fin, f.opcode, f.payload, f.mask)

Stream(k) == FlattenSeq([i \in 1..k |-> Encoded(script[i])])

Bytes == Stream(Len(script))

Never == Len(Bytes) + 1

-----------------------------------------------------------------------------
(* The receivers *)

NoBytes == [rx |-> <<>>, pend |-> <<>>, rxLen |-> 0, parts |-> <<>>, op |-> 0, ended |-> FALSE]

(* What one drain works on: the buffers, the new texts and the bytes to write. *)
Work(c) == [c |-> c, texts |-> <<>>, out |-> <<>>]

(* Mutant of materialize: a first segment taken over whole stays counted. *)
materialize_Recount(c, n) ==
  LET total(k) == Len(c.rx) + Len(FlattenSeq(SubSeq(c.pend, 1, k)))
      k == Min({i \in 0..Len(c.pend) : total(i) >= n} \cup {Len(c.pend)})
      taken == FlattenSeq(SubSeq(c.pend, 1, k))
  IN  IF Len(c.rx) >= n THEN c
      ELSE [c EXCEPT !.rx = @ \o taken,
                     !.pend = SubSeq(@, k + 1, Len(@)),
                     !.rxLen = IF c.rx = <<>> /\ k = 1 THEN @ ELSE @ - Len(taken)]

(* Whole segments are moved to rx until it holds n bytes. *)
materialize(c, n) ==
  LET total(k) == Len(c.rx) + Len(FlattenSeq(SubSeq(c.pend, 1, k)))
      k == Min({i \in 0..Len(c.pend) : total(i) >= n} \cup {Len(c.pend)})
      taken == FlattenSeq(SubSeq(c.pend, 1, k))
  IN  IF Len(c.rx) >= n THEN c
      ELSE [c EXCEPT !.rx = @ \o taken,
                     !.pend = SubSeq(@, k + 1, Len(@)),
                     !.rxLen = @ - Len(taken)]

(* text.split('\n') without the blank lines; a 0 stands for the newline. *)
nonBlankLines(text) ==
  LET cuts == SetToSortSeq({i \in DOMAIN text : text[i] = 0} \cup {0, Len(text) + 1}, <)
      lines == [i \in 1..(Len(cuts) - 1) |-> SubSeq(text, cuts[i] + 1, cuts[i + 1] - 1)]
  IN  SelectSeq(lines, LAMBDA l : l # <<>>)

Texts(text) == IF receiver = "ingress" THEN nonBlankLines(text) ELSE <<text>>

(* A data frame joins the message; a final one ends it, and only a text is surfaced. *)
OnData(w, f) ==
  LET op == IF f.opcode = Cont THEN w.c.op ELSE f.opcode
      parts == Append(w.c.parts, f.payload)
  IN  [w EXCEPT !.c.op = op,
                !.c.parts = IF f.fin THEN <<>> ELSE parts,
                !.texts = IF f.fin /\ op = Text THEN @ \o Texts(FlattenSeq(parts)) ELSE @]

(* close(): the closing frame is written after _closed is set, so _send drops it. *)
HandleFrame(w, f, mask) ==
  CASE IsData(f) -> OnData(w, f)
    [] f.opcode = Close -> [w EXCEPT !.c.ended = TRUE]
    [] f.opcode = Ping /\ ~w.c.ended ->
         [w EXCEPT !.out = @ \o clientFrame(TRUE, Pong, f.payload, mask)]
    [] OTHER -> w

RECURSIVE ClientDrain(_, _)
ClientDrain(w, mask) ==
  LET total == Len(w.c.rx) + w.c.rxLen
      some == materialize(w.c, Min({total, FRAME_HEADER_MAX}))
      ready == {h \in frameHeader(some.rx) : total >= h.off + h.len}
  IN  IF total < 2 THEN w
      ELSE IF ready = {} THEN [w EXCEPT !.c = some]
      ELSE LET h == CHOOSE x \in ready : TRUE
               all == materialize(some, h.off + h.len)
               f == CHOOSE x \in takeFrame(all.rx) : TRUE
           IN  ClientDrain(HandleFrame([w EXCEPT !.c = [all EXCEPT !.rx = f.rest]], f, mask), mask)

(* The loop both servers share: a close ends it, and the ingress answers it. *)
RECURSIVE ServerDrain(_)
ServerDrain(w) ==
  IF takeFrame(w.c.rx) = {} THEN w
  ELSE LET f == CHOOSE x \in takeFrame(w.c.rx) : TRUE
           next == [w EXCEPT !.c.rx = f.rest]
       IN  CASE f.opcode = Close ->
                  [next EXCEPT !.c.ended = TRUE,
                               !.out = @ \o IF receiver = "ingress" THEN sendClose ELSE <<>>]
             [] f.opcode = Ping -> ServerDrain([next EXCEPT !.out = @ \o sendPong(f.payload)])
             [] f.opcode = Pong -> ServerDrain(next)
             [] OTHER -> ServerDrain(OnData(next, f))

-----------------------------------------------------------------------------
(* Actions *)

FramingInit ==
  /\ receiver \in {"client", "web", "ingress"}
  /\ script \in Scripts
  /\ sent = 0
  /\ conn = NoBytes
  /\ surfaced = <<>>
  /\ wrote = <<>>
  /\ left = Never

Took(w) ==
  /\ conn' = w.c
  /\ surfaced' = surfaced \o w.texts
  /\ wrote' = wrote \o w.out
  /\ UNCHANGED <<receiver, script, left>>

(* _onBytes: the next n bytes arrive as one segment. *)
onBytes ==
  /\ receiver = "client"
  /\ \E n \in 1..(Len(Bytes) - sent), mask \in Masks :
       /\ sent' = sent + n
       /\ Took(ClientDrain(Work([conn EXCEPT !.pend = Append(@, SubSeq(Bytes, sent + 1, sent + n)),
                                             !.rxLen = @ + n]), mask))

(* socket.on('data') of a server. *)
onData ==
  /\ receiver # "client"
  /\ \E n \in 1..(Len(Bytes) - sent) :
       /\ sent' = sent + n
       /\ Took(ServerDrain(Work([conn EXCEPT !.rx = @ \o SubSeq(Bytes, sent + 1, sent + n)])))

(* The client's owner closes it; the socket still delivers what the peer sends. *)
closeClient ==
  /\ receiver = "client"
  /\ ~conn.ended
  /\ conn' = [conn EXCEPT !.ended = TRUE]
  /\ left' = sent
  /\ UNCHANGED <<receiver, script, sent, surfaced, wrote>>

FramingNext == onBytes \/ onData \/ closeClient

FramingSpec == FramingInit /\ [][FramingNext]_frameVars

-----------------------------------------------------------------------------
(* Properties *)

FramingTypeOK ==
  /\ receiver \in {"client", "web", "ingress"}
  /\ WellFormed(script)
  /\ sent \in 0..Len(Bytes)
  /\ conn.rxLen \in Nat /\ conn.op \in {Cont, Text, Binary} /\ conn.ended \in BOOLEAN
  /\ left \in 0..Never

(* The frames all of whose bytes have arrived. *)
Arrived == {i \in DOMAIN script : Len(Stream(i)) <= sent}

(* The frames of the message that frame i ends. *)
PartsUpTo(i) ==
  {j \in 1..i : IsData(script[j]) /\ \A k \in j..(i - 1) : IsData(script[k]) => ~script[k].fin}

Joined(S) == FlattenSeq([n \in 1..Cardinality(S) |-> script[SetToSortSeq(S, <)[n]].payload])

(* The maximal runs of a text without a newline. *)
Runs(text) ==
  LET starts == {i \in DOMAIN text : text[i] # 0 /\ (i > 1 => text[i - 1] = 0)}
      End(i) == Max({j \in i..Len(text) : \A k \in i..j : text[k] # 0})
  IN  [n \in 1..Cardinality(starts) |->
         LET i == SetToSortSeq(starts, <)[n] IN SubSeq(text, i, End(i))]

(* However the bytes are cut, what the application has seen is exactly the *)
(* texts whose last frame has arrived, whole and in the order they were    *)
(* sent, whatever control frames came in between (ws-client.ts:187-260,    *)
(* web-channel.ts:80-97, ws-ingress.ts:68-88).                             *)
MessagesExact ==
  LET ends == {i \in Arrived : IsData(script[i]) /\ script[i].fin
                                 /\ \E j \in PartsUpTo(i) : script[j].opcode = Text}
      texts == [n \in 1..Cardinality(ends) |-> Joined(PartsUpTo(SetToSortSeq(ends, <)[n]))]
  IN  surfaced = IF receiver = "ingress" THEN FlattenSeq([n \in DOMAIN texts |-> Runs(texts[n])])
                                         ELSE texts

RECURSIVE Decoded(_)
Decoded(b) ==
  FoldSet(LAMBDA f, none : <<[opcode |-> f.opcode, fin |-> f.fin, payload |-> f.payload,
                              masked |-> b[2] > Small + 1]>> \o Decoded(f.rest),
          <<>>, takeFrame(b))

(* What was written back, read as a peer reads it, answers every ping that *)
(* arrived before the receiver was closed, once and in order, and a close  *)
(* only where the code answers it; the client's frames are masked and the  *)
(* servers' are not (ws-client.ts:281-301, web-channel.ts:202-204,         *)
(* ws-ingress.ts:128-135).                                                 *)
RepliesExact ==
  LET pings == {i \in Arrived : script[i].opcode = Ping /\ Len(Stream(i)) <= left}
      closes == {i \in Arrived : script[i].opcode = Close /\ receiver = "ingress"}
      answered == pings \cup closes
      Reply(i) == [opcode |-> IF i \in pings THEN Pong ELSE Close, fin |-> TRUE,
                   payload |-> IF i \in pings THEN script[i].payload ELSE <<>>,
                   masked |-> receiver = "client"]
  IN  Decoded(wrote) = [n \in 1..Cardinality(answered) |-> Reply(SetToSortSeq(answered, <)[n])]

(* A receiver holds exactly the bytes that follow the last whole frame,    *)
(* and the client's count of its unmerged segments is their length         *)
(* (ws-client.ts:187-222).                                                 *)
NothingLost ==
  /\ conn.rx \o FlattenSeq(conn.pend)
       = SubSeq(Bytes, Len(Stream(Max(Arrived \cup {0}))) + 1, sent)
  /\ conn.rxLen = Len(FlattenSeq(conn.pend))

FramesExact == MessagesExact /\ RepliesExact /\ NothingLost

=============================================================================
