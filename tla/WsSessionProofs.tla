--------------------------- MODULE WsSessionProofs ---------------------------
(***************************************************************************)
(* Theorems about WsSession, for every room of the buffers and any number  *)
(* of frames.                                                              *)
(***************************************************************************)
EXTENDS WsSession, SequenceTheorems, TLAPS

Item == Nat \cup {CloseFrame}

(* The inductive invariant.  While the task runs, what a source sent is    *)
(* what its destination got, what is on its way to it, what the pump has   *)
(* in hand, and what is on its way to the pump, in this order; only when   *)
(* the task is over may a part be missing, and then the last one.          *)
Types ==
    /\ stage \in {"dial", "session", "ended"}
    /\ peer \in [{"client", "backend"} -> {"open", "closing", "gone"}]
    /\ pump \in [Direction -> {"next", "send", "close", "over"}]
    /\ incoming \in [Direction -> Seq(Item \cup {EndOfStream})]
    /\ frame \in [Direction -> Nat]
    /\ outgoing \in [Direction -> Seq(Item)]
    /\ sent \in [Direction -> Seq(Item)] /\ got \in [Direction -> Seq(Item)]

Passed(d) == got[d] \o outgoing[d]
InHand(d) == CASE pump[d] = "send" -> <<frame[d]>>
               [] pump[d] = "close" -> <<CloseFrame>>
               [] OTHER -> <<>>

\* `rest` is on its way to the pump, before the end of the stream if that is.
Arriving(d, rest) ==
    \/ incoming[d] = rest
    \/ incoming[d] = Append(rest, EndOfStream) /\ peer[Source(d)] = "gone"

Whole(d) == \E rest \in Seq(Item) : /\ sent[d] = Passed(d) \o (InHand(d) \o rest)
                                    /\ Arriving(d, rest)
Cut(d) == \E rest \in Seq(Item) : sent[d] = Passed(d) \o rest

WsInv == /\ Types
         /\ \A d \in Direction : Cut(d) /\ (stage # "ended" => Whole(d))

-----------------------------------------------------------------------------
(* Sequences: what is a prefix, and how a queue moves.                     *)
LEMMA PrefixOfConcat ==
    ASSUME NEW s \in Seq(Item), NEW t \in Seq(Item)
    PROVE  IsPrefix(s, s \o t)
<1>1. /\ s \o t \in Seq(Item) /\ Len(s \o t) = Len(s) + Len(t)
      /\ \A i \in 1 .. Len(s) + Len(t) : (s \o t)[i] = IF i <= Len(s) THEN s[i] ELSE t[i - Len(s)]
  BY ConcatProperties
<1>2. Len(s) \in Nat /\ Len(t) \in Nat
  BY LenProperties
<1>3. SubSeq(s, 1, Len(s)) = s
  BY SubSeqFull
<1> DEFINE u == SubSeq(s \o t, 1, Len(s))
<1>4. \A i \in 1 .. Len(s) : (s \o t)[i] \in Item
  BY <1>1, <1>2, ElementOfSeq
<1>5. u \in Seq(Item) /\ Len(u) = Len(s) /\ \A i \in 1 .. Len(s) : u[i] = (s \o t)[i]
  BY <1>2, <1>4, SubSeqProperties
<1>6. u = s
  BY <1>1, <1>2, <1>5, SeqEqual
<1> QED BY <1>1, <1>2, <1>3, <1>6 DEF IsPrefix

LEMMA HeadAndTail ==
    ASSUME NEW S, NEW s \in Seq(S), s # <<>>
    PROVE  Head(s) \in S /\ Tail(s) \in Seq(S) /\ s = <<Head(s)>> \o Tail(s)
OBVIOUS

\* A queue that ends in a mark, but does not begin with it.
LEMMA TailOfMarked ==
    ASSUME NEW S, NEW x, x \notin S, NEW s \in Seq(S), NEW q,
           q = Append(s, x), Head(q) # x
    PROVE  s # <<>> /\ Head(s) = Head(q) /\ Tail(q) = Append(Tail(s), x)
OBVIOUS

\* An element that moves from the second part to the end of the first.
LEMMA Moved ==
    ASSUME NEW S, NEW s \in Seq(S), NEW t \in Seq(S), NEW x \in S
    PROVE  s \o (<<x>> \o t) = Append(s, x) \o t
<1>1. <<x>> \in Seq(S)
  OBVIOUS
<1>2. Append(s, x) = s \o <<x>>
  BY AppendIsConcat
<1> QED BY <1>1, <1>2, ConcatAssociative

LEMMA AppendToLast ==
    ASSUME NEW s \in Seq(Item), NEW t \in Seq(Item), NEW x \in Item
    PROVE  Append(s \o t, x) = s \o Append(t, x)
<1>1. <<x>> \in Seq(Item) /\ s \o t \in Seq(Item)
  BY ConcatProperties
<1>2. Append(t, x) = t \o <<x>> /\ Append(s \o t, x) = (s \o t) \o <<x>>
  BY <1>1, AppendIsConcat
<1> QED BY <1>1, <1>2, ConcatAssociative

-----------------------------------------------------------------------------
LEMMA WsInit == Init => WsInv
<1> SUFFICES ASSUME Init PROVE WsInv
  OBVIOUS
<1>1. Types
  BY DEF Init, Types, Direction, NoFrame
<1>2. <<>> \in Seq(Item) /\ (<<>> \o <<>>) \o <<>> = <<>> /\ (<<>> \o <<>>) \o (<<>> \o <<>>) = <<>>
  BY ConcatEmptySeq
<1>3. ASSUME NEW d \in Direction PROVE Cut(d) /\ Whole(d)
  <2>1. got[d] = <<>> /\ outgoing[d] = <<>> /\ sent[d] = <<>> /\ incoming[d] = <<>> /\ pump[d] = "next"
    BY DEF Init
  <2>2. Passed(d) = <<>> \o <<>> /\ InHand(d) = <<>> /\ Arriving(d, <<>>)
    BY <2>1 DEF Passed, InHand, Arriving
  <2> QED BY <1>2, <2>1, <2>2 DEF Cut, Whole
<1> QED BY <1>1, <1>3 DEF WsInv

\* A direction that a step leaves alone, but for its source's state.
LEMMA OtherDirection ==
    ASSUME NEW x \in Direction, Cut(x), stage # "ended" => Whole(x),
           UNCHANGED <<incoming[x], outgoing[x], sent[x], got[x]>>,
           stage' # "ended" => stage # "ended" /\ UNCHANGED <<pump[x], frame[x]>>,
           peer[Source(x)] = "gone" => peer'[Source(x)] = "gone"
    PROVE  Cut(x)' /\ (stage' # "ended" => Whole(x)')
<1>1. Passed(x)' = Passed(x)
  BY DEF Passed
<1>2. Cut(x)'
  BY <1>1 DEF Cut
<1>3. ASSUME stage' # "ended" PROVE Whole(x)'
  <2>1. InHand(x)' = InHand(x) /\ Whole(x)
    BY <1>3 DEF InHand
  <2>2. PICK rest \in Seq(Item) : sent[x] = Passed(x) \o (InHand(x) \o rest) /\ Arriving(x, rest)
    BY <2>1 DEF Whole
  <2>3. Arriving(x, rest)'
    BY <2>2 DEF Arriving, Source
  <2> QED BY <1>1, <2>1, <2>2, <2>3 DEF Whole
<1> QED BY <1>2, <1>3

LEMMA HandTyped ==
    ASSUME Types, NEW d \in Direction
    PROVE  InHand(d) \in Seq(Item)
<1>1. frame[d] \in Item /\ CloseFrame \in Item
  BY DEF Types, Item
<1>2. <<frame[d]>> \in Seq(Item) /\ <<CloseFrame>> \in Seq(Item) /\ <<>> \in Seq(Item)
  BY <1>1
<1> QED BY <1>2, Zenon DEF InHand

-----------------------------------------------------------------------------
\* The pump takes what is next.
LEMMA TakesNext ==
    ASSUME Types, NEW d \in Direction, Whole(d), incoming[d] # <<>>, Head(incoming[d]) \in Item,
           InHand(d) = <<>>, InHand(d)' = <<Head(incoming[d])>>,
           incoming'[d] = Tail(incoming[d]),
           UNCHANGED <<peer, outgoing, sent, got>>
    PROVE  Whole(d)'
<1>1. PICK rest \in Seq(Item) : sent[d] = Passed(d) \o (InHand(d) \o rest) /\ Arriving(d, rest)
  BY DEF Whole
<1>2. EndOfStream \notin Item
  BY MarkAssumption DEF Item
<1>3. rest # <<>> /\ Head(rest) = Head(incoming[d]) /\ Arriving(d, Tail(rest))'
  <2>1. CASE incoming[d] = rest
    BY <2>1 DEF Arriving
  <2>2. CASE incoming[d] = Append(rest, EndOfStream) /\ peer[Source(d)] = "gone"
    <3>1. rest # <<>> /\ Head(rest) = Head(incoming[d]) /\ incoming'[d] = Append(Tail(rest), EndOfStream)
      BY <1>2, <2>2, TailOfMarked
    <3> QED BY <2>2, <3>1 DEF Arriving, Source
  <2> QED BY <1>1, <2>1, <2>2 DEF Arriving
<1>4. rest = <<Head(rest)>> \o Tail(rest) /\ Tail(rest) \in Seq(Item)
  BY <1>3, HeadAndTail
<1>5. <<>> \o rest = rest
  BY ConcatEmptySeq
<1>6. Passed(d)' = Passed(d) /\ sent'[d] = sent[d]
  BY DEF Passed
<1>7. sent'[d] = Passed(d)' \o (InHand(d)' \o Tail(rest))
  BY <1>1, <1>3, <1>4, <1>5, <1>6
<1> QED BY <1>3, <1>4, <1>7 DEF Whole

\* The pump puts what it has in hand on its way.
LEMMA PutsInHand ==
    ASSUME Types, NEW d \in Direction, Whole(d), NEW x \in Item,
           InHand(d) = <<x>>, InHand(d)' = <<>>,
           outgoing'[d] = Append(outgoing[d], x),
           UNCHANGED <<peer, incoming, sent, got>>
    PROVE  Whole(d)' /\ Cut(d)'
<1>1. PICK rest \in Seq(Item) : sent[d] = Passed(d) \o (InHand(d) \o rest) /\ Arriving(d, rest)
  BY DEF Whole
<1>2. got[d] \in Seq(Item) /\ outgoing[d] \in Seq(Item) /\ <<x>> \in Seq(Item)
  BY DEF Types
<1>3. Passed(d) \in Seq(Item)
  BY <1>2, ConcatProperties DEF Passed
<1>4. Passed(d)' = Append(Passed(d), x)
  <2>1. Append(got[d] \o outgoing[d], x) = got[d] \o Append(outgoing[d], x)
    BY <1>2, AppendToLast
  <2>2. Passed(d)' = got[d] \o Append(outgoing[d], x)
    BY DEF Passed
  <2> QED BY <2>1, <2>2 DEF Passed
<1>5. Passed(d) \o (<<x>> \o rest) = Append(Passed(d), x) \o rest
  BY <1>3, Moved
<1>6. <<>> \o rest = rest
  BY ConcatEmptySeq
<1>7. sent'[d] = Passed(d)' \o (InHand(d)' \o rest)
  BY <1>1, <1>4, <1>5, <1>6
<1>8. Arriving(d, rest)'
  BY <1>1 DEF Arriving, Source
<1>9. Cut(d)'
  BY <1>1, <1>6, <1>7 DEF Cut
<1> QED BY <1>1, <1>7, <1>8, <1>9 DEF Whole

\* The destination takes what is on its way to it.
LEMMA ReadKeepsPassed ==
    ASSUME Types, NEW d \in Direction, PeerRead(d)
    PROVE  Passed(d)' = Passed(d) /\ Types'
<1>1. got[d] \in Seq(Item) /\ outgoing[d] \in Seq(Item) /\ outgoing[d] # <<>>
  BY DEF Types, PeerRead
<1>2. Head(outgoing[d]) \in Item /\ Tail(outgoing[d]) \in Seq(Item)
      /\ outgoing[d] = <<Head(outgoing[d])>> \o Tail(outgoing[d])
  BY <1>1, HeadAndTail
<1>3. got'[d] = Append(got[d], Head(outgoing[d])) /\ outgoing'[d] = Tail(outgoing[d])
  BY DEF Types, PeerRead, Put
<1>4. got[d] \o (<<Head(outgoing[d])>> \o Tail(outgoing[d])) = Append(got[d], Head(outgoing[d])) \o Tail(outgoing[d])
  BY <1>1, <1>2, Moved
<1>5. Passed(d)' = Passed(d)
  BY <1>2, <1>3, <1>4 DEF Passed
<1>6. Types'
  BY <1>1, <1>2 DEF Types, PeerRead, Put
<1> QED BY <1>5, <1>6

\* The source sends one more.
LEMMA SendsOneMore ==
    ASSUME Types, NEW d \in Direction, Cut(d), stage # "ended" => Whole(d), NEW x \in Item,
           peer[Source(d)] # "gone",
           sent'[d] = Append(sent[d], x), incoming'[d] = Append(incoming[d], x),
           UNCHANGED <<stage, pump, frame, outgoing, got>>
    PROVE  Cut(d)' /\ (stage' # "ended" => Whole(d)')
<1>1. Passed(d)' = Passed(d) /\ InHand(d)' = InHand(d)
  BY DEF Passed, InHand
<1>2. /\ got[d] \in Seq(Item) /\ outgoing[d] \in Seq(Item) /\ sent[d] \in Seq(Item)
      /\ InHand(d) \in Seq(Item) /\ <<x>> \in Seq(Item)
  BY HandTyped DEF Types
<1>3. Passed(d) \in Seq(Item)
  BY <1>2, ConcatProperties DEF Passed
<1>4. Cut(d)'
  <2>1. PICK rest \in Seq(Item) : sent[d] = Passed(d) \o rest
    BY DEF Cut
  <2>2. Append(Passed(d) \o rest, x) = Passed(d) \o Append(rest, x)
    BY <1>3, <2>1, AppendToLast
  <2>3. Append(rest, x) \in Seq(Item) /\ sent'[d] = Passed(d)' \o Append(rest, x)
    BY <1>1, <2>1, <2>2
  <2> QED BY <2>3 DEF Cut
<1>5. ASSUME stage' # "ended" PROVE Whole(d)'
  <2>1. PICK rest \in Seq(Item) : sent[d] = Passed(d) \o (InHand(d) \o rest) /\ Arriving(d, rest)
    BY <1>5 DEF Whole
  <2>2. InHand(d) \o rest \in Seq(Item) /\ Append(rest, x) \in Seq(Item)
    BY <1>2, <2>1, ConcatProperties
  <2>3. Append(sent[d], x) = Passed(d) \o Append(InHand(d) \o rest, x)
    BY <1>3, <2>1, <2>2, AppendToLast
  <2>4. Append(InHand(d) \o rest, x) = InHand(d) \o Append(rest, x)
    BY <1>2, <2>1, AppendToLast
  <2>5. Arriving(d, Append(rest, x))'
    BY <2>1 DEF Arriving
  <2>6. sent'[d] = Passed(d)' \o (InHand(d)' \o Append(rest, x))
    BY <1>1, <2>3, <2>4
  <2> QED BY <2>2, <2>5, <2>6 DEF Whole
<1> QED BY <1>4, <1>5

-----------------------------------------------------------------------------
LEMMA TypesStep ==
    ASSUME Types, [Next]_vars
    PROVE  Types'
<1>1. \A d \in Direction : Source(d) \in {"client", "backend"}
  BY DEF Source
<1>2. ASSUME NEW d \in Direction, incoming[d] # <<>>
      PROVE  Tail(incoming[d]) \in Seq(Item \cup {EndOfStream})
  BY <1>2, HeadAndTail DEF Types
<1>3. CASE DialOk \/ DialFail
  BY <1>3 DEF Types, DialOk, DialFail
<1>4. ASSUME NEW d \in Direction, NextFrame(d) PROVE Types'
  BY <1>2, <1>4 DEF Types, NextFrame
<1>5. ASSUME NEW d \in Direction, NextClose(d) PROVE Types'
  BY <1>2, <1>5 DEF Types, NextClose
<1>6. ASSUME NEW d \in Direction, NextFails(d) \/ SendFails(d) PROVE Types'
  BY <1>6 DEF Types, NextFails, SendFails, End, NoFrame
<1>7. ASSUME NEW d \in Direction, Send(d) PROVE Types'
  <2>1. Append(outgoing[d], frame[d]) \in Seq(Item)
    BY DEF Types, Item
  <2> QED BY <1>7, <2>1 DEF Types, Send, Put, NoFrame
<1>8. ASSUME NEW d \in Direction, SinkClose(d) PROVE Types'
  <2>1. Append(outgoing[d], CloseFrame) \in Seq(Item)
    BY DEF Types, Item
  <2> QED BY <1>8, <2>1 DEF Types, SinkClose, End, Put, NoFrame
<1>9. ASSUME NEW d \in Direction, PeerSend(d) PROVE Types'
  <2> DEFINE x == Len(sent[d]) + 1
  <2>1. x \in Item /\ x \in Item \cup {EndOfStream}
    BY DEF Types, Item
  <2>2. Append(sent[d], x) \in Seq(Item) /\ Append(incoming[d], x) \in Seq(Item \cup {EndOfStream})
    BY <2>1 DEF Types
  <2> QED BY <1>9, <2>2 DEF Types, PeerSend, Put
<1>10. ASSUME NEW d \in Direction, PeerClose(d) PROVE Types'
  <2>1. CloseFrame \in Item /\ CloseFrame \in Item \cup {EndOfStream}
    BY DEF Item
  <2>2. Append(sent[d], CloseFrame) \in Seq(Item)
        /\ Append(incoming[d], CloseFrame) \in Seq(Item \cup {EndOfStream})
    BY <2>1 DEF Types
  <2> QED BY <1>1, <1>10, <2>2 DEF Types, PeerClose, Put
<1>11. ASSUME NEW d \in Direction, PeerLeave(d) PROVE Types'
  <2>1. Append(incoming[d], EndOfStream) \in Seq(Item \cup {EndOfStream})
    BY DEF Types
  <2> QED BY <1>1, <1>11, <2>1 DEF Types, PeerLeave, Put
<1>12. ASSUME NEW d \in Direction, PeerRead(d) PROVE Types'
  BY <1>12, ReadKeepsPassed
<1>13. CASE UNCHANGED vars
  BY <1>13 DEF Types, vars
<1> QED BY <1>3, <1>4, <1>5, <1>6, <1>7, <1>8, <1>9, <1>10, <1>11, <1>12, <1>13 DEF Next, Pump

LEMMA WsStep ==
    ASSUME WsInv, [Next]_vars
    PROVE  WsInv'
<1>1. Types /\ \A x \in Direction : Cut(x) /\ (stage # "ended" => Whole(x))
  BY DEF WsInv
<1>2. Types'
  BY <1>1, TypesStep
<1> SUFFICES ASSUME NEW x \in Direction
             PROVE  Cut(x)' /\ (stage' # "ended" => Whole(x)')
  BY <1>2 DEF WsInv
<1>3. Cut(x) /\ (stage # "ended" => Whole(x))
  BY <1>1
<1>4. \A d \in Direction : d # x => Source(d) # Source(x)
  BY DEF Direction, Source
<1>5. CASE DialOk \/ DialFail \/ UNCHANGED vars
  BY <1>3, <1>5, OtherDirection DEF DialOk, DialFail, vars
<1>6. ASSUME NEW d \in Direction, NextFails(d) \/ SendFails(d)
      PROVE  Cut(x)' /\ (stage' # "ended" => Whole(x)')
  BY <1>3, <1>6, OtherDirection DEF NextFails, SendFails, End
<1>7. ASSUME NEW d \in Direction, NextFrame(d) \/ NextClose(d)
      PROVE  Cut(x)' /\ (stage' # "ended" => Whole(x)')
  <2>1. CASE d # x
    BY <1>1, <1>3, <1>7, <2>1, OtherDirection DEF NextFrame, NextClose, Types
  <2>2. CASE d = x
    <3>1. Whole(x)
      BY <1>3, <1>7, <2>2 DEF NextFrame, NextClose, Running
    <3>2. /\ incoming[x] # <<>> /\ Head(incoming[x]) \in Item /\ incoming'[x] = Tail(incoming[x])
          /\ UNCHANGED <<peer, outgoing, sent, got>>
      BY <1>1, <1>7, <2>2 DEF NextFrame, NextClose, Types, Item
    <3>3. InHand(x) = <<>>
      BY <1>7, <2>2 DEF InHand, NextFrame, NextClose, Running
    <3>4. InHand(x)' = <<Head(incoming[x])>>
      BY <1>1, <1>7, <2>2 DEF InHand, NextFrame, NextClose, Types
    <3>5. Whole(x)'
      BY <1>1, <3>1, <3>2, <3>3, <3>4, TakesNext
    <3>6. Cut(x)'
      BY <1>3, <3>2 DEF Cut, Passed
    <3> QED BY <3>5, <3>6
  <2> QED BY <2>1, <2>2
<1>8. ASSUME NEW d \in Direction, Send(d)
      PROVE  Cut(x)' /\ (stage' # "ended" => Whole(x)')
  <2>1. CASE d # x
    BY <1>1, <1>3, <1>8, <2>1, OtherDirection DEF Send, Put, Types
  <2>2. CASE d = x
    <3>1. Whole(x) /\ frame[x] \in Item
      BY <1>1, <1>3, <1>8, <2>2 DEF Send, Running, Types, Item
    <3>2. InHand(x) = <<frame[x]>>
      BY <1>8, <2>2 DEF InHand, Send, Running
    <3>3. InHand(x)' = <<>>
      BY <1>1, <1>8, <2>2 DEF InHand, Send, Types
    <3>4. outgoing'[x] = Append(outgoing[x], frame[x]) /\ UNCHANGED <<peer, incoming, sent, got>>
      BY <1>1, <1>8, <2>2 DEF Send, Put, Types
    <3> QED BY <1>1, <3>1, <3>2, <3>3, <3>4, PutsInHand
  <2> QED BY <2>1, <2>2
<1>9. ASSUME NEW d \in Direction, SinkClose(d)
      PROVE  Cut(x)' /\ (stage' # "ended" => Whole(x)')
  <2>1. stage' = "ended" /\ UNCHANGED <<peer, incoming, sent, got>>
    BY <1>9 DEF SinkClose, End
  <2>2. CASE outgoing'[x] = outgoing[x]
    BY <1>3, <2>1, <2>2, OtherDirection
  <2>3. CASE outgoing'[x] # outgoing[x]
    <3>1. d = x /\ outgoing'[x] = Append(outgoing[x], CloseFrame)
      BY <1>1, <1>9, <2>3 DEF SinkClose, Put, Types
    <3>2. Whole(x) /\ CloseFrame \in Item /\ InHand(x) = <<CloseFrame>>
      BY <1>3, <1>9, <3>1 DEF SinkClose, Running, Item, InHand
    <3>3. InHand(x)' = <<>>
      BY <1>9 DEF InHand, SinkClose, End
    <3> QED BY <1>1, <2>1, <3>1, <3>2, <3>3, PutsInHand
  <2> QED BY <2>2, <2>3
<1>10. ASSUME NEW d \in Direction, PeerSend(d) \/ PeerClose(d)
       PROVE  Cut(x)' /\ (stage' # "ended" => Whole(x)')
  <2>1. /\ UNCHANGED <<stage, pump, frame, outgoing, got>> /\ peer[Source(d)] # "gone"
        /\ \A p \in {"client", "backend"} : peer[p] = "gone" => peer'[p] = "gone"
    <3>1. CASE PeerSend(d)
      BY <1>1, <3>1 DEF PeerSend, Types
    <3>2. CASE PeerClose(d)
      BY <1>1, <3>2 DEF PeerClose, Types
    <3> QED BY <1>10, <3>1, <3>2
  <2>2. PICK y \in Item : sent' = Put(sent, d, y) /\ incoming' = Put(incoming, d, y)
    <3>1. CASE PeerSend(d)
      <4>1. Len(sent[d]) + 1 \in Item
        BY <1>1 DEF Types, Item
      <4> QED BY <3>1, <4>1 DEF PeerSend
    <3>2. CASE PeerClose(d)
      BY <3>2 DEF PeerClose, Item
    <3> QED BY <1>10, <3>1, <3>2
  <2>3. CASE d # x
    <3>1. UNCHANGED <<incoming[x], outgoing[x], sent[x], got[x], pump[x], frame[x]>>
      BY <1>1, <2>1, <2>2, <2>3 DEF Put, Types
    <3>2. peer[Source(x)] = "gone" => peer'[Source(x)] = "gone"
      BY <2>1 DEF Source
    <3> QED BY <1>3, <2>1, <3>1, <3>2, OtherDirection
  <2>4. CASE d = x
    <3>1. sent'[x] = Append(sent[x], y) /\ incoming'[x] = Append(incoming[x], y)
      BY <1>1, <2>2, <2>4 DEF Put, Types
    <3> QED BY <1>1, <1>3, <2>1, <2>4, <3>1, SendsOneMore
  <2> QED BY <2>3, <2>4
<1>11. ASSUME NEW d \in Direction, PeerLeave(d)
       PROVE  Cut(x)' /\ (stage' # "ended" => Whole(x)')
  <2>1. CASE d # x
    BY <1>1, <1>3, <1>4, <1>11, <2>1, OtherDirection DEF PeerLeave, Put, Types
  <2>2. CASE d = x
    <3>1. /\ peer[Source(x)] # "gone" /\ peer'[Source(x)] = "gone"
          /\ incoming'[x] = Append(incoming[x], EndOfStream)
          /\ UNCHANGED <<stage, pump, frame, outgoing, sent, got>>
      BY <1>1, <1>11, <2>2 DEF PeerLeave, Put, Types, Source
    <3>2. Cut(x)' /\ InHand(x)' = InHand(x) /\ Passed(x)' = Passed(x)
      BY <1>3, <3>1 DEF Cut, Passed, InHand
    <3>3. \A rest \in Seq(Item) : Arriving(x, rest) => Arriving(x, rest)'
      BY <3>1 DEF Arriving, Source
    <3> QED BY <1>3, <3>1, <3>2, <3>3 DEF Whole
  <2> QED BY <2>1, <2>2
<1>12. ASSUME NEW d \in Direction, PeerRead(d)
       PROVE  Cut(x)' /\ (stage' # "ended" => Whole(x)')
  <2>1. UNCHANGED <<stage, peer, incoming, pump, frame, sent>>
    BY <1>12 DEF PeerRead
  <2>2. CASE d # x
    BY <1>1, <1>3, <1>12, <2>1, <2>2, OtherDirection DEF PeerRead, Put, Types
  <2>3. CASE d = x
    <3>1. Passed(x)' = Passed(x)
      BY <1>1, <1>12, <2>3, ReadKeepsPassed
    <3>2. InHand(x)' = InHand(x) /\ sent'[x] = sent[x]
      BY <2>1 DEF InHand
    <3>3. \A rest \in Seq(Item) : Arriving(x, rest) => Arriving(x, rest)'
      BY <2>1 DEF Arriving, Source
    <3> QED BY <1>3, <2>1, <3>1, <3>2, <3>3 DEF Cut, Whole
  <2> QED BY <2>2, <2>3
<1> QED BY <1>5, <1>6, <1>7, <1>8, <1>9, <1>10, <1>11, <1>12 DEF Next, Pump

-----------------------------------------------------------------------------
(* The theorems.                                                           *)

(* The inductive invariant holds in every reachable state.                 *)
THEOREM SessionInvariance == Spec => []WsInv
<1> QED BY WsInit, WsStep, PTL DEF Spec

(* What a side receives is what the other sent, from the start, in order   *)
(* and without a gap, wherever the two pumps are when the session ends.    *)
THEOREM FramesInOrder == Spec => []InOrder
<1>1. ASSUME WsInv, NEW d \in Direction PROVE IsPrefix(got[d] \o outgoing[d], sent[d])
  <2>1. PICK rest \in Seq(Item) : sent[d] = Passed(d) \o rest
    BY <1>1 DEF WsInv, Cut
  <2>2. got[d] \in Seq(Item) /\ outgoing[d] \in Seq(Item)
    BY <1>1 DEF WsInv, Types
  <2>3. Passed(d) \in Seq(Item)
    BY <2>2, ConcatProperties DEF Passed
  <2>4. IsPrefix(Passed(d), Passed(d) \o rest)
    BY <2>1, <2>3, PrefixOfConcat
  <2> QED BY <2>1, <2>4 DEF Passed
<1>2. WsInv => InOrder
  BY <1>1 DEF InOrder
<1> QED BY <1>2, SessionInvariance, PTL
=============================================================================
