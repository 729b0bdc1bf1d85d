----------------------------- MODULE WsSession ------------------------------
(***************************************************************************)
(* A WebSocket session (proxy_websocket in src/src/proxy.rs): the dial,    *)
(* then one pump of frames per direction, both run by one task until the   *)
(* first of them ends and the other is dropped wherever it is.  Sockets    *)
(* are queues with room for a few frames; the client and the backend are   *)
(* the environment, may stop reading for good, and there is no timeout.    *)
(***************************************************************************)
EXTENDS Integers, Sequences, SequencesExt

CONSTANTS
    CloseFrame,     \* a close frame among the frames, which are numbered
    EndOfStream,    \* the end of a connection
    Room,           \* what the buffers of a socket hold, in frames
    Frames          \* bound on the frames each side sends

ASSUME MarkAssumption == CloseFrame \notin Nat /\ EndOfStream \notin Nat \cup {CloseFrame}
ASSUME RoomAssumption == Room \in Nat \ {0} /\ Frames \in Nat

VARIABLES
    stage,          \* "dial", "session", "ended"
    peer,           \* each peer: "open", "closing" (sent a close frame), "gone"
    incoming,       \* per direction: on its way from the source to the pump
    pump, frame,    \* per direction: the place in the loop, and the frame in hand
    outgoing,       \* per direction: on its way from the pump to the destination
    sent, got       \* per direction, history: what the source sent and the destination got

vars == <<stage, peer, incoming, pump, frame, outgoing, sent, got>>

Direction == {"up", "down"}
Source(d) == IF d = "up" THEN "client" ELSE "backend"
Dest(d) == IF d = "up" THEN "backend" ELSE "client"
NoFrame == 0

Put(queues, d, x) == [queues EXCEPT ![d] = Append(@, x)]
HasRoom(queue) == Len(queue) < Room

-----------------------------------------------------------------------------
(* The dial; the client is not looked at meanwhile.                        *)
DialOk ==
    /\ stage = "dial" /\ stage' = "session"
    /\ UNCHANGED <<peer, incoming, pump, frame, outgoing, sent, got>>

DialFail ==
    /\ stage = "dial" /\ stage' = "ended"
    /\ UNCHANGED <<peer, incoming, pump, frame, outgoing, sent, got>>

-----------------------------------------------------------------------------
(* The pumps.                                                              *)
Running(d, place) == stage = "session" /\ pump[d] = place

\* select! returns when the first pump ends, and the other is dropped with
\* the frame it has in hand.
EndRestarts(d) ==               \* mutant of End: a loop around select!
    /\ stage' = IF peer[Source(d)] = "gone" THEN "ended" ELSE stage
    /\ pump' = [x \in Direction |-> "next"]
    /\ frame' = [x \in Direction |-> NoFrame]
End(d) ==
    /\ stage' = "ended"
    /\ pump' = [x \in Direction |-> "over"]
    /\ frame' = [x \in Direction |-> NoFrame]

\* client_stream.next() and backend_stream.next()
NextInTurn(d) ==                \* mutant of NextFrame
    /\ \A x \in Direction : Running(x, "next")
    /\ incoming[d] # <<>> /\ Head(incoming[d]) \in Nat
    /\ incoming' = [incoming EXCEPT ![d] = Tail(@)]
    /\ frame' = [frame EXCEPT ![d] = Head(incoming[d])]
    /\ pump' = [pump EXCEPT ![d] = "send"]
    /\ UNCHANGED <<stage, peer, outgoing, sent, got>>
NextFrame(d) ==
    /\ Running(d, "next")
    /\ incoming[d] # <<>> /\ Head(incoming[d]) \in Nat
    /\ incoming' = [incoming EXCEPT ![d] = Tail(@)]
    /\ frame' = [frame EXCEPT ![d] = Head(incoming[d])]
    /\ pump' = [pump EXCEPT ![d] = "send"]
    /\ UNCHANGED <<stage, peer, outgoing, sent, got>>

NextClose(d) ==
    /\ Running(d, "next")
    /\ incoming[d] # <<>> /\ Head(incoming[d]) = CloseFrame
    /\ incoming' = [incoming EXCEPT ![d] = Tail(@)]
    /\ pump' = [pump EXCEPT ![d] = "close"]
    /\ UNCHANGED <<stage, peer, frame, outgoing, sent, got>>

\* The stream has ended, or failed.
NextFails(d) ==
    /\ Running(d, "next")
    /\ incoming[d] # <<>> /\ Head(incoming[d]) = EndOfStream
    /\ End(d)
    /\ UNCHANGED <<peer, incoming, outgoing, sent, got>>

\* sink.send(frame) waits for room.
Send(d) ==
    /\ Running(d, "send")
    /\ peer[Dest(d)] # "gone" /\ HasRoom(outgoing[d])
    /\ outgoing' = Put(outgoing, d, frame[d])
    /\ frame' = [frame EXCEPT ![d] = NoFrame]
    /\ pump' = [pump EXCEPT ![d] = "next"]
    /\ UNCHANGED <<stage, peer, incoming, sent, got>>

SendFails(d) ==
    /\ Running(d, "send")
    /\ peer[Dest(d)] = "gone"
    /\ End(d)
    /\ UNCHANGED <<peer, incoming, outgoing, sent, got>>

\* sink.close(), whose result is not looked at.
SinkCloseStays(d) ==            \* mutant of SinkClose: without the break
    /\ Running(d, "close")
    /\ peer[Dest(d)] # "gone" /\ HasRoom(outgoing[d])
    /\ outgoing' = Put(outgoing, d, CloseFrame)
    /\ pump' = [pump EXCEPT ![d] = "next"]
    /\ UNCHANGED <<stage, peer, incoming, frame, sent, got>>
SinkClose(d) ==
    /\ Running(d, "close")
    /\ \/ peer[Dest(d)] = "gone" /\ UNCHANGED outgoing
       \/ peer[Dest(d)] # "gone" /\ HasRoom(outgoing[d]) /\ outgoing' = Put(outgoing, d, CloseFrame)
    /\ End(d)
    /\ UNCHANGED <<peer, incoming, sent, got>>

-----------------------------------------------------------------------------
(* The peers.  The backend has no connection before the dial is over.      *)
Present(p) == stage # "dial" \/ p = "client"

PeerSend(d) ==
    /\ Present(Source(d)) /\ peer[Source(d)] = "open"
    /\ Len(sent[d]) < Frames /\ HasRoom(incoming[d])
    /\ sent' = Put(sent, d, Len(sent[d]) + 1)
    /\ incoming' = Put(incoming, d, Len(sent[d]) + 1)
    /\ UNCHANGED <<stage, peer, pump, frame, outgoing, got>>

PeerClose(d) ==
    /\ Present(Source(d)) /\ peer[Source(d)] = "open"
    /\ peer' = [peer EXCEPT ![Source(d)] = "closing"]
    /\ sent' = Put(sent, d, CloseFrame)
    /\ incoming' = Put(incoming, d, CloseFrame)
    /\ UNCHANGED <<stage, pump, frame, outgoing, got>>

PeerLeave(d) ==
    /\ Present(Source(d)) /\ peer[Source(d)] # "gone"
    /\ peer' = [peer EXCEPT ![Source(d)] = "gone"]
    /\ incoming' = Put(incoming, d, EndOfStream)
    /\ UNCHANGED <<stage, pump, frame, outgoing, sent, got>>

PeerRead(d) ==
    /\ peer[Dest(d)] # "gone" /\ outgoing[d] # <<>>
    /\ outgoing' = [outgoing EXCEPT ![d] = Tail(@)]
    /\ got' = Put(got, d, Head(outgoing[d]))
    /\ UNCHANGED <<stage, peer, incoming, pump, frame, sent>>

-----------------------------------------------------------------------------
Init ==
    /\ stage = "dial"
    /\ peer = [p \in {"client", "backend"} |-> "open"]
    /\ incoming = [d \in Direction |-> <<>>] /\ outgoing = incoming
    /\ pump = [d \in Direction |-> "next"] /\ frame = [d \in Direction |-> NoFrame]
    /\ sent = incoming /\ got = incoming

Pump(d) == \/ NextFrame(d) \/ NextClose(d) \/ NextFails(d)
           \/ Send(d) \/ SendFails(d) \/ SinkClose(d)

Next ==
    \/ DialOk \/ DialFail
    \/ \E d \in Direction : \/ Pump(d)
                            \/ PeerSend(d) \/ PeerClose(d) \/ PeerLeave(d) \/ PeerRead(d)

\* The task is polled whenever one of its sockets is ready.
Spec == Init /\ [][Next]_vars /\ \A d \in Direction : WF_vars(Pump(d))

-----------------------------------------------------------------------------
(* Properties.                                                             *)

(* What a side receives is what the other sent, from the start, in order   *)
(* and without a gap, the close frame after everything before it - however *)
(* the pumps race, and although the task drops a frame when it ends        *)
(* (proxy_websocket: the dropped frame is the last thing it does).         *)
InOrder == \A d \in Direction : IsPrefix(got[d] \o outgoing[d], sent[d])

(* A direction whose destination reads makes progress, also when the other *)
(* destination never reads again: what the source sent is forwarded, or    *)
(* the session ends (select! polls both pumps).                            *)
Forwards ==
    \A d \in Direction :
        WF_vars(PeerRead(d)) =>
            (stage = "session" /\ incoming[d] # <<>> ~> stage = "ended" \/ incoming[d] = <<>>)

(* When a peer closes or leaves, the session ends - and its connection is  *)
(* no longer counted - provided the other peer reads what it is sent, or   *)
(* leaves; nothing else bounds it, as no timeout does.                     *)
SessionEnds ==
    \A d \in Direction :
        WF_vars(PeerRead(d)) =>
            (stage = "session" /\ peer[Source(d)] # "open" ~> stage = "ended")
=============================================================================
