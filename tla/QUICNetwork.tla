---------------------------- MODULE QUICNetwork ----------------------------
(***************************************************************************)
(* The QUIC transport of one node (network/quic): the session manager and  *)
(* its background dials (sessionmanager.go, dialer.go), a goroutine per    *)
(* packet sent, and the accepting side with a goroutine per session        *)
(* (net.go).                                                               *)
(*                                                                         *)
(* A call stands for one goroutine of Send and for the result channel that *)
(* Dial makes for it: that channel is unbuffered and closed when Dial      *)
(* returns.  A panic in any goroutine ends the program.                    *)
(***************************************************************************)
EXTENDS Naturals, Sequences, FiniteSets

CONSTANTS
    Call,               \* the packets sent, each in a goroutine of its own
    Peer,               \* the identities they are sent to
    Session,            \* the sessions peers open to this node
    NoCall, NoPeer,     \* no call, no peer
    ChanSize            \* capacity of the channels identities and out

ASSUME QUICAssumption == ChanSize \in Nat \ {0} /\ NoCall \notin Call /\ NoPeer \notin Peer

VARIABLES
    call,               \* of each call: [pc, peer, res]
    identities, out,    \* the channels of the manager
    chanMap,            \* the call whose channel waits for the dial of a peer
    manager,            \* its goroutine: [pc, call, id, res]
    dials,              \* the number of background dials, by peer
    session,            \* of each session: "none", "open", "heard" or "unheard" (its
                        \* goroutine has a listener or not), "closed"
    acceptor, qquit,    \* the goroutine handler; Stop was called
    listening, dispatched,  \* a listener is registered; sessions given to one
    crashed             \* a goroutine panicked

sendVars == <<call, identities, out, chanMap, manager, dials>>
recvVars == <<session, acceptor, qquit, listening, dispatched>>
qvars == <<sendVars, recvVars, crashed>>

Selecting == [pc |-> "select", call |-> NoCall, id |-> NoPeer, res |-> "none"]

QInit == /\ call = [c \in Call |-> [pc |-> "new", peer |-> NoPeer, res |-> "none"]]
         /\ identities = <<>> /\ out = <<>> /\ chanMap = [p \in Peer |-> NoCall]
         /\ manager = Selecting /\ dials = [p \in Peer |-> 0]
         /\ session = [s \in Session |-> "none"] /\ acceptor = "accept" /\ qquit = FALSE
         /\ listening = FALSE /\ dispatched = {} /\ crashed = FALSE

-----------------------------------------------------------------------------
(* Send and Dial *)

QSend(c, p) == /\ call[c].pc = "new"
               /\ call' = [call EXCEPT ![c].pc = "enqueue", ![c].peer = p]
               /\ UNCHANGED <<identities, out, chanMap, manager, dials, recvVars, crashed>>

Dial(c) == /\ call[c].pc = "enqueue" /\ Len(identities) < ChanSize
           /\ identities' = Append(identities, c)
           /\ call' = [call EXCEPT ![c].pc = "receive"]
           /\ UNCHANGED <<out, chanMap, manager, dials, recvVars, crashed>>

\* A call that has to wait or whose dial failed drops its packet; with a session
\* it opens a stream, which may fail, and panics if it does.
send(c) == /\ call[c].pc = "returned"
           /\ call' = [call EXCEPT ![c].pc = "ended"]
           /\ IF call[c].res = "session" THEN crashed' \in {FALSE, TRUE} ELSE UNCHANGED crashed
           /\ UNCHANGED <<identities, out, chanMap, manager, dials, recvVars>>

-----------------------------------------------------------------------------
(* The manager's loop: update takes a call or the result of a dial *)

notify(c, id, res) == [pc |-> "notify", call |-> c, id |-> id, res |-> res]

\* Mutant: a peer that is being dialled is dialled again.
updateCallTwice ==
    /\ manager.pc = "select" /\ identities # <<>>
    /\ identities' = Tail(identities)
    /\ LET c == Head(identities)  p == call[c].peer
       IN  /\ chanMap' = [chanMap EXCEPT ![p] = c] /\ dials' = [dials EXCEPT ![p] = @ + 1]
           /\ UNCHANGED manager
    /\ UNCHANGED <<call, out, recvVars, crashed>>

updateCall ==
    /\ manager.pc = "select" /\ identities # <<>>
    /\ identities' = Tail(identities)
    /\ LET c == Head(identities)  p == call[c].peer
       IN  IF chanMap[p] # NoCall
           THEN manager' = notify(c, p, "waiting") /\ UNCHANGED <<chanMap, dials>>
           ELSE /\ chanMap' = [chanMap EXCEPT ![p] = c] /\ dials' = [dials EXCEPT ![p] = @ + 1]
                /\ UNCHANGED manager
    /\ UNCHANGED <<call, out, recvVars, crashed>>

updateResult ==
    /\ manager.pc = "select" /\ out # <<>>
    /\ out' = Tail(out)
    /\ manager' = notify(chanMap[Head(out).id], Head(out).id, Head(out).res)
    /\ UNCHANGED <<call, identities, chanMap, dials, recvVars, crashed>>

\* Mutant: the peer stays in the map.
updatedKeeping(m) == chanMap

\* The peer whose dial has ended leaves the map.
updated(m) == IF m.res = "waiting" THEN chanMap ELSE [chanMap EXCEPT ![m.id] = NoCall]

\* The unbuffered send to the call's channel; a send on a closed or a missing
\* channel would panic or block for ever.
Notify ==
    /\ manager.pc = "notify" /\ manager.call \in Call /\ call[manager.call].pc = "receive"
    /\ call' = [call EXCEPT ![manager.call].pc = "returned", ![manager.call].res = manager.res]
    /\ chanMap' = updated(manager) /\ manager' = Selecting
    /\ UNCHANGED <<identities, out, dials, recvVars, crashed>>

\* The dial of p ends with a session, or with an error at the latest when the
\* handshake times out.
startDial(p) ==
    /\ dials[p] > 0 /\ Len(out) < ChanSize
    /\ \E res \in {"session", "error"} : out' = Append(out, [id |-> p, res |-> res])
    /\ dials' = [dials EXCEPT ![p] = @ - 1]
    /\ UNCHANGED <<call, identities, chanMap, manager, recvVars, crashed>>

-----------------------------------------------------------------------------
(* The accepting side *)

QRegisterListener == /\ ~listening /\ listening' = TRUE
                     /\ UNCHANGED <<sendVars, session, acceptor, qquit, dispatched, crashed>>

QStop == /\ ~qquit /\ qquit' = TRUE
         /\ UNCHANGED <<sendVars, session, acceptor, listening, dispatched, crashed>>

PeerConnects(s) == /\ session[s] = "none" /\ session' = [session EXCEPT ![s] = "open"]
                   /\ UNCHANGED <<sendVars, acceptor, qquit, listening, dispatched, crashed>>

\* The handler only looks at quit when Accept returns; a session's goroutine is
\* given the listeners of that moment.
AcceptSession(s) ==
    /\ acceptor = "accept" /\ session[s] = "open"
    /\ IF qquit THEN acceptor' = "ended" /\ session' = [session EXCEPT ![s] = "closed"]
       ELSE /\ session' = [session EXCEPT ![s] = IF listening THEN "heard" ELSE "unheard"]
            /\ UNCHANGED acceptor
    /\ UNCHANGED <<sendVars, qquit, listening, dispatched, crashed>>

\* The stream fails; or the packet is given to the listeners, who are given nil
\* when it does not decode, which Handel does not survive.
handleSession(s) ==
    /\ session[s] \in {"heard", "unheard"}
    /\ session' = [session EXCEPT ![s] = "closed"]
    /\ \/ UNCHANGED <<dispatched, crashed>>
       \/ /\ session[s] = "heard" /\ dispatched' = dispatched \cup {s}
          /\ crashed' \in {FALSE, TRUE}
    /\ UNCHANGED <<sendVars, acceptor, qquit, listening>>

-----------------------------------------------------------------------------
update == updateCall \/ updateResult \/ Notify

SendSide == \/ \E c \in Call : Dial(c) \/ send(c) \/ \E p \in Peer : QSend(c, p)
            \/ update
            \/ \E p \in Peer : startDial(p)

AcceptSide == \/ QRegisterListener \/ QStop
              \/ \E s \in Session : PeerConnects(s) \/ AcceptSession(s) \/ handleSession(s)

-----------------------------------------------------------------------------
(* Properties *)

\* The number of dials of p whose result has not reached its caller.
Unanswered(p) == dials[p] + Cardinality({i \in 1 .. Len(out) : out[i].id = p})
                 + (IF manager.id = p /\ manager.res # "waiting" THEN 1 ELSE 0)

\* A peer is in the map exactly while one dial of it is on its way, and the
\* caller found there is the one that started it and is still waiting for
\* it (sessionmanager.go:86): no result goes to a channel that was closed, to no
\* channel, or to the wrong caller, although calls for the same peer come and go.
OneDialPerPeer ==
    \A p \in Peer :
        /\ Unanswered(p) = IF chanMap[p] = NoCall THEN 0 ELSE 1
        /\ chanMap[p] # NoCall =>
              /\ call[chanMap[p]].pc = "receive" /\ call[chanMap[p]].peer = p
              /\ \A i \in 1 .. Len(identities) : identities[i] # chanMap[p]
              /\ manager.id = p => manager.call = chanMap[p] \/ manager.res = "waiting"

\* "Dial blocks until session between 2 peers is established or handshake
\* timeouts" (sessionmanager.go:48): every call of Dial returns.
EveryDialReturns ==
    \A c \in Call : call[c].pc = "enqueue" ~> (call[c].pc \in {"returned", "ended"} \/ crashed)
=============================================================================
