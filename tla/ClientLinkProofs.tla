-------------------------- MODULE ClientLinkProofs --------------------------
(***************************************************************************)
(* The browser's hook drives one socket, for any number of sessions, of    *)
(* sockets, of failures and of things the player does.                     *)
(***************************************************************************)
EXTENDS ClientLink, TLAPS

\* A socket is a record, whatever is under way on it.
Shape(k) ==
  k = [st |-> k.st, run |-> k.run, path |-> k.path, sent |-> k.sent, got |-> k.got,
       server |-> k.server, read |-> k.read, pending |-> k.pending, at |-> k.at,
       seat |-> k.seat]

SocketsOK ==
  /\ sock = [s \in Socks |-> sock[s]]
  /\ \A s \in Socks : Shape(sock[s]) /\ sock[s].run \in 0..run

\* A reconnect is scheduled once, and only when the hook's socket has closed; a
\* session that has expired has no other.
DownOK ==
  /\ timers \in {0, 1}
  /\ timers = 1 \/ expired => ws # None /\ sock[ws].st = "closed"

IInv ==
  /\ run \in Nat /\ ws \in Socks \cup {None}
  /\ SocketsOK /\ DownOK /\ OneLink

\* What may become of a socket but by a callback or a new run: it closes, or
\* something is sent or read.
Eased(old, new) ==
  /\ Shape(new) /\ new.run = old.run
  /\ new.st = old.st \/ (new.st = "closing" /\ old.st # "closed")

hook == <<run, signed, expired, ws, timers>>
-----------------------------------------------------------------------------
LEMMA SentOK ==
  ASSUME NEW k, Shape(k), NEW ms
  PROVE  Eased(k, Sent(k, ms)) /\ Sent(k, ms).st = k.st
BY DEF Shape, Sent, Eased

LEMMA GotOK ==
  ASSUME NEW k, Shape(k), NEW x, NEW l, l = [k EXCEPT !.got = x]
  PROVE  Eased(k, l) /\ Shape(l) /\ l.st = k.st
BY DEF Shape, Eased

LEMMA UnderWayOK ==
  ASSUME NEW k, Shape(k), NEW x, NEW l, l = [k EXCEPT !.sent = x]
  PROVE  Eased(k, l) /\ Shape(l) /\ l.st = k.st
BY DEF Shape, Eased

\* What the server notes of a socket.
LEMMA NotedOK ==
  ASSUME NEW k, Shape(k), NEW x, NEW l,
         \/ l = [k EXCEPT !.server = x] \/ l = [k EXCEPT !.read = x]
         \/ l = [k EXCEPT !.pending = x] \/ l = [k EXCEPT !.at = x]
         \/ l = [k EXCEPT !.seat = x]
  PROVE  Eased(k, l) /\ Shape(l) /\ l.st = k.st
BY DEF Shape, Eased

LEMMA ClosingOK ==
  ASSUME NEW k, Shape(k), k.st # "closed"
  PROVE  Eased(k, Closing(k)) /\ Closing(k).st = "closing"
<1> DEFINE a == [k EXCEPT !.st = "closing"]
           b == [a EXCEPT !.sent = <<>>]
           c == [b EXCEPT !.got = <<>>]
<1>1. Closing(k) = c
  BY DEF Closing
<1>2. Shape(a) /\ a.st = "closing" /\ a.run = k.run
  BY DEF Shape
<1> HIDE DEF a
<1>3. Shape(b) /\ b.st = "closing" /\ b.run = k.run
  BY <1>2 DEF Shape
<1> HIDE DEF b
<1>4. Shape(c) /\ c.st = "closing" /\ c.run = k.run
  BY <1>3 DEF Shape
<1> HIDE DEF c
<1> QED BY <1>1, <1>4 DEF Eased

LEMMA ClosedOK == Shape(Closed) /\ Closed.st = "closed" /\ Closed.run = 0
BY DEF Shape, Closed

LEMMA PathOK ==
  ASSUME NEW k, Shape(k), NEW p, NEW l, l = [k EXCEPT !.path = p]
  PROVE  Shape(l) /\ l.st = k.st /\ l.run = k.run /\ Eased(k, l)
BY DEF Shape, Eased

LEMMA DialledOK ==
  ASSUME NEW r
  PROVE  Shape(Dialled(r)) /\ Dialled(r).st = "connecting" /\ Dialled(r).run = r
<1> DEFINE a == [Closed EXCEPT !.st = "connecting"]
           b == [a EXCEPT !.run = r]
           c == [b EXCEPT !.path = TRUE]
<1>1. Dialled(r) = c
  BY DEF Dialled
<1>2. Shape(a) /\ a.st = "connecting"
  BY ClosedOK DEF Shape
<1> HIDE DEF a
<1>3. Shape(b) /\ b.st = "connecting" /\ b.run = r
  BY <1>2 DEF Shape
<1> HIDE DEF b
<1>4. Shape(c) /\ c.st = "connecting" /\ c.run = r
  BY <1>3, PathOK
<1> HIDE DEF c
<1> QED BY <1>1, <1>4

LEMMA EasedTwice ==
  ASSUME NEW k, NEW l, NEW m, Eased(k, l), Eased(l, m)
  PROVE  Eased(k, m)
BY DEF Eased

\* Nothing that eases the sockets disturbs the hook.
LEMMA AllEasedOK ==
  ASSUME IInv, sock' = [x \in Socks |-> sock'[x]],
         \A x \in Socks : Eased(sock[x], sock'[x]), UNCHANGED hook
  PROVE  IInv'
<1>1. SocketsOK'
  <2>1. \A x \in Socks : Shape(sock'[x]) /\ sock'[x].run \in 0..run
    BY DEF IInv, SocketsOK, Eased
  <2> QED BY <2>1 DEF SocketsOK, Shape, hook
<1>2. \A x \in Socks : /\ sock'[x].run = sock[x].run
                       /\ \/ sock'[x].st = sock[x].st
                          \/ sock'[x].st = "closing" /\ sock[x].st # "closed"
  BY DEF Eased
<1>3. DownOK'
  BY <1>2 DEF IInv, DownOK, hook
<1>4. OneLink'
  BY <1>2 DEF IInv, OneLink, hook
<1> QED BY <1>1, <1>3, <1>4 DEF IInv, hook

LEMMA EasedOK ==
  ASSUME IInv, NEW s \in Socks, NEW k, Eased(sock[s], k),
         sock' = [sock EXCEPT ![s] = k], UNCHANGED hook
  PROVE  IInv'
<1>1. sock' = [x \in Socks |-> IF x = s THEN k ELSE sock[x]]
  BY DEF IInv, SocketsOK
<1>2. \A x \in Socks : Eased(sock[x], sock'[x])
  BY <1>1 DEF IInv, SocketsOK, Eased
<1>3. sock' = [x \in Socks |-> sock'[x]]
  BY <1>1
<1> QED BY <1>2, <1>3, AllEasedOK

\* A new socket takes the place of the hook's, which has been closed, was
\* connecting for an earlier session, or is about to close.
LEMMA ConnectOK ==
  ASSUME IInv, NEW socks, NEW r \in Nat, Connect(socks, r),
         socks = [s \in Socks |-> socks[s]],
         \A s \in Socks : Shape(socks[s]) /\ socks[s].run \in 0..r,
         \A s \in Socks : socks[s].st # "open",
         \A s \in Socks : socks[s].st = "connecting" => socks[s].run # r,
         run' = r, signed', ~expired', timers' = 0
  PROVE  IInv'
<1> DEFINE free == {s \in Socks \ {ws} : socks[s].st = "closed"}
<1>0. free # {} /\ ws' = CHOOSE s \in free : TRUE
  BY DEF Connect
<1>1. PICK s \in Socks : /\ sock' = [socks EXCEPT ![s] = Dialled(r)]
                         /\ ws' = s
  <2>1. ws' \in free
    BY <1>0, Zenon
  <2> QED BY <2>1 DEF Connect
<1> HIDE DEF free
<1>2. sock' = [x \in Socks |-> IF x = s THEN Dialled(r) ELSE socks[x]]
  BY <1>1
<1>3. sock'[s].st = "connecting" /\ sock'[s].run = r
  BY <1>2, DialledOK
<1>4. SocketsOK'
  <2>1. sock' = [x \in Socks |-> sock'[x]]
    BY <1>2
  <2>2. \A x \in Socks : Shape(sock'[x]) /\ sock'[x].run \in 0..r
    BY <1>2, DialledOK
  <2> QED BY <2>1, <2>2 DEF SocketsOK, Shape
<1>5. DownOK'
  BY DEF DownOK
<1>6. OneLink'
  BY <1>1, <1>2, <1>3 DEF OneLink
<1> QED BY <1>1, <1>4, <1>5, <1>6 DEF IInv
-----------------------------------------------------------------------------
(* Socket events.                                                          *)

LEMMA OnOpenOK ==
  ASSUME IInv, NEW s \in Socks, OnOpen(s)
  PROVE  IInv'
<1>0. Shape(sock[s]) /\ sock[s].st = "connecting"
  BY DEF OnOpen, IInv, SocketsOK
<1>1. CASE ~IsLive(s)
  <2>1. sock' = [sock EXCEPT ![s] = Closing(sock[s])] /\ UNCHANGED hook
    BY <1>1 DEF OnOpen, hook, session
  <2>2. Eased(sock[s], Closing(sock[s]))
    BY <1>0, ClosingOK
  <2> QED BY <2>1, <2>2, EasedOK
<1>2. CASE IsLive(s)
  <2> DEFINE k == sock[s]
             open == [k EXCEPT !.st = "open"]
             new == Sent(open, <<Msg("authenticate", None)>>)
  <2>1. sock' = [sock EXCEPT ![s] = new] /\ UNCHANGED hook
    BY <1>2 DEF OnOpen, hook, session
  <2>2. Shape(open) /\ open.st = "open" /\ open.run = k.run
    BY <1>0 DEF Shape
  <2> HIDE DEF open
  <2>3. Eased(open, new) /\ new.st = open.st
    BY <2>2, SentOK
  <2>4. Shape(new) /\ new.st = "open" /\ new.run = k.run
    BY <2>2, <2>3 DEF Eased
  <2> HIDE DEF new
  <2>5. sock' = [x \in Socks |-> IF x = s THEN new ELSE sock[x]]
    BY <2>1 DEF IInv, SocketsOK
  <2>6. SocketsOK'
    <3>1. sock' = [x \in Socks |-> sock'[x]]
      BY <2>5
    <3>2. \A x \in Socks : Shape(sock'[x]) /\ sock'[x].run \in 0..run
      BY <2>4, <2>5 DEF IInv, SocketsOK
    <3> QED BY <2>1, <3>1, <3>2 DEF SocketsOK, Shape, hook
  <2>7. ws = s
    BY <1>2 DEF IsLive
  <2>8. \A x \in Socks : /\ sock'[x].run = sock[x].run
                         /\ x # s => sock'[x].st = sock[x].st
    BY <2>4, <2>5
  <2>9. DownOK'
    BY <1>0, <2>1, <2>7 DEF IInv, DownOK, hook
  <2>10. OneLink'
    BY <2>1, <2>7, <2>8 DEF IInv, OneLink, hook
  <2> QED BY <2>1, <2>6, <2>9, <2>10 DEF IInv, hook
<1> QED BY <1>1, <1>2

\* The hook's own socket has closed: a reconnect is scheduled, which it was not,
\* or the session has expired.
LEMMA OnCloseOK ==
  ASSUME IInv, NEW s \in Socks, OnClose(s)
  PROVE  IInv'
<1>0. sock[s].st = "closing" /\ sock' = [x \in Socks |-> IF x = s THEN Closed ELSE sock[x]]
      /\ UNCHANGED <<run, signed, ws>>
  BY DEF OnClose, IInv, SocketsOK
<1>1. SocketsOK'
  <2>1. sock' = [x \in Socks |-> sock'[x]]
    BY <1>0
  <2>2. \A x \in Socks : Shape(sock'[x]) /\ sock'[x].run \in 0..run
    BY <1>0, ClosedOK DEF IInv, SocketsOK
  <2> QED BY <1>0, <2>1, <2>2 DEF SocketsOK, Shape
<1>2. sock'[s].st = "closed" /\ sock'[s].run = 0
  BY <1>0, ClosedOK
<1>3. \A x \in Socks \ {s} : sock'[x] = sock[x]
  BY <1>0
<1>4. CASE ~IsLive(s)
  <2>1. UNCHANGED hook
    BY <1>0, <1>4 DEF OnClose, hook
  <2>2. DownOK'
    BY <1>2, <1>3, <2>1 DEF IInv, DownOK, hook
  <2>3. OneLink'
    BY <1>2, <1>3, <2>1 DEF IInv, OneLink, hook
  <2> QED BY <1>1, <2>1, <2>2, <2>3 DEF IInv, hook
<1>5. CASE IsLive(s)
  <2>1. ws = s /\ signed
    BY <1>5 DEF IsLive
  <2>2. timers = 0 /\ ~expired
    BY <1>0, <2>1 DEF IInv, DownOK
  <2>3. timers' \in {0, 1} /\ (timers' = 1 => ~expired')
    <3>1. /\ expired' = (expired \/ sock[s].server = "refused")
          /\ timers' = IF sock[s].server = "refused" THEN timers ELSE timers + 1
      BY <1>5 DEF OnClose
    <3>2. CASE sock[s].server = "refused"
      BY <2>2, <3>1, <3>2
    <3>3. CASE sock[s].server # "refused"
      <4>1. ~expired'
        BY <2>2, <3>1, <3>3, Zenon
      <4>2. timers' = 1
        BY <2>2, <3>1, <3>3
      <4> QED BY <4>1, <4>2
    <3> QED BY <3>2, <3>3
  <2>4. DownOK'
    BY <1>0, <1>2, <2>1, <2>3, LinkAssumption DEF DownOK
  <2>5. OneLink'
    BY <1>0, <1>2, <1>3, <2>1, <2>3 DEF IInv, OneLink
  <2> QED BY <1>0, <1>1, <2>4, <2>5 DEF IInv
<1> QED BY <1>4, <1>5

LEMMA PongTimesOutOK ==
  ASSUME IInv, NEW s \in Socks, PongTimesOut(s)
  PROVE  IInv'
<1>1. sock' = [sock EXCEPT ![s] = Closing(sock[s])] /\ UNCHANGED hook
  BY DEF PongTimesOut, hook, session
<1>2. Eased(sock[s], Closing(sock[s]))
  BY ClosingOK DEF PongTimesOut, IInv, SocketsOK
<1> QED BY <1>1, <1>2, EasedOK

LEMMA OnMessageOK ==
  ASSUME IInv, NEW s \in Socks, OnMessage(s)
  PROVE  IInv'
<1> DEFINE old == sock[s]
           k == [old EXCEPT !.got = Tail(@)]
<1>1. UNCHANGED hook
  BY DEF OnMessage, hook, session
<1>2. \/ sock' = [sock EXCEPT ![s] = Sent(k, Resumption)]
      \/ sock' = [sock EXCEPT ![s] = k]
  BY DEF OnMessage
<1>3. Shape(old)
  BY DEF IInv, SocketsOK
<1> HIDE DEF old
<1>4. Eased(old, k) /\ Shape(k)
  BY <1>3, GotOK
<1> HIDE DEF k
<1>5. Eased(old, Sent(k, Resumption))
  BY <1>4, SentOK, EasedTwice
<1> QED BY <1>1, <1>2, <1>4, <1>5, EasedOK DEF old
-----------------------------------------------------------------------------
(* Connecting, and sessions.                                               *)

\* The hook's socket is down, so whatever else is still to open is of an earlier
\* session.
LEMMA AgainOK ==
  ASSUME IInv, Connect(sock, run), signed, ~expired, ws # None,
         sock[ws].st \in {"closing", "closed"},
         timers' = 0, UNCHANGED <<run, signed, expired>>
  PROVE  IInv'
<1>1. \A s \in Socks : sock[s].st # "open"
  BY DEF IInv, OneLink
<1>2. \A s \in Socks : sock[s].st = "connecting" => sock[s].run # run
  BY DEF IInv, OneLink
<1>3. /\ sock = [s \in Socks |-> sock[s]]
      /\ \A s \in Socks : Shape(sock[s]) /\ sock[s].run \in 0..run
      /\ run \in Nat
  BY DEF IInv, SocketsOK
<1> QED BY <1>1, <1>2, <1>3, ConnectOK

LEMMA ReconnectTimerFiresOK ==
  ASSUME IInv, ReconnectTimerFires
  PROVE  IInv'
<1>1. timers = 1 /\ ws # None /\ sock[ws].st = "closed" /\ signed /\ ~expired
  BY DEF ReconnectTimerFires, IInv, DownOK, OneLink
<1>2. /\ timers' = 0 /\ Connect(sock, run) /\ UNCHANGED <<run, signed, expired>>
  BY <1>1 DEF ReconnectTimerFires, session
<1> QED BY <1>1, <1>2, AgainOK

LEMMA CheckLinkOK ==
  ASSUME IInv, CheckLink
  PROVE  IInv'
<1>1. timers' = 0
  BY DEF CheckLink, IInv, DownOK
<1>2. /\ Connect(sock, run) /\ signed /\ ~expired /\ ws # None
      /\ sock[ws].st \in {"closing", "closed"} /\ UNCHANGED <<run, signed, expired>>
  BY DEF CheckLink, session
<1> QED BY <1>1, <1>2, AgainOK

\* After the cleanup no socket is open, and those still connecting are of a
\* session that has ended.
LEMMA CleanedUpOK ==
  ASSUME IInv
  PROVE  /\ CleanedUp = [s \in Socks |-> CleanedUp[s]]
         /\ \A s \in Socks : /\ Shape(CleanedUp[s]) /\ CleanedUp[s].run = sock[s].run
                             /\ CleanedUp[s].run \in 0..run
                             /\ CleanedUp[s].st # "open"
<1>1. CleanedUp = [s \in Socks |-> CleanedUp[s]]
  BY DEF CleanedUp
<1>2. ASSUME NEW s \in Socks
      PROVE  /\ Shape(CleanedUp[s]) /\ CleanedUp[s].run = sock[s].run
             /\ CleanedUp[s].run \in 0..run
             /\ CleanedUp[s].st # "open"
  <2>1. Shape(sock[s]) /\ sock[s].run \in 0..run
    BY DEF IInv, SocketsOK
  <2>2. CASE s = ws /\ sock[s].st \notin {"connecting", "closed"}
    <3>1. CleanedUp[s] = Closing(sock[s])
      BY <2>2 DEF CleanedUp
    <3>2. /\ Shape(Closing(sock[s])) /\ Closing(sock[s]).run = sock[s].run
          /\ Closing(sock[s]).st = "closing"
      BY <2>1, <2>2, ClosingOK DEF Eased
    <3> QED BY <2>1, <3>1, <3>2
  <2>3. CASE ~(s = ws /\ sock[s].st \notin {"connecting", "closed"})
    <3>1. CleanedUp[s] = sock[s]
      BY <2>3 DEF CleanedUp
    <3>2. sock[s].st # "open"
      BY <2>3 DEF IInv, OneLink
    <3> QED BY <2>1, <3>1, <3>2
  <2> QED BY <2>2, <2>3
<1> QED BY <1>1, <1>2

LEMMA SignInOK ==
  ASSUME IInv, SignIn
  PROVE  IInv'
<1> DEFINE socks == CleanedUp
<1>1. /\ Connect(socks, run + 1) /\ run' = run + 1 /\ signed' /\ ~expired' /\ timers' = 0
  BY DEF SignIn, Reset
<1>2. run + 1 \in Nat /\ run \in Nat
  BY DEF IInv
<1>3. /\ socks = [s \in Socks |-> socks[s]]
      /\ \A s \in Socks : /\ Shape(socks[s]) /\ socks[s].run \in 0..run
                          /\ socks[s].st # "open"
  BY CleanedUpOK
<1> HIDE DEF socks
<1>4. \A s \in Socks : socks[s].run \in 0..(run + 1) /\ socks[s].run # run + 1
  BY <1>2, <1>3
<1> QED BY <1>1, <1>2, <1>3, <1>4, ConnectOK

LEMMA SignOutOK ==
  ASSUME IInv, SignOut
  PROVE  IInv'
<1>1. /\ sock' = CleanedUp /\ ws' = None /\ run' = run + 1 /\ ~signed' /\ ~expired'
      /\ timers' = 0
  BY DEF SignOut, Reset
<1>2. run \in Nat
  BY DEF IInv
<1>3. /\ sock' = [s \in Socks |-> sock'[s]]
      /\ \A s \in Socks : /\ Shape(sock'[s]) /\ sock'[s].run \in 0..run
                          /\ sock'[s].st # "open"
  BY <1>1, CleanedUpOK
<1>4. \A s \in Socks : sock'[s].run \in 0..(run + 1) /\ sock'[s].run # run + 1
  BY <1>2, <1>3
<1>5. SocketsOK'
  BY <1>1, <1>3, <1>4 DEF SocketsOK, Shape
<1>6. DownOK'
  BY <1>1 DEF DownOK
<1>7. OneLink'
  BY <1>1, <1>3, <1>4 DEF OneLink
<1> QED BY <1>1, <1>2, <1>5, <1>6, <1>7 DEF IInv
-----------------------------------------------------------------------------
(* The player, the server and the network.                                 *)

\* What leaves the sockets alone, and the hook.
LEMMA AloneOK ==
  ASSUME IInv, UNCHANGED <<sock, hook>>
  PROVE  IInv'
BY DEF IInv, SocketsOK, Shape, DownOK, OneLink, hook

LEMMA SaysOK ==
  ASSUME IInv, ws \in Socks, NEW ms, UNCHANGED hook,
         sock' = [sock EXCEPT ![ws] = Sent(sock[ws], ms)]
  PROVE  IInv'
<1>1. Eased(sock[ws], Sent(sock[ws], ms))
  BY SentOK DEF IInv, SocketsOK
<1> QED BY <1>1, EasedOK

LEMMA EnterOK ==
  ASSUME IInv, NEW m, Enter(m)
  PROVE  IInv'
<1>1. UNCHANGED hook
  BY DEF Enter, hook, session
<1>2. CASE ws = None \/ sock[ws].st # "open" \/ ~authed
  <2>1. UNCHANGED sock
    BY <1>2 DEF Enter, Send
  <2> QED BY <1>1, <2>1, AloneOK
<1>3. CASE ~(ws = None \/ sock[ws].st # "open" \/ ~authed)
  <2>1. /\ ws \in Socks
        /\ sock' = [sock EXCEPT ![ws] = Sent(sock[ws], <<Entering(m, seated')>>)]
    BY <1>3 DEF Enter, Send, IInv
  <2> QED BY <1>1, <2>1, SaysOK
<1> QED BY <1>2, <1>3

LEMMA LeaveOK ==
  ASSUME IInv, Leave
  PROVE  IInv'
<1>1. UNCHANGED hook
  BY DEF Leave, hook, session
<1>2. CASE ws # None /\ sock[ws].st = "open"
  <2>1. ws \in Socks /\ sock' = [sock EXCEPT ![ws] = Sent(sock[ws], <<Msg("leave", match)>>)]
    BY <1>2 DEF Leave, IInv
  <2> QED BY <1>1, <2>1, SaysOK
<1>3. CASE ~(ws # None /\ sock[ws].st = "open")
  <2>1. UNCHANGED sock
    BY <1>3 DEF Leave
  <2> QED BY <1>1, <2>1, AloneOK
<1> QED BY <1>2, <1>3

\* The server's answer to a message read from an open socket.
LEMMA AppendedOK ==
  ASSUME NEW k, Shape(k), NEW msg
  PROVE  Eased(k, [k EXCEPT !.got = Append(k.got, msg)])
BY DEF Shape, Eased

LEMMA DispatchedOK ==
  ASSUME NEW k, Shape(k), k.st = "open", NEW msg
  PROVE  Eased(k, Dispatched(k, msg))
<1> DEFINE refused == [k EXCEPT !.server = "refused"]
           accepted == [k EXCEPT !.server = "ok"]
           answered == [accepted EXCEPT !.got = Append(accepted.got, Msg("authenticated", None))]
           awaited == [k EXCEPT !.pending = msg]
           left == [k EXCEPT !.at = None]
           gone == [left EXCEPT !.seat = FALSE]
<1>1. \/ Dispatched(k, msg) = Closing(refused)
      \/ Dispatched(k, msg) = answered
      \/ Dispatched(k, msg) = awaited
      \/ Dispatched(k, msg) = gone
      \/ Dispatched(k, msg) = k
  BY DEF Dispatched
<1>2. /\ Eased(k, refused) /\ Shape(refused) /\ refused.st = "open"
      /\ Eased(k, accepted) /\ Shape(accepted)
      /\ Eased(k, awaited)
      /\ Eased(k, left) /\ Shape(left)
  BY NotedOK
<1> HIDE DEF refused, accepted, awaited, left
<1>3. Eased(k, Closing(refused))
  <2>1. Eased(refused, Closing(refused))
    BY <1>2, ClosingOK
  <2> QED BY <1>2, <2>1, EasedTwice
<1>4. Eased(k, answered)
  <2>1. Eased(accepted, answered)
    BY <1>2, AppendedOK
  <2> QED BY <1>2, <2>1, EasedTwice
<1>5. Eased(k, gone)
  <2>1. Eased(left, gone)
    BY <1>2, NotedOK
  <2> QED BY <1>2, <2>1, EasedTwice
<1>6. Eased(k, k)
  BY DEF Eased
<1> QED BY <1>1, <1>2, <1>3, <1>4, <1>5, <1>6

LEMMA ServerReadsOK ==
  ASSUME IInv, NEW s \in Socks, ServerReads(s)
  PROVE  IInv'
<1> DEFINE old == sock[s]
           taken == [old EXCEPT !.sent = Tail(@)]
           k == [taken EXCEPT !.read = IF @ <= Burst THEN @ + 1 ELSE @]
           limited == [k EXCEPT !.got = Append(k.got, Msg("limited", None))]
           msg == Head(old.sent)
<1>1. UNCHANGED hook /\ Shape(old) /\ old.st = "open"
  BY DEF ServerReads, hook, session, IInv, SocketsOK
<1>2. \/ sock' = [sock EXCEPT ![s] = Dispatched(k, msg)]
      \/ sock' = [sock EXCEPT ![s] = limited]
  BY DEF ServerReads
<1> HIDE DEF old, msg
<1>3. Eased(old, taken) /\ Shape(taken) /\ taken.st = "open"
  BY <1>1, UnderWayOK
<1> HIDE DEF taken
<1>4. Eased(taken, k) /\ Shape(k) /\ k.st = "open"
  BY <1>3, NotedOK
<1> HIDE DEF k
<1>5. Eased(k, Dispatched(k, msg)) /\ Eased(k, limited)
  BY <1>4, DispatchedOK, AppendedOK
<1> HIDE DEF limited
<1>6. Eased(old, Dispatched(k, msg)) /\ Eased(old, limited)
  BY <1>3, <1>4, <1>5, EasedTwice
<1> QED BY <1>1, <1>2, <1>6, EasedOK DEF old

LEMMA AnsweredOK ==
  ASSUME NEW k, Shape(k), NEW p
  PROVE  Eased(k, Answered(k, p))
<1> DEFINE there == [k EXCEPT !.at = p.match]
           seat == [there EXCEPT !.seat = TRUE]
<1>1. \E msg : \/ Answered(k, p) = [k EXCEPT !.got = Append(k.got, msg)]
               \/ Answered(k, p) = [there EXCEPT !.got = Append(there.got, msg)]
               \/ Answered(k, p) = [seat EXCEPT !.got = Append(seat.got, msg)]
  BY DEF Answered
<1>2. Eased(k, there) /\ Shape(there)
  BY NotedOK
<1> HIDE DEF there
<1>3. Eased(there, seat) /\ Shape(seat)
  BY <1>2, NotedOK
<1> HIDE DEF seat
<1>4. ASSUME NEW msg
      PROVE  /\ Eased(k, [k EXCEPT !.got = Append(k.got, msg)])
             /\ Eased(there, [there EXCEPT !.got = Append(there.got, msg)])
             /\ Eased(seat, [seat EXCEPT !.got = Append(seat.got, msg)])
  BY <1>2, <1>3, AppendedOK
<1> QED BY <1>1, <1>2, <1>3, <1>4, EasedTwice

LEMMA ServerAnswersOK ==
  ASSUME IInv, NEW s \in Socks, ServerAnswers(s)
  PROVE  IInv'
<1> DEFINE old == sock[s]
           p == old.pending
           k == [old EXCEPT !.pending = None]
<1>1. UNCHANGED hook /\ Shape(old)
  BY DEF ServerAnswers, hook, session, IInv, SocketsOK
<1>2. PICK msg : \/ sock' = [sock EXCEPT ![s] = Answered(k, p)]
                 \/ sock' = [sock EXCEPT ![s] = [k EXCEPT !.got = Append(k.got, msg)]]
  BY DEF ServerAnswers
<1> HIDE DEF old, p
<1>3. Eased(old, k) /\ Shape(k)
  BY <1>1, NotedOK
<1> HIDE DEF k
<1>4. /\ Eased(k, Answered(k, p))
      /\ Eased(k, [k EXCEPT !.got = Append(k.got, msg)])
  BY <1>3, AnsweredOK, AppendedOK
<1>5. /\ Eased(old, Answered(k, p))
      /\ Eased(old, [k EXCEPT !.got = Append(k.got, msg)])
  BY <1>3, <1>4, EasedTwice
<1> QED BY <1>1, <1>2, <1>5, EasedOK DEF old

\* Every socket at the match is sent its state.
LEMMA MatchStartsOK ==
  ASSUME IInv, NEW m, MatchStarts(m)
  PROVE  IInv'
<1>1. UNCHANGED hook
  BY DEF MatchStarts, hook, session
<1>2. sock' = [x \in Socks |-> sock'[x]]
  BY DEF MatchStarts
<1>3. ASSUME NEW x \in Socks PROVE Eased(sock[x], sock'[x])
  <2>1. PICK k : k = sock[x]
    OBVIOUS
  <2>2. PICK msg : sock'[x] \in {k, [k EXCEPT !.got = Append(k.got, msg)]}
    BY <2>1 DEF MatchStarts
  <2>3. Shape(k)
    BY <2>1 DEF IInv, SocketsOK
  <2>4. Eased(k, k) /\ Eased(k, [k EXCEPT !.got = Append(k.got, msg)])
    BY <2>3, AppendedOK DEF Eased
  <2> QED BY <2>1, <2>2, <2>4
<1> QED BY <1>1, <1>2, <1>3, AllEasedOK

LEMMA LinkFailsOK ==
  ASSUME IInv, NEW s \in Socks, LinkFails(s)
  PROVE  IInv'
<1> DEFINE k == sock[s]
           dead == [k EXCEPT !.path = FALSE]
           unsent == [dead EXCEPT !.sent = <<>>]
           lost == [unsent EXCEPT !.got = <<>>]
<1>1. UNCHANGED hook /\ Shape(k) /\ k.st # "closed"
  BY DEF LinkFails, hook, session, IInv, SocketsOK
<1>2. \/ sock' = [sock EXCEPT ![s] = lost]
      \/ sock' = [sock EXCEPT ![s] = Closing(k)]
  BY DEF LinkFails
<1> HIDE DEF k
<1>3. Eased(k, dead) /\ Shape(dead)
  BY <1>1, PathOK
<1> HIDE DEF dead
<1>4. Eased(dead, unsent) /\ Shape(unsent)
  BY <1>3, UnderWayOK
<1> HIDE DEF unsent
<1>5. Eased(unsent, lost)
  BY <1>4, GotOK
<1> HIDE DEF lost
<1>6. Eased(k, lost)
  <2>1. Eased(k, unsent)
    BY <1>3, <1>4, EasedTwice
  <2> QED BY <1>5, <2>1, EasedTwice
<1>7. Eased(k, Closing(k))
  BY <1>1, ClosingOK
<1> QED BY <1>1, <1>2, <1>6, <1>7, EasedOK DEF k
-----------------------------------------------------------------------------
LEMMA InitOK == Init => IInv
<1> SUFFICES ASSUME Init PROVE IInv
  OBVIOUS
<1>1. SocketsOK
  BY ClosedOK DEF Init, SocketsOK
<1>2. DownOK
  BY DEF Init, DownOK
<1>3. OneLink
  BY ClosedOK DEF Init, OneLink
<1> QED BY <1>1, <1>2, <1>3 DEF Init, IInv

LEMMA StepOK == IInv /\ [Next]_vars => IInv'
<1> SUFFICES ASSUME IInv, [Next]_vars PROVE IInv'
  OBVIOUS
<1>1. CASE UNCHANGED vars
  <2>1. UNCHANGED <<sock, hook>>
    BY <1>1 DEF vars, session, hook
  <2> QED BY <2>1, AloneOK
<1>2. ASSUME NEW s \in Socks, SocketEvent(s) \/ Server(s) \/ LinkFails(s)
      PROVE  IInv'
  BY <1>2, OnOpenOK, OnCloseOK, PongTimesOutOK, OnMessageOK, ServerReadsOK,
     ServerAnswersOK, LinkFailsOK DEF SocketEvent, Server
<1>3. CASE ReconnectTimerFires \/ CheckLink \/ SignIn \/ SignOut \/ Leave
  BY <1>3, ReconnectTimerFiresOK, CheckLinkOK, SignInOK, SignOutOK, LeaveOK
<1>4. CASE Dismiss \/ Revoke
  <2>1. UNCHANGED <<sock, hook>>
    BY <1>4 DEF Dismiss, Revoke, session, hook
  <2> QED BY <2>1, AloneOK
<1>5. ASSUME NEW m \in Matches, Enter(m) \/ MatchStarts(m) \/ MatchEnds(m)
      PROVE  IInv'
  <2>1. CASE Enter(m)
    BY <2>1, EnterOK
  <2>2. CASE MatchStarts(m)
    BY <2>2, MatchStartsOK
  <2>3. CASE MatchEnds(m)
    <3>1. UNCHANGED <<sock, hook>>
      BY <2>3 DEF MatchEnds, session, hook
    <3> QED BY <3>1, AloneOK
  <2> QED BY <1>5, <2>1, <2>2, <2>3
<1> QED BY <1>1, <1>2, <1>3, <1>4, <1>5 DEF Next

\* The hook never drives two sockets, nor schedules a connection for a session
\* that is over, whichever callbacks of earlier runs are still to come
\* (useGameConnection.ts: isLive, connect, checkLinkRef and the cleanup).
THEOREM HookDrivesOneSocket == Spec => []OneLink
<1>1. IInv => OneLink
  BY DEF IInv
<1> QED BY <1>1, InitOK, StepOK, PTL DEF Spec
=============================================================================
