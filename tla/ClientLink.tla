----------------------------- MODULE ClientLink -----------------------------
(***************************************************************************)
(* The browser's connection to the game: frontend/src/useGameConnection.ts *)
(* against what ws-server.ts answers a socket.                             *)
(*                                                                         *)
(* One run of the hook's effect is a session, from a token to the next.    *)
(* Timers and socket events of a run may fire after the next has begun.    *)
(* Which seat a player asks for is left out: ENTER_ROOM is "enter" and      *)
(* JOIN is "join", answered by the player's own STATE_UPDATE ("state"), by *)
(* what everybody sees ("view": a ROOM_UPDATE or a watcher's STATE_UPDATE) *)
(* or by an error.  The server's side is its contract (SocketServer has    *)
(* the detail): it reads in order, drops an "enter" or "join" while one is *)
(* being awaited, and answers.                                             *)
(***************************************************************************)
EXTENDS Naturals, FiniteSets, Sequences

CONSTANTS
  Socks,       \* WebSocket objects; a closed one is used again
  Matches,     \* match ids
  None,        \* no socket, no match
  QueueLimit,  \* length the offline queue stops at (32)
  Burst,       \* messages a new connection may send at once (40)
  MaxRuns,     \* bound: sessions
  MaxFaults,   \* bound: failing connections, dying paths, server closes, errors,
               \* matches that start or end
  MaxActs      \* bound: what the player does, waking the tab included

ASSUME LinkAssumption ==
  /\ None \notin Socks \cup Matches
  /\ {QueueLimit, Burst, MaxRuns, MaxFaults, MaxActs} \subseteq Nat
  /\ Burst >= QueueLimit + 3

VARIABLES
  run,      \* the effect's current run
  signed,   \* there is a token
  revoked,  \* runs whose token the server refuses
  sock,     \* the sockets and the server's side of them
  ws,       \* wsRef
  authed,   \* authenticatedRef
  expired,  \* sessionExpired
  timers,   \* reconnect timers pending
  match,    \* matchIdRef; resumeRef names it too
  seated,   \* resumeRef names a seat
  table,    \* the match on the screen (room, state)
  toast,    \* lastError: an error's code, None while nothing is shown
  queue,    \* queueRef: "enter" and "join" messages
  started,  \* matches that are no rooms any more
  ended,    \* matches the server no longer has
  faults, acts

session == <<run, signed, revoked, expired>>
game    == <<match, seated, table, toast, queue>>
fates   == <<started, ended>>
budget  == <<faults, acts>>
vars == <<session, sock, ws, authed, timers, game, fates, budget>>

\* `path` tells if anything still gets through; `sent` and `got` are what is
\* under way in either direction; the server has the socket authenticated or
\* refused, has read a number of messages, awaits a message's command or not,
\* and has it at a match or not, with a seat or not.
Closed == [st |-> "closed", run |-> 0, path |-> FALSE, sent |-> <<>>, got |-> <<>>,
           server |-> "new", read |-> 0, pending |-> None, at |-> None, seat |-> FALSE]
Dialled(r) == [Closed EXCEPT !.st = "connecting", !.run = r, !.path = TRUE]

Msg(kind, m) == [kind |-> kind, match |-> m]
Entering(m, seat) == Msg(IF seat THEN "join" ELSE "enter", m)

\* Mutant of IsLive: one flag, shared by all runs, tells the callbacks if they are stale.
IsLiveShared(s) == signed

Updates == {"view", "state"}

\* What the socket's callbacks ask first.
IsLive(s) == signed /\ sock[s].run = run /\ ws = s

Fault == faults < MaxFaults /\ faults' = faults + 1 /\ UNCHANGED acts
Act == acts < MaxActs /\ acts' = acts + 1 /\ UNCHANGED faults

\* ws.send, on a socket the network may have swallowed.
Sent(k, ms) == IF k.path THEN [k EXCEPT !.sent = @ \o ms] ELSE k

\* ws.close(): what is under way is not delivered any more.
Closing(k) == [k EXCEPT !.st = "closing", !.sent = <<>>, !.got = <<>>]

\* connect(), when `socks` are the sockets; any closed one stands for the new one.
Connect(socks, r) ==
  LET free == {s \in Socks \ {ws} : socks[s].st = "closed"}
  IN  /\ free # {}
      /\ ws' = CHOOSE s \in free : TRUE
      /\ sock' = [socks EXCEPT ![ws'] = Dialled(r)]
-----------------------------------------------------------------------------
(* Socket events.                                                          *)

OnOpen(s) ==
  /\ sock[s].st = "connecting" /\ sock[s].path
  /\ sock' = [sock EXCEPT ![s] =
       IF IsLive(s)
       THEN Sent([@ EXCEPT !.st = "open"], <<Msg("authenticate", None)>>)
       ELSE Closing(@)]
  /\ UNCHANGED <<session, ws, authed, timers, game, fates, budget>>

\* onclose: the live socket schedules a reconnect, or ends the session if the
\* server refused the token.
OnClose(s) ==
  /\ sock[s].st = "closing"
  /\ sock' = [sock EXCEPT ![s] = Closed]
  /\ IF ~IsLive(s) THEN UNCHANGED <<authed, expired, timers>>
     ELSE /\ authed' = FALSE
          /\ expired' = (expired \/ sock[s].server = "refused")
          /\ timers' = IF sock[s].server = "refused" THEN timers ELSE timers + 1
  /\ UNCHANGED <<run, signed, revoked, ws, game, fates, budget>>

ReconnectTimerFires ==
  /\ timers > 0
  /\ timers' = timers - 1
  /\ Connect(sock, run)
  /\ UNCHANGED <<session, authed, game, fates, budget>>

\* The PING went unanswered: nothing gets through.
PongTimesOut(s) ==
  /\ sock[s].st = "open" /\ ~sock[s].path /\ IsLive(s)
  /\ sock' = [sock EXCEPT ![s] = Closing(@)]
  /\ UNCHANGED <<session, ws, authed, timers, game, fates, budget>>

\* Mutant of Resumption: only the queue goes out.
QueueOnly == queue

\* What goes out on AUTHENTICATED: the match we were at, then the queue.
Resumption == (IF match = None THEN <<>> ELSE <<Entering(match, seated)>>) \o queue

\* An update shows its match; the player's own state also says that the match we
\* are in is to be resumed with a seat.
OnUpdate(msg) ==
  /\ table' = msg.match
  /\ seated' = (seated \/ (msg.kind = "state" /\ match # None))
  /\ UNCHANGED <<match, toast>>

\* MATCH_NOT_FOUND drops the match we are in; RATE_LIMITED is passed over; all
\* other errors are only shown.
OnError(kind) ==
  /\ IF kind = "not found" /\ match # None
     THEN match' = None /\ seated' = FALSE /\ table' = None
     ELSE UNCHANGED <<match, seated, table>>
  /\ toast' = IF kind = "limited" THEN toast ELSE kind

OnMessage(s) ==
  LET msg == Head(sock[s].got)
      k   == [sock[s] EXCEPT !.got = Tail(@)]
  IN  /\ sock[s].st = "open" /\ sock[s].path /\ sock[s].got # <<>>
      /\ \/ /\ IsLive(s) /\ msg.kind = "authenticated"
            /\ authed' = TRUE /\ queue' = <<>>
            /\ sock' = [sock EXCEPT ![s] = Sent(k, Resumption)]
            /\ UNCHANGED <<match, seated, table, toast>>
         \/ /\ IsLive(s) /\ msg.kind # "authenticated"
            /\ IF msg.kind \in Updates THEN OnUpdate(msg) ELSE OnError(msg.kind)
            /\ sock' = [sock EXCEPT ![s] = k]
            /\ UNCHANGED <<authed, queue>>
         \/ /\ ~IsLive(s)
            /\ sock' = [sock EXCEPT ![s] = k]
            /\ UNCHANGED <<authed, game>>
      /\ UNCHANGED <<session, ws, timers, fates, budget>>

\* checkLinkRef: the tab wakes, or the network is back.  An open socket is
\* only pinged, which PongTimesOut answers.
CheckLink ==
  /\ Act /\ signed /\ ~expired /\ ws # None
  /\ sock[ws].st \in {"closing", "closed"}
  /\ timers' = IF timers > 0 THEN timers - 1 ELSE 0
  /\ Connect(sock, run)
  /\ UNCHANGED <<session, authed, game, fates>>
-----------------------------------------------------------------------------
(* Sessions.                                                               *)

\* The effect's cleanup: the sockets after it.  One that is still connecting
\* is left to its own onopen.
CleanedUp ==
  [s \in Socks |-> IF s = ws /\ sock[s].st \notin {"connecting", "closed"}
                   THEN Closing(sock[s]) ELSE sock[s]]

Reset == /\ timers' = 0 /\ authed' = FALSE /\ match' = None /\ table' = None
         /\ seated' = FALSE /\ toast' = None /\ queue' = <<>>
         /\ expired' = FALSE /\ run' = run + 1

\* The token changes: the cleanup and the next run come back to back.
SignIn ==
  /\ Act /\ run < MaxRuns
  /\ Reset /\ signed' = TRUE
  /\ Connect(CleanedUp, run + 1)
  /\ UNCHANGED <<revoked, fates>>

SignOut ==
  /\ Act /\ signed
  /\ Reset /\ signed' = FALSE
  /\ sock' = CleanedUp /\ ws' = None
  /\ UNCHANGED <<revoked, fates>>

-----------------------------------------------------------------------------
(* The player.                                                             *)

\* `send`: to the socket once it is authenticated, to the bounded queue before.
Send(msg) ==
  IF ws = None \/ sock[ws].st # "open" \/ ~authed
  THEN /\ queue' = IF Len(queue) < QueueLimit THEN Append(queue, msg) ELSE queue
       /\ UNCHANGED sock
  ELSE /\ sock' = [sock EXCEPT ![ws] = Sent(@, <<msg>>)]
       /\ UNCHANGED queue

\* enterRoom and claimSeat.
Enter(m) ==
  /\ Act /\ signed
  /\ match' = m /\ seated' \in BOOLEAN
  /\ Send(Entering(m, seated'))
  /\ UNCHANGED <<session, ws, authed, timers, table, toast, fates>>

\* leaveMatch tells the server if the socket is open, authenticated or not; what
\* is queued stays queued.
Leave ==
  /\ Act /\ signed /\ match # None
  /\ sock' = IF ws # None /\ sock[ws].st = "open"
             THEN [sock EXCEPT ![ws] = Sent(@, <<Msg("leave", match)>>)] ELSE sock
  /\ match' = None /\ seated' = FALSE /\ table' = None
  /\ UNCHANGED <<session, ws, authed, timers, toast, queue, fates>>

\* clearError.
Dismiss ==
  /\ Act /\ toast # None
  /\ toast' = None
  /\ UNCHANGED <<session, sock, ws, authed, timers, match, seated, table, queue, fates>>
-----------------------------------------------------------------------------
(* The server and the network.                                             *)

Dispatched(k, msg) ==
  CASE msg.kind = "authenticate" /\ k.run \in revoked ->
         Closing([k EXCEPT !.server = "refused"])
    [] msg.kind = "authenticate" /\ k.run \notin revoked ->
         [k EXCEPT !.server = "ok", !.got = Append(@, Msg("authenticated", None))]
    [] msg.kind \in {"enter", "join"} /\ k.server = "ok" /\ k.pending = None ->
         [k EXCEPT !.pending = msg]
    [] msg.kind = "leave" /\ k.server = "ok" /\ k.at = msg.match ->
         [k EXCEPT !.at = None, !.seat = FALSE]
    [] OTHER -> k

\* WS_MESSAGE_RULE, a bucket of the connection's own: it may be empty after a
\* burst, never before.  AUTHENTICATE, LIST_GAMES and the resumption are its
\* first three messages (LIST_GAMES is counted, not sent).
ServerReads(s) ==
  LET msg == Head(sock[s].sent)
      k   == [sock[s] EXCEPT !.sent = Tail(@),
                             !.read = IF @ <= Burst THEN @ + 1 ELSE @]
  IN  /\ sock[s].st = "open" /\ sock[s].path /\ sock[s].sent # <<>>
      /\ \/ sock' = [sock EXCEPT ![s] = Dispatched(k, msg)]
         \/ /\ k.read + 1 > Burst
            /\ sock' = [sock EXCEPT ![s] = [k EXCEPT !.got = Append(@, Msg("limited", None))]]
      /\ UNCHANGED <<session, ws, authed, timers, game, fates, budget>>

\* ENTER_ROOM finds rooms only; JOIN finds the match in either phase.
Gone(p) == p.match \in ended \/ (p.kind = "enter" /\ p.match \in started)

Answered(k, p) ==
  IF Gone(p) THEN [k EXCEPT !.got = Append(@, Msg("not found", p.match))]
  ELSE IF p.kind = "enter"
  THEN [k EXCEPT !.at = p.match, !.got = Append(@, Msg("view", p.match))]
  ELSE [k EXCEPT !.at = p.match, !.seat = TRUE,
                 !.got = Append(@, Msg(IF p.match \in started THEN "state" ELSE "view",
                                       p.match))]

\* reportError: the node that owns the match cannot be reached, or the seat is
\* somebody else's by now.
Errors(p) == {"unavailable"} \cup (IF p.kind = "join" THEN {"refused"} ELSE {})

ServerAnswers(s) ==
  LET p == sock[s].pending
      k == [sock[s] EXCEPT !.pending = None]
  IN  /\ sock[s].st = "open" /\ sock[s].path /\ p # None
      /\ \/ sock' = [sock EXCEPT ![s] = Answered(k, p)] /\ UNCHANGED budget
         \/ \E e \in Errors(p) :
              /\ Fault
              /\ sock' = [sock EXCEPT ![s] = [k EXCEPT !.got = Append(@, Msg(e, p.match))]]
      /\ UNCHANGED <<session, ws, authed, timers, game, fates>>

\* The room becomes a match: whoever is there is sent the state, by its seat.
MatchStarts(m) ==
  /\ Fault /\ m \notin started \cup ended
  /\ started' = started \cup {m}
  /\ sock' = [s \in Socks |->
       IF sock[s].st = "open" /\ sock[s].path /\ sock[s].at = m
       THEN [sock[s] EXCEPT !.got = Append(@, Msg(IF sock[s].seat THEN "state" ELSE "view", m))]
       ELSE sock[s]]
  /\ UNCHANGED <<session, ws, authed, timers, game, ended>>

MatchEnds(m) ==
  /\ Fault
  /\ ended' = ended \cup {m}
  /\ UNCHANGED <<session, sock, ws, authed, timers, game, started>>

\* The server forgets the session: "sign out everywhere", or its expiry.
Revoke ==
  /\ Fault
  /\ revoked' = revoked \cup {run}
  /\ UNCHANGED <<run, signed, expired, sock, ws, authed, timers, game, fates>>

\* The path dies and nobody is told; a connection attempt fails; the server
\* closes the socket for a reason of its own.
LinkFails(s) ==
  /\ Fault
  /\ \/ /\ sock[s].st = "open" /\ sock[s].path
        /\ sock' = [sock EXCEPT ![s].path = FALSE, ![s].sent = <<>>, ![s].got = <<>>]
     \/ /\ sock[s].st \in {"connecting", "open"}
        /\ sock' = [sock EXCEPT ![s] = Closing(@)]
  /\ UNCHANGED <<session, ws, authed, timers, game, fates>>
-----------------------------------------------------------------------------
Init ==
  /\ run = 0 /\ signed = FALSE /\ revoked = {} /\ expired = FALSE
  /\ sock = [s \in Socks |-> Closed] /\ ws = None /\ authed = FALSE /\ timers = 0
  /\ match = None /\ seated = FALSE /\ table = None /\ toast = None /\ queue = <<>>
  /\ started = {} /\ ended = {}
  /\ faults = 0 /\ acts = 0

SocketEvent(s) ==
  OnOpen(s) \/ OnClose(s) \/ PongTimesOut(s) \/ OnMessage(s)

Server(s) == ServerReads(s) \/ ServerAnswers(s)

Next ==
  \/ \E s \in Socks : SocketEvent(s) \/ Server(s) \/ LinkFails(s)
  \/ ReconnectTimerFires \/ CheckLink
  \/ SignIn \/ SignOut \/ Leave \/ Dismiss \/ Revoke
  \/ \E m \in Matches : Enter(m) \/ MatchStarts(m) \/ MatchEnds(m)

\* Events and timers fire, and the server works; a wake-up may never come.
Fairness ==
  /\ \A s \in Socks : WF_vars(SocketEvent(s)) /\ WF_vars(Server(s))
  /\ WF_vars(ReconnectTimerFires)

Spec == Init /\ [][Next]_vars /\ Fairness
-----------------------------------------------------------------------------
\* The hook drives one socket, of the session it is in: any other that is
\* still to open belongs to a session that ended, and will close itself
\* (connect and isLive 150-169, checkLinkRef 317-333, cleanup 337-368).
OneLink ==
  /\ ws # None => signed /\ sock[ws].run \in {0, run}
  /\ \A s \in Socks \ {ws} :
       /\ sock[s].st # "open"
       /\ sock[s].st = "connecting" => sock[s].run # run
  /\ timers > 0 => signed /\ ~expired

\* A player cut off at a match, with nothing queued and no error on the screen,
\* is put back there: the server has the socket at that match and the screen
\* shows it.  Or an error is shown: the server refused, or no longer has the
\* match.  Unless the session is over, or the player does something else.  ("Put
\* ourselves back where we were before the drop", 237-251)
BackAt(m) == authed /\ ws # None /\ sock[ws].at = m /\ table = m

CutOffAt(m) == match = m /\ ~authed /\ queue = <<>>

LinkRecovers ==
  \A m \in Matches, r \in 1..MaxRuns :
    (run = r /\ CutOffAt(m) /\ toast = None)
      ~> (BackAt(m) \/ toast # None \/ run # r \/ match # m \/ queue # <<>> \/ expired)
=============================================================================
