----------------------------- MODULE ModelCalls -----------------------------
(***************************************************************************)
(* Asking a language model: decideTurn of core/ai/decide.ts and the        *)
(* designer's callModel over one provider (core/ai/groq-provider.ts with   *)
(* its pool of keys, core/ai/gemini-provider.ts with one key, or the       *)
(* stand-in of an unconfigured server).                                    *)
(*                                                                         *)
(* A provider serves the designer or the AI seats of a difficulty level,   *)
(* in whatever matches they sit, so they share its cursor.  An action is a *)
(* stretch between awaits; keys are numbered from 0, the moves a seat is   *)
(* offered from 1, the first being its fallback.                           *)
(***************************************************************************)
EXTENDS Integers, SequencesExt

CONSTANTS
  Callers,    \* turns and drafts that may ask at a time
  MaxKeys,    \* bound: keys in a pool
  MaxMoves    \* bound: moves offered

ASSUME CallAssumption == MaxKeys \in Nat \ {0} /\ MaxMoves \in Nat \ {0}

VARIABLES
  provider,   \* "groq", "gemini" or "none", from the environment
  serves,     \* "seats" or "designer"
  keys,       \* how many keys it has
  cursor,     \* where the next call starts in the list of keys
  call        \* per caller: its latest call

calls == <<provider, serves, keys, cursor, call>>

\* The moves offered (0 for a draft, whose answer is free text), the keys asked
\* so far, whether its clock has run out, and how the call ended: the decision
\* it led to (0 for an error or a text) and what made it end.
NoCall == [at |-> "idle", offered |-> 0, start |-> 0, asked |-> <<>>,
           aborted |-> FALSE, decision |-> 0, because |-> "none"]

End(c, decision, because) ==
  call' = [call EXCEPT ![c].at = "idle", ![c].decision = decision, ![c].because = because]

\* decideTurn turns any failure into the first legal move; the designer's
\* request fails.
Fallback(c) == IF call[c].offered = 0 THEN 0 ELSE 1

\* Mutant of KeyOf: the cursor is read again at each attempt.
KeyAtCursor(start, attempt) == (cursor + attempt) % keys

KeyOf(start, attempt) == (start + attempt) % keys
-----------------------------------------------------------------------------
Offers == IF serves = "designer" THEN {0} ELSE 1..MaxMoves

\* One legal move is played without asking anybody; otherwise the first key is
\* asked and the cursor moves on for whoever calls next.
Ask(c) ==
  /\ call[c].at = "idle"
  /\ \E n \in Offers :
       LET new == [NoCall EXCEPT !.offered = n] IN
       CASE n = 1 ->
              /\ call' = [call EXCEPT ![c] = [new EXCEPT !.decision = 1, !.because = "forced"]]
              /\ UNCHANGED cursor
         [] n # 1 /\ provider = "none" ->
              /\ call' = [call EXCEPT ![c] = [new EXCEPT !.decision = 1, !.because = "unconfigured"]]
              /\ UNCHANGED cursor
         [] n # 1 /\ provider # "none" ->
              /\ call' = [call EXCEPT ![c] = [new EXCEPT !.at = "asking", !.start = cursor,
                                                         !.asked = <<KeyOf(cursor, 0)>>]]
              /\ cursor' = (cursor + 1) % keys
  /\ UNCHANGED <<provider, serves, keys>>

\* The model answers: a seat with one of the moves offered, or with what names
\* none of them; the designer with any text.
Answered(c) ==
  /\ call[c].at = "asking"
  /\ \/ \E m \in 1..call[c].offered : End(c, m, "answer")
     \/ End(c, Fallback(c), IF serves = "designer" THEN "answer" ELSE "bad answer")
  /\ UNCHANGED <<provider, serves, keys, cursor>>

\* What a call meets: the service's refusals, an answer it cut off or that is
\* empty, the network, and the abort.
Failures == {"rate limit", "key refused", "service", "token budget", "cut off",
             "network", "bad request", "empty", "abort"}

IsWorthRetryingOnAnotherKey(failure) ==
  failure \notin {"bad request", "empty", "abort"}

\* Gemini's one key has failed.
OnlyKeyFails(c) ==
  /\ call[c].at = "asking" /\ provider = "gemini"
  /\ End(c, Fallback(c), IF call[c].aborted THEN "clock" ELSE "failed")
  /\ UNCHANGED <<provider, serves, keys, cursor>>

\* The next key is asked, unless the clock ran out or there is none left.
CallFails(c) ==
  /\ call[c].at = "asking" /\ provider = "groq"
  /\ \E failure \in Failures :
       /\ failure = "abort" => call[c].aborted
       /\ IF /\ IsWorthRetryingOnAnotherKey(failure)
             /\ ~call[c].aborted
             /\ Len(call[c].asked) < keys
          THEN call' = [call EXCEPT ![c].asked = Append(@, KeyOf(call[c].start, Len(@)))]
          ELSE End(c, Fallback(c), IF call[c].aborted THEN "clock"
                                   ELSE IF IsWorthRetryingOnAnotherKey(failure)
                                   THEN "no key left" ELSE "failed")
  /\ UNCHANGED <<provider, serves, keys, cursor>>

ClockRunsOut(c) ==
  /\ call[c].at = "asking" /\ ~call[c].aborted
  /\ call' = [call EXCEPT ![c].aborted = TRUE]
  /\ UNCHANGED <<provider, serves, keys, cursor>>

\* The stand-in of a server without keys plays seats; drafting is not offered.
Serves(p) == IF p = "none" THEN {"seats"} ELSE {"seats", "designer"}

CallInit ==
  /\ \/ provider = "groq" /\ keys \in 1..MaxKeys
     \/ provider = "gemini" /\ keys = 1
     \/ provider = "none" /\ keys = 0
  /\ serves \in Serves(provider)
  /\ cursor = 0
  /\ call = [c \in Callers |-> NoCall]

CallNext ==
  \E c \in Callers :
    Ask(c) \/ Answered(c) \/ OnlyKeyFails(c) \/ CallFails(c) \/ ClockRunsOut(c)
-----------------------------------------------------------------------------
\* A call that gives up for want of keys, with time left, has asked every key
\* once, whatever other seats' calls did to the cursor meanwhile.  ("a key that
\* answers 429 (or has been revoked) is skipped for that call rather than
\* failing the turn", groq-provider.ts:27-30; chat 153-173)
EveryKeyIsTried ==
  \A c \in Callers : call[c].because = "no key left" =>
    /\ Len(call[c].asked) = keys
    /\ ToSet(call[c].asked) = 0..(keys - 1)
=============================================================================
