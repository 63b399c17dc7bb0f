------------------------------ MODULE Listener ------------------------------
(***************************************************************************)
(* One port for https and http: splitListener and redirect (listen.go)     *)
(* under http.Server.Serve.  The accept loop hands every connection to a   *)
(* goroutine of its own, which looks at the first byte and either offers   *)
(* the connection to Serve, through an unbuffered channel, or answers a    *)
(* plain request with the address to use.                                  *)
(*                                                                         *)
(* Serve belongs to net/http: it takes what Accept returns, tries again    *)
(* after a temporary error, and gives up after any other one, upon which   *)
(* main ends the process.                                                  *)
(***************************************************************************)

EXTENDS Sequences

CONSTANT Clients    \* connections, each of which is made once

VARIABLES
  \* the network
  said,     \* what the client has sent: see Words
  gone,     \* the client has closed its end
  \* the goroutines
  at,       \* where its connection is: see Places
  loop,     \* "accepting", or the error it returned with
  failed,   \* l.failed, a channel with room for one error
  serve     \* http.Server.Serve: "on", or "ended" with the process

vars == <<said, gone, at, loop, failed, serve>>

Words == {"nothing",
          "tls",       \* the first byte of a handshake
          "http",      \* another first byte, and no whole request yet
          "request"}   \* a whole request, or what can never become one
Places == {"away", "backlog",
           "peek",      \* classify waits for the first byte
           "offer",     \* classify waits for Accept to take it
           "redirect",  \* redirect waits for the request
           "served", "closed"}
Errors == {"temporary", "lasting"}

TypeOK ==
  /\ said \in [Clients -> Words] /\ gone \in [Clients -> BOOLEAN]
  /\ at \in [Clients -> Places]
  /\ loop \in {"accepting"} \cup Errors /\ serve \in {"on", "ended"}
  /\ failed \in {<<>>} \cup {<<e>> : e \in Errors}

Init ==
  /\ said = [c \in Clients |-> "nothing"] /\ gone = [c \in Clients |-> FALSE]
  /\ at = [c \in Clients |-> "away"]
  /\ loop = "accepting" /\ failed = <<>> /\ serve = "on"

Running == serve = "on"
Move(c, from, to) == Running /\ at[c] = from /\ at' = [at EXCEPT ![c] = to]

(***************************************************************************)
(* Clients.                                                                *)
(***************************************************************************)

Dial(c) ==
  /\ Move(c, "away", "backlog")
  /\ UNCHANGED <<said, gone, loop, failed, serve>>

Says(c, word) ==
  /\ at[c] # "away" /\ ~gone[c]
  /\ \/ said[c] = "nothing" /\ word \in {"tls", "http"}
     \/ said[c] = "http" /\ word = "request"
  /\ said' = [said EXCEPT ![c] = word]
  /\ UNCHANGED <<gone, at, loop, failed, serve>>

HangsUp(c) ==
  /\ at[c] # "away" /\ ~gone[c]
  /\ gone' = [gone EXCEPT ![c] = TRUE]
  /\ UNCHANGED <<said, at, loop, failed, serve>>

(***************************************************************************)
(* loop() and classify().                                                  *)
(***************************************************************************)

\* Mutant of Take: the loop looks at the first byte itself.
TakeAndPeek(c) ==
  /\ loop = "accepting" /\ \A d \in Clients : at[d] # "peek"
  /\ Move(c, "backlog", "peek")
  /\ UNCHANGED <<said, gone, loop, failed, serve>>

\* the loop accepts a connection and goes on
Take(c) ==
  /\ loop = "accepting"
  /\ Move(c, "backlog", "peek")
  /\ UNCHANGED <<said, gone, loop, failed, serve>>

\* Mutant of AcceptFails: the error is dropped.
SwallowsError(e) ==
  /\ Running /\ loop = "accepting"
  /\ loop' = e
  /\ UNCHANGED <<said, gone, at, failed, serve>>

\* the loop ends with whatever error the system gave it
AcceptFails(e) ==
  /\ Running /\ loop = "accepting"
  /\ failed' = Append(failed, e)
  /\ loop' = e
  /\ UNCHANGED <<said, gone, at, serve>>

\* Peek(1) returns a byte, and the deadline is lifted.
Classify(c) ==
  /\ said[c] # "nothing"
  /\ Move(c, "peek", IF said[c] = "tls" THEN "offer" ELSE "redirect")
  /\ UNCHANGED <<said, gone, loop, failed, serve>>

\* Peek(1) fails: the client has gone, its byte perhaps lost with it,
PeekFails(c) ==
  /\ gone[c]
  /\ Move(c, "peek", "closed")
  /\ UNCHANGED <<said, gone, loop, failed, serve>>

\* or ten seconds have passed.
Expire(c) ==
  /\ said[c] = "nothing"
  /\ Move(c, "peek", "closed")
  /\ UNCHANGED <<said, gone, loop, failed, serve>>

\* redirect(): the request is answered, or cannot be read
Redirect(c) ==
  /\ said[c] = "request" \/ gone[c]
  /\ Move(c, "redirect", "closed")
  /\ UNCHANGED <<said, gone, loop, failed, serve>>

(***************************************************************************)
(* Accept(), called by Serve over and over.                                *)
(***************************************************************************)

HandOver(c) ==
  /\ Move(c, "offer", "served")
  /\ UNCHANGED <<said, gone, loop, failed, serve>>

\* Serve sleeps and calls Accept again, or ends, and the process with it.
TakeError ==
  /\ Running /\ failed # <<>>
  /\ failed' = Tail(failed)
  /\ serve' = IF Head(failed) = "lasting" THEN "ended" ELSE serve
  /\ UNCHANGED <<said, gone, at, loop>>

Goroutine(c) == Classify(c) \/ PeekFails(c) \/ Redirect(c)

Next ==
  \/ \E c \in Clients :
       \/ Dial(c) \/ HangsUp(c) \/ \E word \in Words : Says(c, word)
       \/ Take(c) \/ Goroutine(c) \/ Expire(c) \/ HandOver(c)
  \/ \E e \in Errors : AcceptFails(e)
  \/ TakeError

\* Goroutines run; a blocked sender is served in its turn, and select takes
\* either channel sooner or later.  No client has to say anything or to hang
\* up, and no deadline has to pass, so that nobody depends on that of another.
Fairness ==
  /\ \A c \in Clients : WF_vars(Take(c)) /\ WF_vars(Goroutine(c)) /\ WF_vars(HandOver(c))
  /\ WF_vars(TakeError)

Spec == Init /\ [][Next]_vars /\ Fairness

(***************************************************************************)
(* Properties.                                                             *)
(***************************************************************************)

\* Every connection is where its first byte sends it: only handshakes are
\* offered to Serve, and nothing is answered that has not spoken.
Sorted ==
  \A c \in Clients :
    /\ at[c] \in {"offer", "served"} => said[c] = "tls"
    /\ at[c] = "redirect" => said[c] \in {"http", "request"}

\* listen.go:36-38: "one silent connection would stall every other device".
\* Whatever the other clients do or leave undone, and though their deadlines
\* never expire, a client that has begun a handshake and stays reaches the
\* server as long as the loop accepts; one that was accepted reaches it even
\* after the loop has returned, unless the process has ended.
SpeakerIsServed ==
  \A c \in Clients :
    /\ (at[c] = "backlog" /\ said[c] = "tls")
         ~> (at[c] = "served" \/ gone[c] \/ loop # "accepting")
    /\ (at[c] \in {"peek", "offer"} /\ said[c] = "tls")
         ~> (at[c] = "served" \/ gone[c] \/ serve = "ended")

\* The listener does not end in silence: an error that lasts gets from the
\* loop through the channel to Serve and ends the process, even with
\* connections waiting to be taken.
EndIsNoticed == loop = "lasting" ~> serve = "ended"
=============================================================================
