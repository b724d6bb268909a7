----------------------- MODULE CommandExecutionProofs -----------------------
(***************************************************************************)
(* Proofs about CommandExecution, for any number of threads, connections   *)
(* and retries and any mix of commands.                                    *)
(***************************************************************************)
EXTENDS CommandExecution, SequenceTheorems, FiniteSetTheorems, TLAPS

-----------------------------------------------------------------------------
(* The inductive invariant, part by part. *)

Parts == [of : Threads, part : {"header"}, code : Codes, more : BOOLEAN]
         \cup [of : Threads, part : {"body"}]

Before == {"try", "deadline", "connect"}
Using  == {"prepare", "receive", "decide", "body"}

CommandTypeOK ==
  /\ pc \in [Threads -> Before \cup Using \cup {"done"}]
  /\ iterations \in [Threads -> Nat]
  /\ conn \in [Threads -> Conns \cup {NoConn}]
  /\ idle \subseteq used /\ used \subseteq Conns
  /\ wire \in [Conns -> Seq(Threads)]
  /\ inbox \in [Conns -> Seq(Parts)]
  /\ DOMAIN reply = Threads
  /\ DOMAIN outcome = Threads
  /\ applied \in [Threads -> Nat]

\* A thread has a connection from get_connection until parse_result returns, and it
\* has it for itself.
Ownership ==
  /\ \A t \in Threads : IF pc[t] \in Using THEN conn[t] \in used \ idle ELSE conn[t] = NoConn
  /\ \A t, u \in Threads : t # u /\ pc[t] \in Using => conn[t] # conn[u]

\* At most one request is on its way on a connection, that of a thread which waits
\* for the reply there or has given up; it is the only one of the thread and has
\* not been executed.
OneRequest ==
  /\ \A c \in Conns : wire[c] # << >> =>
       \E t \in Threads : /\ wire[c] = <<t>> /\ applied[t] = 0
                          /\ \/ pc[t] = "receive" /\ conn[t] = c
                             \/ pc[t] = "done"
                                /\ outcome[t] \in {"network_error", "bad_reply"}
  /\ \A c, d \in Conns : wire[c] # << >> /\ wire[c] = wire[d] => c = d

\* The reply to t that a connection still holds: all of it, or its body.
Answer(t, s) ==
  \E code \in Codes : \/ s = <<Header(t, code, FALSE)>>
                      \/ MayHaveBody(t, code) /\ s = <<Header(t, code, TRUE), Body(t)>>
RestOfAnswer(t, r, s) ==
  \E code \in Codes : \/ r = Header(t, code, FALSE) /\ s = << >>
                      \/ MayHaveBody(t, code) /\ r = Header(t, code, TRUE) /\ s = <<Body(t)>>

Quiet(c) == wire[c] = << >> /\ inbox[c] = << >>

\* What is on the connection of a thread, by where the thread is.
InStep ==
  \A t \in Threads :
    /\ pc[t] = "prepare" => Quiet(conn[t])
    /\ pc[t] = "receive" =>
         \/ wire[conn[t]] = <<t>> /\ inbox[conn[t]] = << >>
         \/ wire[conn[t]] = << >> /\ Answer(t, inbox[conn[t]]) /\ applied[t] = 1
    /\ pc[t] \in {"decide", "body"} =>
         /\ wire[conn[t]] = << >> /\ applied[t] = 1
         /\ RestOfAnswer(t, reply[t], inbox[conn[t]])
    /\ pc[t] = "body" => inbox[conn[t]] = <<Body(t)>>

\* Before a request has been sent nothing of it has been executed.
Unsent == \A t \in Threads : pc[t] \in Before \cup {"prepare"} => applied[t] = 0

\* What the outcome says; an error of the network says nothing.
Verdict ==
  \A t \in Threads :
    /\ pc[t] = "done" <=> outcome[t] # "running"
    /\ outcome[t] \in {"gave_up", "not_sent"} => applied[t] = 0
    /\ outcome[t] \in {"ok", "server_error"} => applied[t] = 1

QuietOutside == \A c \in Conns : c \in idle \/ c \notin used => Quiet(c)

CommandInv == /\ CommandTypeOK /\ Ownership /\ OneRequest /\ InStep /\ Unsent
              /\ AppliedAtMostOnce /\ Verdict /\ OwnReply /\ QuietOutside

-----------------------------------------------------------------------------
\* The fields of a header.
LEMMA HeaderFields ==
  ASSUME NEW t, NEW code
  PROVE  /\ Header(t, code, TRUE).of = t /\ Header(t, code, FALSE).of = t
         /\ Header(t, code, TRUE).part = "header" /\ Header(t, code, FALSE).part = "header"
         /\ Header(t, code, TRUE).code = code /\ Header(t, code, FALSE).code = code
         /\ Header(t, code, TRUE).more /\ ~Header(t, code, FALSE).more
  BY DEF Header

\* Taking a short sequence apart.
LEMMA ShortSeqs ==
  ASSUME NEW x, NEW y
  PROVE  /\ Head(<<x>>) = x /\ Tail(<<x>>) = << >> /\ <<x>> # << >>
         /\ Head(<<x, y>>) = x /\ Tail(<<x, y>>) = <<y>> /\ <<x, y>> # << >>
  OBVIOUS

LEMMA InitCommandInv == Init => CommandInv
  <1> SUFFICES ASSUME Init PROVE CommandInv
    OBVIOUS
  <1> USE DEF Init, Pool!BPInit
  <1>1. CommandTypeOK
    BY DEF CommandTypeOK, Before
  <1>2. Ownership
    BY DEF Ownership, Using
  <1>3. OneRequest /\ Unsent /\ AppliedAtMostOnce /\ Verdict
    BY DEF OneRequest, Unsent, AppliedAtMostOnce, Verdict
  <1>4. InStep
    BY DEF InStep
  <1>5. OwnReply
    BY DEF OwnReply
  <1>6. QuietOutside
    BY DEF QuietOutside, Quiet
  <1> QED
    BY <1>1, <1>2, <1>3, <1>4, <1>5, <1>6 DEF CommandInv

\* Steps of the loop that touch no connection.
LEMMA LoopStep ==
  ASSUME CommandInv, NEW t \in Threads,
         Iterate(t) \/ DeadlinePassed(t) \/ InTime(t) \/ Unavailable(t)
  PROVE  CommandInv'
  <1>1. /\ pc[t] \in Before /\ pc' = [pc EXCEPT ![t] = pc'[t]]
        /\ \/ pc'[t] \in Before /\ outcome' = outcome
           \/ pc'[t] = "done" /\ outcome' = [outcome EXCEPT ![t] = "gave_up"]
        /\ iterations' \in [Threads -> Nat]
        /\ reply' = reply \/ reply' = [reply EXCEPT ![t] = NoReply]
        /\ UNCHANGED <<conn, idle, used, wire, inbox, applied>>
    <2> USE DEF CommandInv, CommandTypeOK, Goto, Finish, Again, Before, netVars
    <2>1. CASE Iterate(t)
      <3>1. /\ pc[t] = "try" /\ UNCHANGED <<conn, idle, used, wire, inbox, applied>>
            /\ \/ iterations' = [iterations EXCEPT ![t] = 1] /\ Again(t, "deadline")
               \/ iterations' = [iterations EXCEPT ![t] = @ + 1] /\ Again(t, "deadline")
               \/ Finish(t, "gave_up")
        BY <2>1, Zenon DEF Iterate, netVars
      <3>2. CASE Again(t, "deadline") /\ iterations' = [iterations EXCEPT ![t] = 1]
        BY <3>1, <3>2
      <3>3. CASE Again(t, "deadline") /\ iterations' = [iterations EXCEPT ![t] = @ + 1]
        BY <3>1, <3>3
      <3>4. CASE Finish(t, "gave_up")
        BY <3>1, <3>4
      <3> QED
        BY <3>1, <3>2, <3>3, <3>4
    <2>2. CASE DeadlinePassed(t)
      BY <2>2 DEF DeadlinePassed
    <2>3. CASE InTime(t)
      BY <2>3 DEF InTime
    <2>4. CASE Unavailable(t)
      BY <2>4 DEF Unavailable
    <2> QED
      BY <2>1, <2>2, <2>3, <2>4
  <1>2. CommandTypeOK'
    BY <1>1 DEF CommandInv, CommandTypeOK, Before, Using
  <1>3. Ownership'
    <2>1. pc'[t] \notin Using /\ pc[t] \notin Using
      BY <1>1 DEF CommandInv, CommandTypeOK, Before, Using
    <2>2. \A u \in Threads : u # t => pc'[u] = pc[u]
      BY <1>1 DEF CommandInv, CommandTypeOK
    <2> QED
      BY <1>1, <2>1, <2>2 DEF CommandInv, Ownership
  <1>4. OneRequest'
    BY <1>1 DEF CommandInv, CommandTypeOK, OneRequest, Before
  <1>5. InStep'
    BY <1>1 DEF CommandInv, CommandTypeOK, InStep, Quiet, Before
  <1>6. Unsent' /\ AppliedAtMostOnce' /\ Verdict'
    BY <1>1 DEF CommandInv, CommandTypeOK, Unsent, AppliedAtMostOnce, Verdict, Before
  <1>7. OwnReply' /\ QuietOutside'
    BY <1>1 DEF CommandInv, CommandTypeOK, OwnReply, QuietOutside, Quiet
  <1> QED
    BY <1>2, <1>3, <1>4, <1>5, <1>6, <1>7 DEF CommandInv

\* A deadline passes, which no other part of the state shows.
LEMMA DeadlineStep ==
  ASSUME CommandInv, NEW t \in Threads, DeadlinePasses(t)
  PROVE  CommandInv'
  BY DEF DeadlinePasses, netVars, CommandInv, CommandTypeOK, Ownership, OneRequest, InStep, Quiet,
     Unsent, AppliedAtMostOnce, Verdict, OwnReply, QuietOutside

\* A thread obtains a connection: one that the pool has kept, or a new one.
LEMMA GetConnectionStep ==
  ASSUME CommandInv, NEW t \in Threads, GetConnection(t)
  PROVE  CommandInv'
  <1>1. PICK c \in Conns : /\ c \in idle \/ c \notin used
                           /\ conn' = [conn EXCEPT ![t] = c]
                           /\ idle' \subseteq idle \ {c}
                           /\ used' = used \cup {c}
    BY DEF GetConnection, Pool!Acquire, CommandInv, CommandTypeOK
  <1>2. /\ pc[t] = "connect" /\ pc' = [pc EXCEPT ![t] = "prepare"]
        /\ UNCHANGED <<iterations, wire, inbox, reply, outcome, applied>>
    BY DEF GetConnection, Goto
  <1>3. Quiet(c) /\ \A u \in Threads : pc[u] \in Using => conn[u] # c
    BY <1>1 DEF CommandInv, QuietOutside, Ownership
  <1>4. CommandTypeOK'
    BY <1>1, <1>2 DEF CommandInv, CommandTypeOK, Before, Using
  <1>5. Ownership'
    BY <1>1, <1>2, <1>3, CommandAssumption DEF CommandInv, CommandTypeOK, Ownership, Before, Using
  <1>6. OneRequest'
    BY <1>1, <1>2 DEF CommandInv, CommandTypeOK, OneRequest
  <1>7. InStep'
    BY <1>1, <1>2, <1>3 DEF CommandInv, CommandTypeOK, InStep, Quiet
  <1>8. Unsent' /\ AppliedAtMostOnce' /\ Verdict'
    BY <1>2 DEF CommandInv, CommandTypeOK, Unsent, AppliedAtMostOnce, Verdict, Before
  <1>9. OwnReply' /\ QuietOutside'
    BY <1>1, <1>2, <1>3 DEF CommandInv, OwnReply, QuietOutside, Quiet
  <1> QED
    BY <1>4, <1>5, <1>6, <1>7, <1>8, <1>9 DEF CommandInv

\* The request goes on the wire of a connection that was quiet.
LEMMA SendStep ==
  ASSUME CommandInv, NEW t \in Threads, SendOk(t)
  PROVE  CommandInv'
  <1> DEFINE c == conn[t]
  <1>1. /\ pc[t] = "prepare" /\ pc' = [pc EXCEPT ![t] = "receive"]
        /\ wire' = [wire EXCEPT ![c] = Append(wire[c], t)]
        /\ UNCHANGED <<iterations, conn, idle, used, inbox, reply, outcome, applied>>
    BY DEF SendOk, Goto
  <1>2. /\ c \in Conns /\ c \in used \ idle /\ Quiet(c) /\ applied[t] = 0
        /\ \A u \in Threads \ {t} : conn[u] # c
    BY <1>1 DEF CommandInv, CommandTypeOK, Ownership, InStep, Unsent, Using
  <1>3. wire' = [wire EXCEPT ![c] = <<t>>] /\ <<t>> \in Seq(Threads) /\ <<t>> # << >>
    BY <1>1, <1>2 DEF Quiet
  <1>4. \A d \in Conns : wire[d] # <<t>>
    BY <1>1 DEF CommandInv, OneRequest
  <1> HIDE DEF c
  <1>5. CommandTypeOK'
    BY <1>1, <1>2, <1>3 DEF CommandInv, CommandTypeOK, Before, Using
  <1>6. Ownership'
    BY <1>1, <1>2 DEF CommandInv, CommandTypeOK, Ownership, Using
  <1>7. OneRequest'
    <2>1. ASSUME NEW d \in Conns, wire'[d] # << >>
          PROVE  \E u \in Threads : /\ wire'[d] = <<u>> /\ applied'[u] = 0
                                   /\ \/ pc'[u] = "receive" /\ conn'[u] = d
                                      \/ pc'[u] = "done"
                                         /\ outcome'[u] \in {"network_error", "bad_reply"}
      <3>1. CASE d = c
        BY <3>1, <1>1, <1>2, <1>3 DEF CommandInv, CommandTypeOK, c
      <3>2. CASE d # c
        BY <3>2, <2>1, <1>1, <1>2, <1>3 DEF CommandInv, CommandTypeOK, OneRequest
      <3> QED
        BY <3>1, <3>2
    <2>2. ASSUME NEW d \in Conns, NEW e \in Conns, wire'[d] # << >>, wire'[d] = wire'[e]
          PROVE  d = e
      BY <2>2, <1>2, <1>3, <1>4 DEF CommandInv, CommandTypeOK, OneRequest
    <2> QED
      BY <2>1, <2>2 DEF OneRequest
  <1>8. InStep'
    BY <1>1, <1>2, <1>3 DEF CommandInv, CommandTypeOK, Ownership, InStep, Quiet, Using, c
  <1>9. Unsent' /\ AppliedAtMostOnce' /\ Verdict'
    BY <1>1 DEF CommandInv, CommandTypeOK, Unsent, AppliedAtMostOnce, Verdict, Before
  <1>10. OwnReply' /\ QuietOutside'
    BY <1>1, <1>2, <1>3 DEF CommandInv, CommandTypeOK, OwnReply, QuietOutside, Quiet
  <1> QED
    BY <1>5, <1>6, <1>7, <1>8, <1>9, <1>10 DEF CommandInv

\* The header of the reply is read: it is the reply to t.
LEMMA ReadHeaderStep ==
  ASSUME CommandInv, NEW t \in Threads, ReadHeader(t)
  PROVE  CommandInv'
  <1> DEFINE c == conn[t]
  <1>1. /\ pc[t] = "receive" /\ pc' = [pc EXCEPT ![t] = "decide"]
        /\ inbox[c] # << >>
        /\ reply' = [reply EXCEPT ![t] = Head(inbox[c])]
        /\ inbox' = [inbox EXCEPT ![c] = Tail(inbox[c])]
        /\ UNCHANGED <<iterations, conn, idle, used, wire, outcome, applied>>
    BY DEF ReadHeader, Goto
  <1>2. /\ c \in Conns /\ c \in used \ idle
        /\ \A u \in Threads \ {t} : conn[u] # c
        /\ wire[c] = << >> /\ Answer(t, inbox[c]) /\ applied[t] = 1
    BY <1>1 DEF CommandInv, CommandTypeOK, Ownership, InStep, Using
  <1>3. /\ RestOfAnswer(t, reply'[t], inbox'[c]) /\ reply'[t].of = t
    <2>1. PICK code \in Codes : \/ inbox[c] = <<Header(t, code, FALSE)>>
                                \/ /\ MayHaveBody(t, code)
                                   /\ inbox[c] = <<Header(t, code, TRUE), Body(t)>>
      BY <1>2 DEF Answer
    <2>2. /\ reply'[t] = Head(inbox[c]) /\ inbox'[c] = Tail(inbox[c])
      BY <1>1, <1>2 DEF CommandInv, CommandTypeOK
    <2>3. CASE inbox[c] = <<Header(t, code, FALSE)>>
      <3>1. reply'[t] = Header(t, code, FALSE) /\ inbox'[c] = << >>
        BY <2>2, <2>3, ShortSeqs
      <3>2. RestOfAnswer(t, reply'[t], inbox'[c])
        BY <3>1, Zenon DEF RestOfAnswer
      <3>3. reply'[t].of = t
        BY <3>1 DEF Header
      <3> QED
        BY <3>2, <3>3
    <2>4. CASE MayHaveBody(t, code) /\ inbox[c] = <<Header(t, code, TRUE), Body(t)>>
      <3>1. reply'[t] = Header(t, code, TRUE) /\ inbox'[c] = <<Body(t)>>
        BY <2>2, <2>4, ShortSeqs
      <3>2. RestOfAnswer(t, reply'[t], inbox'[c])
        BY <3>1, <2>4, Zenon DEF RestOfAnswer
      <3>3. reply'[t].of = t
        BY <3>1 DEF Header
      <3> QED
        BY <3>2, <3>3
    <2> QED
      BY <2>1, <2>3, <2>4
  <1> HIDE DEF c
  <1>4. CommandTypeOK'
    <2>1. Tail(inbox[c]) \in Seq(Parts)
      BY <1>1, <1>2, HeadTailProperties DEF CommandInv, CommandTypeOK
    <2> QED
      BY <2>1, <1>1, <1>2 DEF CommandInv, CommandTypeOK, Before, Using
  <1>5. Ownership'
    BY <1>1, <1>2 DEF CommandInv, CommandTypeOK, Ownership, Using
  <1>6. OneRequest'
    BY <1>1, <1>2 DEF CommandInv, CommandTypeOK, OneRequest, c
  <1>7. InStep'
    <2> SUFFICES ASSUME NEW u \in Threads
                 PROVE  InStep!(u)'
      BY DEF InStep
    <2>1. CASE u = t
      BY <2>1, <1>1, <1>2, <1>3 DEF CommandInv, CommandTypeOK, c
    <2>2. CASE u # t
      BY <2>2, <1>1, <1>2 DEF CommandInv, CommandTypeOK, InStep, Quiet
    <2> QED
      BY <2>1, <2>2
  <1>8. Unsent' /\ AppliedAtMostOnce' /\ Verdict'
    BY <1>1 DEF CommandInv, CommandTypeOK, Unsent, AppliedAtMostOnce, Verdict, Before
  <1>9. OwnReply' /\ QuietOutside'
    BY <1>1, <1>2, <1>3 DEF CommandInv, CommandTypeOK, OwnReply, QuietOutside, Quiet
  <1> QED
    BY <1>4, <1>5, <1>6, <1>7, <1>8, <1>9 DEF CommandInv

\* There is a body to read.
LEMMA WantBodyStep ==
  ASSUME CommandInv, NEW t \in Threads, WantBody(t)
  PROVE  CommandInv'
  <1>1. /\ pc[t] = "decide" /\ pc' = [pc EXCEPT ![t] = "body"]
        /\ reply[t].more
        /\ UNCHANGED <<iterations, conn, idle, used, wire, inbox, reply, outcome, applied>>
    BY DEF WantBody, Goto, ReadsBody, netVars
  <1>2. inbox[conn[t]] = <<Body(t)>>
    <2>1. PICK code \in Codes : \/ reply[t] = Header(t, code, FALSE)
                                \/ inbox[conn[t]] = <<Body(t)>>
      BY <1>1 DEF CommandInv, InStep, RestOfAnswer
    <2>2. ~Header(t, code, FALSE).more
      BY HeaderFields
    <2> QED
      BY <2>1, <2>2, <1>1
  <1>3. CommandTypeOK'
    BY <1>1 DEF CommandInv, CommandTypeOK, Before, Using
  <1>4. Ownership'
    BY <1>1 DEF CommandInv, CommandTypeOK, Ownership, Using
  <1>5. OneRequest'
    BY <1>1 DEF CommandInv, CommandTypeOK, OneRequest
  <1>6. InStep'
    BY <1>1, <1>2 DEF CommandInv, CommandTypeOK, InStep, Quiet
  <1>7. Unsent' /\ AppliedAtMostOnce' /\ Verdict'
    BY <1>1 DEF CommandInv, CommandTypeOK, Unsent, AppliedAtMostOnce, Verdict, Before
  <1>8. OwnReply' /\ QuietOutside'
    BY <1>1 DEF CommandInv, OwnReply, QuietOutside, Quiet
  <1> QED
    BY <1>3, <1>4, <1>5, <1>6, <1>7, <1>8 DEF CommandInv

\* A thread lets its connection go, for good or to the pool: to the pool only
\* when nothing is left on it.  The thread is done or tries again.
LEMMA ReleaseStep ==
  ASSUME CommandInv, NEW t \in Threads, pc[t] \in Using,
         conn' = [conn EXCEPT ![t] = NoConn],
         \/ idle' = idle
         \/ idle' = idle \cup {conn[t]} /\ wire'[conn[t]] = << >> /\ inbox'[conn[t]] = << >>,
         pc' = [pc EXCEPT ![t] = pc'[t]],
         \/ /\ pc[t] = "prepare" /\ pc'[t] = "try" /\ outcome' = outcome
         \/ /\ pc'[t] = "done" /\ outcome' = [outcome EXCEPT ![t] = outcome'[t]]
            /\ \/ outcome'[t] \in {"network_error", "bad_reply"}
               \/ outcome'[t] = "not_sent" /\ pc[t] = "prepare"
               \/ outcome'[t] \in {"ok", "server_error"} /\ pc[t] \in {"decide", "body"},
         \/ inbox' = inbox
         \/ pc[t] = "body" /\ inbox' = [inbox EXCEPT ![conn[t]] = << >>],
         reply' = reply \/ reply' = [reply EXCEPT ![t] = NoReply],
         iterations' \in [Threads -> Nat],
         UNCHANGED <<used, wire, applied>>
  PROVE  CommandInv'
  <1> DEFINE c == conn[t]
  <1>1. /\ c \in Conns /\ c \in used \ idle
        /\ \A u \in Threads \ {t} : conn[u] # c
        /\ \A d \in Conns \ {c} : inbox'[d] = inbox[d]
        /\ << >> \in Seq(Parts)
    BY DEF CommandInv, CommandTypeOK, Ownership, Using
  <1>2. CommandTypeOK'
    <2>1. inbox' \in [Conns -> Seq(Parts)]
      BY <1>1 DEF CommandInv, CommandTypeOK
    <2>2. pc' \in [Threads -> Before \cup Using \cup {"done"}]
      BY DEF CommandInv, CommandTypeOK, Before
    <2>3. idle' \subseteq used'
      BY <1>1 DEF CommandInv, CommandTypeOK
    <2> QED
      BY <2>1, <2>2, <2>3 DEF CommandInv, CommandTypeOK
  <1> HIDE DEF c
  <1>3. Ownership'
    BY <1>1, CommandAssumption DEF CommandInv, CommandTypeOK, Ownership, Using, c
  <1>4. OneRequest'
    <2>1. pc[t] # "receive" => wire[c] = << >>
      BY DEF CommandInv, InStep, Quiet, Using, c
    <2>2. outcome'[t] \in {"network_error", "bad_reply"} \/ pc[t] # "receive"
      OBVIOUS
    <2>3. ASSUME NEW d \in Conns, wire[d] # << >>
          PROVE  \E u \in Threads : /\ wire[d] = <<u>> /\ applied[u] = 0
                                   /\ \/ pc'[u] = "receive" /\ conn'[u] = d
                                      \/ pc'[u] = "done"
                                         /\ outcome'[u] \in {"network_error", "bad_reply"}
      <3>1. PICK u \in Threads : /\ wire[d] = <<u>> /\ applied[u] = 0
                                 /\ \/ pc[u] = "receive" /\ conn[u] = d
                                    \/ pc[u] = "done"
                                       /\ outcome[u] \in {"network_error", "bad_reply"}
        BY <2>3 DEF CommandInv, OneRequest
      <3>2. CASE u = t
        BY <3>1, <3>2, <2>2 DEF CommandInv, CommandTypeOK, Using
      <3>3. CASE u # t
        BY <3>1, <3>3 DEF CommandInv, CommandTypeOK
      <3> QED
        BY <3>2, <3>3
    <2> QED
      BY <2>3 DEF CommandInv, OneRequest
  <1>5. InStep'
    <2> SUFFICES ASSUME NEW u \in Threads
                 PROVE  InStep!(u)'
      BY DEF InStep
    <2>1. CASE u = t
      BY <2>1 DEF CommandInv, CommandTypeOK
    <2>2. CASE u # t
      <3>1. /\ pc'[u] = pc[u] /\ conn'[u] = conn[u]
            /\ reply'[u] = reply[u]
            /\ pc[u] \in Using => conn[u] \in Conns /\ inbox'[conn[u]] = inbox[conn[u]]
        BY <2>2, <1>1 DEF CommandInv, CommandTypeOK, Ownership
      <3> QED
        BY <3>1 DEF CommandInv, InStep, Quiet, Using
    <2> QED
      BY <2>1, <2>2
  <1>6. Unsent' /\ AppliedAtMostOnce'
    BY DEF CommandInv, CommandTypeOK, Unsent, AppliedAtMostOnce, Before
  <1>7. Verdict'
    BY DEF CommandInv, CommandTypeOK, Unsent, InStep, Verdict, Using
  <1>8. OwnReply' /\ QuietOutside'
    <2>1. OwnReply'
      BY DEF CommandInv, CommandTypeOK, OwnReply
    <2>2. ASSUME NEW d \in Conns, d \in idle' \/ d \notin used' PROVE Quiet(d)'
      <3>1. CASE d = c
        BY <3>1, <2>2, <1>1 DEF Quiet, c
      <3>2. CASE d # c
        BY <3>2, <2>2, <1>1 DEF CommandInv, QuietOutside, Quiet, c
      <3> QED
        BY <3>1, <3>2
    <2> QED
      BY <2>1, <2>2 DEF QuietOutside
  <1> QED
    BY <1>2, <1>3, <1>4, <1>5, <1>6, <1>7, <1>8 DEF CommandInv

\* The connection is invalidated.
LEMMA InvalidateStep ==
  ASSUME CommandInv, NEW t \in Threads, SendFails(t) \/ ReceiveFails(t)
  PROVE  CommandInv'
  <1>1. /\ conn' = [conn EXCEPT ![t] = NoConn] /\ idle' = idle
        /\ reply' = reply \/ reply' = [reply EXCEPT ![t] = NoReply]
        /\ iterations' \in [Threads -> Nat]
        /\ UNCHANGED <<used, wire, applied, inbox>>
    BY DEF SendFails, ReceiveFails, Invalidate, Finish, netVars, CommandInv, CommandTypeOK
  <1>2. /\ pc[t] \in Using
        /\ pc' = [pc EXCEPT ![t] = pc'[t]]
        /\ \/ pc[t] = "prepare" /\ pc'[t] = "try" /\ outcome' = outcome
           \/ /\ pc'[t] = "done" /\ outcome' = [outcome EXCEPT ![t] = outcome'[t]]
              /\ outcome'[t] \in {"network_error", "bad_reply"}
    BY DEF SendFails, ReceiveFails, Goto, Finish, CommandInv, CommandTypeOK, Using
  <1> QED
    BY <1>1, <1>2, ReleaseStep

\* Nothing was sent: the connection goes back as it came.
LEMMA PrepareFailsStep ==
  ASSUME CommandInv, NEW t \in Threads, PrepareFails(t)
  PROVE  CommandInv'
  <1>1. /\ pc[t] = "prepare" /\ pc' = [pc EXCEPT ![t] = "done"]
        /\ outcome' = [outcome EXCEPT ![t] = "not_sent"]
        /\ conn' = [conn EXCEPT ![t] = NoConn]
        /\ idle' = idle \/ idle' = idle \cup {conn[t]}
        /\ reply' = [reply EXCEPT ![t] = NoReply] /\ iterations' \in [Threads -> Nat]
        /\ UNCHANGED <<used, wire, applied, inbox>>
    BY DEF PrepareFails, PutBack, Pool!GiveUp, Goto, Finish, netVars, CommandInv, CommandTypeOK
  <1>2. wire'[conn[t]] = << >> /\ inbox'[conn[t]] = << >>
    BY <1>1 DEF CommandInv, InStep, Quiet
  <1>3. /\ pc[t] \in Using /\ pc' = [pc EXCEPT ![t] = pc'[t]] /\ pc'[t] = "done"
        /\ outcome' = [outcome EXCEPT ![t] = outcome'[t]] /\ outcome'[t] = "not_sent"
    BY <1>1 DEF CommandInv, CommandTypeOK, Using
  <1> QED
    BY <1>1, <1>2, <1>3, ReleaseStep

\* The reply has been read to its end: the command succeeds or fails by it.
LEMMA ConcludeStep ==
  ASSUME CommandInv, NEW t \in Threads, HeaderOnly(t) \/ ReadBody(t)
  PROVE  CommandInv'
  <1>1. /\ pc[t] \in {"decide", "body"} /\ Conclude(t)
        /\ UNCHANGED <<used, wire, applied>>
    BY DEF HeaderOnly, ReadBody, netVars
  <1>2. PICK code \in Codes :
          \/ reply[t] = Header(t, code, FALSE) /\ inbox[conn[t]] = << >>
          \/ /\ MayHaveBody(t, code)
             /\ reply[t] = Header(t, code, TRUE) /\ inbox[conn[t]] = <<Body(t)>>
    BY <1>1 DEF CommandInv, InStep, RestOfAnswer
  <1>3. conn[t] \in Conns /\ wire'[conn[t]] = << >>
    BY <1>1 DEF CommandInv, CommandTypeOK, Ownership, InStep, Using
  <1>4. reply[t].part = "header" /\ reply[t].code = code
    BY <1>2 DEF Header
  <1>5. /\ conn' = [conn EXCEPT ![t] = NoConn]
        /\ \/ idle' = idle
           \/ idle' = idle \cup {conn[t]} /\ (Accepts(t, code) \/ KeepConnection(code))
        /\ pc' = [pc EXCEPT ![t] = "done"]
        /\ \/ outcome' = [outcome EXCEPT ![t] = "ok"]
           \/ outcome' = [outcome EXCEPT ![t] = "server_error"]
        /\ reply' = [reply EXCEPT ![t] = NoReply] /\ iterations' \in [Threads -> Nat]
    <2>1. \/ PutBack(t) /\ (Accepts(t, code) \/ KeepConnection(code))
          \/ Invalidate(t)
      BY <1>1, <1>4 DEF Conclude
    <2>2. Finish(t, "ok") \/ Finish(t, "server_error")
      BY <1>1 DEF Conclude
    <2>3. /\ conn' = [conn EXCEPT ![t] = NoConn]
          /\ \/ idle' = idle
             \/ idle' = idle \cup {conn[t]} /\ (Accepts(t, code) \/ KeepConnection(code))
      BY <2>1 DEF PutBack, Invalidate, Pool!GiveUp
    <2>4. iterations' \in [Threads -> Nat]
      <3>1. iterations' = [iterations EXCEPT ![t] = 0] /\ iterations \in [Threads -> Nat]
        BY <2>2, Zenon DEF Finish, CommandInv, CommandTypeOK
      <3> QED
        BY <3>1
    <2> QED
      BY <2>2, <2>3, <2>4 DEF Goto, Finish
  <1>6. /\ \/ inbox' = inbox
           \/ pc[t] = "body" /\ inbox' = [inbox EXCEPT ![conn[t]] = << >>]
        /\ Accepts(t, code) \/ KeepConnection(code) => inbox'[conn[t]] = << >>
    <2>1. CASE HeaderOnly(t)
      <3>1. inbox' = inbox /\ ~ReadsBody(t)
        BY <2>1, <1>4 DEF HeaderOnly, netVars
      <3>2. SUFFICES ASSUME Accepts(t, code) \/ KeepConnection(code),
                            MayHaveBody(t, code), reply[t] = Header(t, code, TRUE)
                     PROVE  FALSE
        BY <3>1, <1>2
      <3>3. reply[t].more
        BY <3>2, HeaderFields
      <3>4. Kind[t] # "read" /\ ~Accepts(t, code)
        BY <3>1, <3>3, <1>4, Zenon DEF ReadsBody
      <3> QED
        BY <3>2, <3>4, CommandAssumption DEF MayHaveBody, KeepConnection, Accepts
    <2>2. CASE ReadBody(t)
      <3>1. pc[t] = "body" /\ inbox' = [inbox EXCEPT ![conn[t]] = Tail(inbox[conn[t]])]
        BY <2>2 DEF ReadBody
      <3>2. Tail(inbox[conn[t]]) = << >>
        BY <3>1, ShortSeqs DEF CommandInv, InStep
      <3> QED
        BY <3>1, <3>2, <1>3 DEF CommandInv, CommandTypeOK
    <2> QED
      BY <2>1, <2>2
  <1>7. /\ pc[t] \in Using /\ pc' = [pc EXCEPT ![t] = pc'[t]] /\ pc'[t] = "done"
        /\ outcome' = [outcome EXCEPT ![t] = outcome'[t]]
        /\ outcome'[t] \in {"ok", "server_error"}
    BY <1>1, <1>5 DEF CommandInv, CommandTypeOK, Using
  <1> QED
    BY <1>1, <1>3, <1>5, <1>6, <1>7, ReleaseStep

\* The server executes a request and answers, late or in time.
LEMMA ServerStep ==
  ASSUME CommandInv, NEW c \in Conns, ServerExecutes(c)
  PROVE  CommandInv'
  <1>1. PICK t \in Threads : /\ wire[c] = <<t>> /\ applied[t] = 0
                             /\ \/ pc[t] = "receive" /\ conn[t] = c
                                \/ pc[t] = "done"
                                   /\ outcome[t] \in {"network_error", "bad_reply"}
    BY DEF ServerExecutes, CommandInv, OneRequest
  <1>2. Head(wire[c]) = t /\ Tail(wire[c]) = << >>
    BY <1>1, ShortSeqs
  <1>3. PICK code \in Codes :
          \/ /\ MayHaveBody(t, code)
             /\ inbox' = [inbox EXCEPT ![c] = inbox[c] \o <<Header(t, code, TRUE), Body(t)>>]
          \/ inbox' = [inbox EXCEPT ![c] = Append(inbox[c], Header(t, code, FALSE))]
    <2>1. PICK code \in Codes, more \in BOOLEAN :
            /\ more => MayHaveBody(t, code)
            /\ inbox' = [inbox EXCEPT ![c] =
                           IF more THEN inbox[c] \o <<Header(t, code, TRUE), Body(t)>>
                                   ELSE Append(inbox[c], Header(t, code, FALSE))]
      BY <1>2, Zenon DEF ServerExecutes
    <2>2. CASE more = TRUE
      BY <2>1, <2>2, Zenon
    <2>3. CASE more = FALSE
      BY <2>1, <2>3, Zenon
    <2> QED
      BY <2>2, <2>3, Zenon
  <1>4. /\ applied' = [applied EXCEPT ![t] = 1]
        /\ wire' = [wire EXCEPT ![c] = << >>]
        /\ UNCHANGED <<pc, iterations, conn, idle, used, reply, outcome>>
    BY <1>1, <1>2 DEF ServerExecutes, loopVars, CommandInv, CommandTypeOK
  <1>5. inbox'[c] \in Seq(Parts) /\ (inbox[c] = << >> => Answer(t, inbox'[c]))
    <2>1. Header(t, code, TRUE) \in Parts /\ Header(t, code, FALSE) \in Parts /\ Body(t) \in Parts
      BY DEF Parts, Header, Body
    <2> DEFINE full == <<Header(t, code, TRUE), Body(t)>>
               bare == Header(t, code, FALSE)
    <2>2. inbox[c] \in Seq(Parts) /\ full \in Seq(Parts) /\ bare \in Parts
      <3>1. ASSUME NEW S, NEW x \in S, NEW y \in S PROVE <<x, y>> \in Seq(S)
        OBVIOUS
      <3> QED
        BY <2>1, <3>1, Zenon DEF CommandInv, CommandTypeOK
    <2>3. \/ inbox'[c] = inbox[c] \o full /\ MayHaveBody(t, code)
          \/ inbox'[c] = Append(inbox[c], bare)
      <3> HIDE DEF full, bare
      <3> QED
        BY <1>3 DEF CommandInv, CommandTypeOK, full, bare
    <2>4. Answer(t, full) \/ ~MayHaveBody(t, code)
      BY Zenon DEF Answer
    <2>5. Answer(t, <<bare>>)
      BY Zenon DEF Answer
    <2> HIDE DEF full, bare
    <2>6. inbox'[c] \in Seq(Parts)
      <3>1. inbox[c] \o full \in Seq(Parts) /\ Append(inbox[c], bare) \in Seq(Parts)
        BY <2>2, ConcatProperties, AppendProperties
      <3> QED
        BY <3>1, <2>3
    <2>7. inbox[c] = << >> => \/ inbox'[c] = full /\ MayHaveBody(t, code)
                              \/ inbox'[c] = <<bare>>
      BY <2>2, <2>3
    <2> QED
      BY <2>4, <2>5, <2>6, <2>7
  <1>6. t \in Threads /\ <<t>> # << >>
    BY ShortSeqs
  <1>7. /\ \A d \in Conns \ {c} : inbox'[d] = inbox[d] /\ wire'[d] = wire[d]
        /\ inbox' \in [Conns -> Seq(Parts)]
        /\ wire'[c] = << >> /\ << >> \in Seq(Threads)
    <2>1. inbox' = [inbox EXCEPT ![c] = inbox'[c]]
      BY <1>3 DEF CommandInv, CommandTypeOK
    <2>2. /\ \A d \in Conns \ {c} : inbox'[d] = inbox[d]
          /\ inbox' \in [Conns -> Seq(Parts)]
      BY <2>1, <1>5 DEF CommandInv, CommandTypeOK
    <2>3. /\ \A d \in Conns \ {c} : wire'[d] = wire[d]
          /\ wire'[c] = << >> /\ << >> \in Seq(Threads)
      BY <1>4 DEF CommandInv, CommandTypeOK
    <2> QED
      BY <2>2, <2>3
  <1>8. CommandTypeOK'
    BY <1>4, <1>7 DEF CommandInv, CommandTypeOK
  <1>9. Ownership'
    BY <1>4 DEF CommandInv, Ownership
  <1>10. \A d \in Conns \ {c} : wire[d] # <<t>>
    BY <1>1, <1>6, Zenon DEF CommandInv, OneRequest
  <1>11. OneRequest'
    <2>1. ASSUME NEW d \in Conns, wire'[d] # << >>
          PROVE  \E u \in Threads : /\ wire'[d] = <<u>> /\ applied'[u] = 0
                                   /\ \/ pc[u] = "receive" /\ conn[u] = d
                                      \/ pc[u] = "done"
                                         /\ outcome[u] \in {"network_error", "bad_reply"}
      <3>1. d # c /\ wire'[d] = wire[d]
        BY <2>1, <1>7
      <3>2. PICK u \in Threads : /\ wire[d] = <<u>> /\ applied[u] = 0
                                 /\ \/ pc[u] = "receive" /\ conn[u] = d
                                    \/ pc[u] = "done"
                                       /\ outcome[u] \in {"network_error", "bad_reply"}
        BY <3>1, <2>1 DEF CommandInv, OneRequest
      <3> QED
        BY <3>1, <3>2, <1>4, <1>10 DEF CommandInv, CommandTypeOK
    <2> QED
      BY <2>1, <1>4, <1>7 DEF CommandInv, OneRequest
  <1>12. InStep'
    <2> SUFFICES ASSUME NEW u \in Threads
                 PROVE  InStep!(u)'
      BY DEF InStep
    <2>1. CASE pc[u] \in Using /\ conn[u] = c
      <3>1. u = t /\ pc[u] = "receive" /\ inbox[c] = << >>
        BY <2>1, <1>1 DEF CommandInv, InStep, Quiet, Using, Ownership
      <3> QED
        BY <3>1, <2>1, <1>4, <1>5, <1>7 DEF CommandInv, CommandTypeOK
    <2>2. CASE ~(pc[u] \in Using /\ conn[u] = c)
      <3>1. pc[u] \in Using => conn[u] \in Conns \ {c}
        BY <2>2, <1>1 DEF CommandInv, Ownership, CommandTypeOK
      <3>2. pc[u] \in {"receive", "decide", "body"} /\ applied[u] = 1 => applied'[u] = 1
        BY <1>4 DEF CommandInv, CommandTypeOK
      <3>3. pc[u] \in Using => inbox'[conn[u]] = inbox[conn[u]] /\ wire'[conn[u]] = wire[conn[u]]
        BY <3>1, <1>7
      <3> QED
        BY <3>2, <3>3, <1>4 DEF CommandInv, InStep, Quiet, Using
    <2> QED
      BY <2>1, <2>2
  <1>13. Unsent' /\ AppliedAtMostOnce' /\ Verdict'
    <2>1. pc[t] \in {"receive", "done"} /\ outcome[t] \in {"running", "network_error", "bad_reply"}
      BY <1>1 DEF CommandInv, Verdict
    <2>2. \A u \in Threads : applied'[u] = IF u = t THEN 1 ELSE applied[u]
      BY <1>4 DEF CommandInv, CommandTypeOK
    <2> QED
      BY <2>1, <2>2, <1>4 DEF CommandInv, Unsent, AppliedAtMostOnce, Verdict, Before
  <1>14. OwnReply' /\ QuietOutside'
    <2>1. c \in used \ idle
      BY <1>1, <1>6 DEF CommandInv, QuietOutside, Quiet
    <2> QED
      BY <2>1, <1>4, <1>7 DEF CommandInv, OwnReply, QuietOutside, Quiet
  <1> QED
    BY <1>8, <1>9, <1>11, <1>12, <1>13, <1>14 DEF CommandInv

LEMMA NextCommandInv == CommandInv /\ [Next]_vars => CommandInv'
  <1> SUFFICES ASSUME CommandInv, [Next]_vars PROVE CommandInv'
    OBVIOUS
  <1>1. ASSUME NEW t \in Threads, ThreadStep(t) PROVE CommandInv'
    BY <1>1, LoopStep, GetConnectionStep, SendStep, ReadHeaderStep, WantBodyStep,
       InvalidateStep, PrepareFailsStep, ConcludeStep DEF ThreadStep
  <1>2. ASSUME NEW c \in Conns, ServerExecutes(c) PROVE CommandInv'
    BY <1>2, ServerStep
  <1>4. ASSUME NEW t \in Threads, DeadlinePasses(t) PROVE CommandInv'
    BY <1>4, DeadlineStep
  <1>3. CASE UNCHANGED vars
    BY <1>3 DEF vars, CommandInv, CommandTypeOK, Ownership, OneRequest, InStep, Quiet, Unsent,
       AppliedAtMostOnce, Verdict, OwnReply, QuietOutside
  <1> QED
    BY <1>1, <1>2, <1>3, <1>4 DEF Next

LEMMA CommandInvariant == Spec => []CommandInv
  BY InitCommandInv, NextCommandInv, PTL DEF Spec

-----------------------------------------------------------------------------
\* execute never has the server apply a command twice, whatever number of retries the
\* policy allows: the loop (single_command.rs) goes round again only before the
\* request is completely written.
THEOREM CommandAppliedAtMostOnce == Spec => []AppliedAtMostOnce
  <1>1. CommandInv => AppliedAtMostOnce
    BY DEF CommandInv
  <1> QED
    BY <1>1, CommandInvariant, PTL

\* The Result of execute tells whether the server has applied the command: an error of
\* the loop or of prepare_buffer means never, now or later; a reply means exactly once.
THEOREM CommandOutcomeTellsApplied == Spec => []OutcomeTellsApplied
  <1>1. CommandInv => OutcomeTellsApplied
    <2> SUFFICES ASSUME CommandInv, NEW t \in Threads,
                        outcome[t] \in {"gave_up", "not_sent"}, NEW c \in Conns,
                        NEW i \in DOMAIN wire[c], wire[c][i] = t
                 PROVE  FALSE
      BY DEF CommandInv, Verdict, OutcomeTellsApplied, Pending
    <2>1. wire[c] # << >>
      BY DEF CommandInv, CommandTypeOK
    <2>2. PICK u \in Threads : /\ wire[c] = <<u>>
                               /\ \/ pc[u] = "receive"
                                  \/ outcome[u] \in {"network_error", "bad_reply"}
      BY <2>1 DEF CommandInv, OneRequest
    <2>3. u = t
      BY <2>2
    <2> QED
      BY <2>2, <2>3 DEF CommandInv, Verdict
  <1> QED
    BY <1>1, CommandInvariant, PTL

\* parse_result never reads the reply to another thread's command off a connection
\* that was handed on.
THEOREM CommandOwnReply == Spec => []OwnReply
  <1>1. CommandInv => OwnReply
    BY DEF CommandInv
  <1> QED
    BY <1>1, CommandInvariant, PTL

\* What execute drops into the pool instead of invalidating carries no request and no
\* unread reply.
THEOREM CommandPooledInStep == Spec => []PooledInStep
  <1>1. CommandInv => PooledInStep
    BY DEF CommandInv, CommandTypeOK, QuietOutside, Quiet, PooledInStep
  <1> QED
    BY <1>1, CommandInvariant, PTL
-----------------------------------------------------------------------------
(* What the commands do with the pool. *)

\* Every step of a command is, for the pool, one of the steps it offers: a
\* connection is acquired while none is held, and given up once, into the pool or
\* out of it.
PoolStep ==
  \/ \E t \in Threads : Pool!Acquire(t) \/ Pool!GiveUp(t)
  \/ UNCHANGED <<conn, idle>>

LEMMA CommandPoolStep == CommandInv /\ [Next]_vars => PoolStep
  <1> SUFFICES ASSUME CommandInv, [Next]_vars PROVE PoolStep
    OBVIOUS
  <1>1. ASSUME NEW t \in Threads, pc[t] \in Using, PutBack(t) \/ Invalidate(t)
        PROVE  PoolStep
    <2>1. conn[t] # NoConn
      BY <1>1, CommandAssumption DEF CommandInv, CommandTypeOK, Ownership
    <2> QED
      BY <1>1, <2>1 DEF PoolStep, PutBack, Invalidate, Pool!GiveUp
  <1>2. ASSUME NEW t \in Threads, ThreadStep(t) PROVE PoolStep
    <2>1. CASE Iterate(t) \/ DeadlinePassed(t) \/ InTime(t) \/ Unavailable(t) \/ SendOk(t)
               \/ ReadHeader(t) \/ WantBody(t)
      BY <2>1 DEF PoolStep, Iterate, DeadlinePassed, InTime, Unavailable, SendOk, ReadHeader,
         WantBody
    <2>2. CASE GetConnection(t)
      BY <2>2 DEF PoolStep, GetConnection
    <2>3. CASE PrepareFails(t) \/ SendFails(t) \/ ReceiveFails(t)
      BY <2>3, <1>1 DEF PrepareFails, SendFails, ReceiveFails, Using
    <2>4. CASE HeaderOnly(t) \/ ReadBody(t)
      <3>1. pc[t] \in Using
        BY <2>4 DEF HeaderOnly, ReadBody, Using
      <3>2. PutBack(t) \/ Invalidate(t)
        BY <2>4 DEF HeaderOnly, ReadBody, Conclude
      <3> QED
        BY <3>1, <3>2, <1>1
    <2> QED
      BY <1>2, <2>1, <2>2, <2>3, <2>4 DEF ThreadStep
  <1>3. ASSUME NEW c \in Conns, ServerExecutes(c) PROVE PoolStep
    BY <1>3 DEF PoolStep, ServerExecutes
  <1>5. ASSUME NEW t \in Threads, DeadlinePasses(t) PROVE PoolStep
    BY <1>5 DEF PoolStep, DeadlinePasses
  <1>4. CASE UNCHANGED vars
    BY <1>4 DEF PoolStep, vars
  <1> QED
    BY <1>2, <1>3, <1>4, <1>5 DEF Next

\* Whatever fails, execute uses the pool the way BoundedPool says it is used: no
\* command acquires a connection while it holds one or gives one up that it has
\* given up before, be it that it puts the connection back or invalidates it.
THEOREM CommandsUsePool == Spec => Pool!BPSpec
  <1>1. Init => Pool!BPInit
    BY DEF Init
  <1>2. CommandInv /\ [Next]_vars => [Pool!BPNext]_Pool!bpVars
    BY CommandPoolStep DEF PoolStep, Pool!BPNext, Pool!bpVars
  <1> QED
    BY <1>1, <1>2, CommandInvariant, PTL DEF Spec, Pool!BPSpec

\* The sockets that are open: what commands hold and what waits in the pool.
Open == idle \cup Pool!Leased

OpenBounded == IsFiniteSet(Open) /\ Cardinality(Open) <= Limit

LEMMA SmallerOpen ==
  ASSUME OpenBounded, Open' \subseteq Open
  PROVE  OpenBounded'
  <1>1. IsFiniteSet(Open') /\ Cardinality(Open') <= Cardinality(Open)
    BY FS_Subset DEF OpenBounded
  <1>2. Cardinality(Open') \in Nat /\ Cardinality(Open) \in Nat
    BY <1>1, FS_CardinalityType DEF OpenBounded
  <1> QED
    BY <1>1, <1>2, CommandAssumption DEF OpenBounded

LEMMA AcquireBounded ==
  ASSUME CommandTypeOK, OpenBounded, NEW t \in Threads, Pool!Acquire(t)
  PROVE  OpenBounded'
  <1> DEFINE L == Pool!Leased
  <1>1. PICK gone \in SUBSET idle, c \in Conns :
          /\ \/ c \in idle \ gone
             \/ /\ c \notin idle \cup L
                /\ Cardinality(idle \ gone) + Cardinality(L) < Limit
          /\ conn' = [conn EXCEPT ![t] = c]
          /\ idle' = idle \ (gone \cup {c})
    BY DEF Pool!Acquire, Pool!Cardinality, Cardinality
  <1>2. Pool!Leased' \subseteq L \cup {c}
    BY <1>1 DEF CommandTypeOK, Pool!Leased
  <1>3. CASE c \in idle \ gone
    <2>1. Open' \subseteq Open
      BY <1>1, <1>2, <1>3 DEF Open
    <2> QED
      BY <2>1, SmallerOpen
  <1>4. CASE Cardinality(idle \ gone) + Cardinality(L) < Limit
    <2> DEFINE K == idle \ gone
    <2>1. IsFiniteSet(K) /\ IsFiniteSet(L)
      BY FS_Subset DEF OpenBounded, Open
    <2>2. /\ IsFiniteSet(K \cup L)
          /\ Cardinality(K \cup L) = Cardinality(K) + Cardinality(L) - Cardinality(K \cap L)
      BY <2>1, FS_Union
    <2>3. /\ IsFiniteSet((K \cup L) \cup {c})
          /\ Cardinality((K \cup L) \cup {c}) = IF c \in K \cup L THEN Cardinality(K \cup L)
                                                ELSE Cardinality(K \cup L) + 1
      BY <2>2, FS_AddElement
    <2>4. IsFiniteSet(K \cap L)
      BY <2>1, FS_Intersection
    <2>5. /\ Cardinality(K) \in Nat /\ Cardinality(L) \in Nat
          /\ Cardinality(K \cap L) \in Nat /\ Cardinality(K \cup L) \in Nat
      BY <2>1, <2>2, <2>4, FS_CardinalityType
    <2>6. Cardinality((K \cup L) \cup {c}) <= Limit
      BY <1>4, <2>2, <2>3, <2>5, CommandAssumption
    <2>7. Open' \in SUBSET ((K \cup L) \cup {c})
      BY <1>1, <1>2 DEF Open
    <2>8. IsFiniteSet(Open') /\ Cardinality(Open') <= Cardinality((K \cup L) \cup {c})
      BY <2>3, <2>7, FS_Subset
    <2>9. Cardinality(Open') \in Nat /\ Cardinality((K \cup L) \cup {c}) \in Nat
      BY <2>3, <2>8, FS_CardinalityType
    <2> QED
      BY <2>6, <2>8, <2>9, CommandAssumption DEF OpenBounded
  <1> QED
    BY <1>1, <1>3, <1>4

LEMMA NextOpenBounded == CommandInv /\ OpenBounded /\ [Next]_vars => OpenBounded'
  <1> SUFFICES ASSUME CommandInv, OpenBounded, [Next]_vars PROVE OpenBounded'
    OBVIOUS
  <1>1. PoolStep
    BY CommandPoolStep
  <1>2. CASE \E t \in Threads : Pool!Acquire(t)
    BY <1>2, AcquireBounded DEF CommandInv
  <1>3. ASSUME NEW t \in Threads, Pool!GiveUp(t) PROVE OpenBounded'
    <2>1. conn[t] \in Pool!Leased
      BY <1>3 DEF Pool!GiveUp, Pool!Leased
    <2>2. Pool!Leased' \subseteq Pool!Leased
      BY <1>3 DEF Pool!GiveUp, Pool!Leased, CommandInv, CommandTypeOK
    <2>3. Open' \subseteq Open
      BY <1>3, <2>1, <2>2 DEF Pool!GiveUp, Open
    <2> QED
      BY <2>3, SmallerOpen
  <1>4. CASE UNCHANGED <<conn, idle>>
    <2>1. Open' \subseteq Open
      BY <1>4 DEF Open, Pool!Leased
    <2> QED
      BY <2>1, SmallerOpen
  <1> QED
    BY <1>1, <1>2, <1>3, <1>4 DEF PoolStep

\* However many commands run at once, retry and fail, a node never has more than
\* max_conns_per_node sockets open: a connection that a failed command gives up
\* makes room for one other and no more.
THEOREM CommandOpenBounded == Spec => []OpenBounded
  <1>1. Init => OpenBounded
    <2> SUFFICES ASSUME Init PROVE OpenBounded
      OBVIOUS
    <2>1. Open = {}
      BY DEF Init, Pool!BPInit, Open, Pool!Leased
    <2> QED
      BY <2>1, FS_EmptySet, CommandAssumption DEF OpenBounded
  <1> QED
    BY <1>1, NextOpenBounded, CommandInvariant, PTL DEF Spec
=============================================================================
