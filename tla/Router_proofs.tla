---------------------------- MODULE Router_proofs ---------------------------
(***************************************************************************)
(* Whom a router asks, for any components, registered in any order, and    *)
(* any number of calls at once.                                            *)
(***************************************************************************)
EXTENDS Router, TLAPS

Stages == {"idle", "made", "waiting", "answered"}

Shape ==
  /\ registered \in Seq(Components)
  /\ calls = [k \in Calls |-> calls[k]]
  /\ \A k \in Calls :
       /\ calls[k] = [stage |-> calls[k].stage, service |-> calls[k].service,
                      answer |-> calls[k].answer]
       /\ calls[k].stage \in Stages
  /\ asked = [k \in Calls |-> asked[k]]

(* What a call has asked: nothing before it is polled, and from then on    *)
(* the hosted component, once, for a service of its own, or nobody; a call *)
(* waits for a remote component, which it has asked.                       *)
AskedOK(k) ==
  /\ hosted = None => calls[k].stage = "idle"
  /\ calls[k].stage \in {"idle", "made"} => asked[k] = <<>>
  /\ asked[k] # <<>> =>
       asked[k] = <<hosted.name>> /\ hosted \in Serving(calls[k].service)
  /\ calls[k].stage = "waiting" => asked[k] # <<>> /\ hosted.remote

(* A router hosts the one component its builder was given.                 *)
RouterInv ==
  /\ Shape
  /\ hosted # None => hosted \in Components /\ registered = <<hosted>>
  /\ \A k \in Calls : AskedOK(k)

(* What one call does leaves every other as it is.                         *)
Same(k) ==
  /\ UNCHANGED <<registered, hosted>>
  /\ calls'[k] = calls[k] /\ asked'[k] = asked[k]

LEMMA SameKeeps ==
  ASSUME NEW k \in Calls, AskedOK(k), Same(k)
  PROVE  AskedOK(k)'
BY DEF AskedOK, Same

LEMMA InitRouterInv == Init => RouterInv
BY DEF Init, RouterInv, Shape, AskedOK, NoCall, Stages

(* Answering a call changes nothing else of it, and no other.              *)
LEMMA Answers ==
  ASSUME Shape, NEW k \in Calls, NEW answer, AnswerWith(k, answer)
  PROVE  /\ calls'[k] = [stage |-> "answered", service |-> calls[k].service,
                         answer |-> answer]
         /\ \A c \in Calls \ {k} : calls'[c] = calls[c]
         /\ calls' = [c \in Calls |-> calls'[c]]
<1> DEFINE new == [stage |-> "answered", service |-> calls[k].service,
                   answer |-> answer]
<1>1. calls' = [calls EXCEPT ![k] = new]
  BY DEF AnswerWith
<1> HIDE DEF new
<1>2. /\ calls'[k] = new
      /\ \A c \in Calls \ {k} : calls'[c] = calls[c]
      /\ calls' = [c \in Calls |-> calls'[c]]
  BY <1>1 DEF Shape
<1>3. QED
  BY <1>2 DEF new

(* Beginning a call asks the hosted component, once, if it has the         *)
(* service; the call waits for a remote component only.                    *)
LEMMA Begun ==
  ASSUME RouterInv, NEW k \in Calls, FirstPoll(k)
  PROVE  RouterInv'
<1>1. /\ Shape /\ \A c \in Calls : AskedOK(c)
      /\ calls[k].stage = "made" /\ asked[k] = <<>>
      /\ UNCHANGED <<registered, hosted>>
  BY DEF RouterInv, FirstPoll, AskedOK
<1>2. hosted # None /\ hosted \in Components /\ registered = <<hosted>>
  BY <1>1 DEF RouterInv, AskedOK
<1>3. hosted.remote \in BOOLEAN
  BY <1>2, RouterAssumption
<1> DEFINE Kept == /\ Shape'
                   /\ \A c \in Calls \ {k} : Same(c)
<1>4. ASSUME Kept, AskedOK(k)'
      PROVE  RouterInv'
  BY <1>1, <1>2, <1>4, SameKeeps DEF RouterInv
<1>5. CASE ~ Hosts(k)
  <2>1. AnswerWith(k, WrongKind) /\ UNCHANGED asked
    BY <1>5 DEF FirstPoll, Begin
  <2> DEFINE wrong == WrongKind
  <2>2. /\ calls'[k] = [stage |-> "answered", service |-> calls[k].service,
                        answer |-> wrong]
        /\ \A c \in Calls \ {k} : calls'[c] = calls[c]
        /\ calls' = [c \in Calls |-> calls'[c]]
    BY <1>1, <2>1, Answers
  <2> HIDE DEF wrong
  <2>3. Kept
    BY <1>1, <2>1, <2>2 DEF Shape, Stages, Same
  <2>4. calls'[k].stage = "answered" /\ calls'[k].answer = wrong /\ asked'[k] = <<>>
    BY <1>1, <2>1, <2>2
  <2>5. AskedOK(k)'
    BY <1>1, <1>2, <2>4 DEF AskedOK
  <2>6. QED
    BY <1>4, <2>3, <2>4, <2>5 DEF wrong, Same
<1>6. CASE Hosts(k)
  <2>1. hosted \in Serving(calls[k].service)
    BY <1>6 DEF Hosts
  <2>2. asked' = [asked EXCEPT ![k] = Append(asked[k], hosted.name)]
    BY <1>6 DEF FirstPoll, Begin, Ask
  <2>3. asked'[k] = <<hosted.name>> /\ \A c \in Calls \ {k} : asked'[c] = asked[c]
    BY <1>1, <2>2 DEF Shape
  <2>4. CASE hosted.remote
    <3>1. calls' = [calls EXCEPT ![k].stage = "waiting"]
      BY <1>6, <2>4 DEF FirstPoll, Begin, Goto
    <3>2. Kept
      BY <1>1, <2>2, <3>1 DEF Shape, Stages, Same
    <3>3. calls'[k].stage = "waiting" /\ calls'[k].service = calls[k].service
      BY <1>1, <3>1 DEF Shape
    <3>4. AskedOK(k)'
      <4>1. hosted' \in Serving(calls'[k].service)
        BY <1>1, <2>1, <3>3
      <4>2. Serving(calls[k].service)' = Serving(calls'[k].service)
        BY DEF Serving, Aggregates, Policies, Projectors
      <4>3. QED
        BY <1>1, <1>2, <2>3, <2>4, <3>3, <4>1, <4>2 DEF AskedOK
    <3>5. QED
      BY <1>4, <3>2, <3>3, <3>4 DEF Same
  <2>5. CASE ~ hosted.remote
    <3> DEFINE reply == Replied
    <3>1. AnswerWith(k, reply)
      BY <1>6, <2>5 DEF FirstPoll, Begin
    <3> HIDE DEF reply
    <3>2. /\ calls'[k] = [stage |-> "answered", service |-> calls[k].service,
                          answer |-> reply]
          /\ \A c \in Calls \ {k} : calls'[c] = calls[c]
          /\ calls' = [c \in Calls |-> calls'[c]]
      BY <1>1, <3>1, Answers
    <3>3. /\ calls'[k].stage = "answered" /\ calls'[k].answer = reply
          /\ calls'[k].service = calls[k].service
      BY <3>2
    <3>4. Kept
      <4>1. \A c \in Calls \ {k} : Same(c)
        BY <1>1, <2>3, <3>2 DEF Same
      <4>2. asked' = [c \in Calls |-> asked'[c]]
        BY <1>1, <2>2 DEF Shape
      <4>3. \A c \in Calls :
              /\ calls'[c] = [stage |-> calls'[c].stage, service |-> calls'[c].service,
                              answer |-> calls'[c].answer]
              /\ calls'[c].stage \in Stages
        BY <1>1, <3>2 DEF Shape, Stages
      <4>4. QED
        BY <1>1, <3>2, <4>1, <4>2, <4>3 DEF Shape
    <3>5. AskedOK(k)'
      <4>1. hosted' \in Serving(calls'[k].service)
        BY <1>1, <2>1, <3>3
      <4>2. Serving(calls[k].service)' = Serving(calls'[k].service)
        BY DEF Serving, Aggregates, Policies, Projectors
      <4>3. QED
        BY <1>1, <1>2, <2>3, <3>3, <4>1, <4>2 DEF AskedOK
    <3>6. QED
      BY <1>4, <2>3, <2>5, <3>3, <3>4, <3>5 DEF Same, reply
  <2>6. QED
    BY <1>3, <2>4, <2>5
<1>7. QED
  BY <1>5, <1>6

LEMMA NextRouterInv == RouterInv /\ [Next]_vars => RouterInv'
<1> SUFFICES ASSUME RouterInv, [Next]_vars PROVE RouterInv'
  OBVIOUS
<1>1. Shape /\ \A c \in Calls : AskedOK(c)
  BY DEF RouterInv
<1>2. ASSUME NEW k \in Calls, Shape', \A c \in Calls \ {k} : Same(c),
             AskedOK(k)', UNCHANGED <<registered, hosted>>
      PROVE  RouterInv'
  BY <1>1, <1>2, SameKeeps DEF RouterInv
<1>3. ASSUME NEW c \in Components, Register(c) \/ RegisterAnother(c)
      PROVE  RouterInv'
  <2>1. CASE Register(c)
    <3>1. registered' \in Seq(Components) /\ hosted' = None
      BY <1>1, <2>1 DEF Register, Shape
    <3>2. UNCHANGED <<hosted, calls, asked>>
      BY <2>1 DEF Register
    <3>3. \A k \in Calls : AskedOK(k)'
      BY <1>1, <3>2 DEF AskedOK
    <3>4. QED
      BY <1>1, <3>1, <3>2, <3>3 DEF RouterInv, Shape
  <2>2. CASE RegisterAnother(c)
    <3>1. UNCHANGED <<registered, hosted, calls, asked>>
      BY <2>2 DEF RegisterAnother
    <3>2. \A k \in Calls : AskedOK(k)'
      BY <1>1, <3>1 DEF AskedOK
    <3>3. QED
      BY <1>1, <3>1, <3>2 DEF RouterInv, Shape
  <2>3. QED
    BY <1>3, <2>1, <2>2
<1>4. CASE Build
  <2>1. UNCHANGED <<calls, asked>> /\ hosted = None
    BY <1>4 DEF Build
  <2>2. \A k \in Calls : AskedOK(k)'
    BY <1>1, <2>1 DEF AskedOK
  <2>3. CASE Len(registered) = 1
    <3>1. hosted' = registered[1] /\ UNCHANGED registered
      BY <1>4, <2>3 DEF Build
    <3>2. registered[1] \in Components /\ registered = <<registered[1]>>
      BY <1>1, <2>3 DEF Shape
    <3>3. QED
      BY <1>1, <2>1, <2>2, <3>1, <3>2 DEF RouterInv, Shape
  <2>4. CASE Len(registered) # 1
    <3>1. registered' = <<>> /\ UNCHANGED hosted
      BY <1>4, <2>4 DEF Build
    <3>2. <<>> \in Seq(Components)
      OBVIOUS
    <3>3. QED
      BY <1>1, <2>1, <2>2, <3>1, <3>2 DEF RouterInv, Shape
  <2>5. QED
    BY <2>3, <2>4
<1>5. ASSUME NEW k \in Calls, NEW service \in Services, Call(k, service)
      PROVE  RouterInv'
  <2> DEFINE made == [stage |-> "made", service |-> service, answer |-> None]
  <2>1. /\ hosted # None /\ asked[k] = <<>>
        /\ UNCHANGED <<registered, hosted, asked>>
    BY <1>1, <1>5 DEF Call, AskedOK
  <2>2. calls' = [calls EXCEPT ![k] = made]
    BY <1>5 DEF Call
  <2>3. made.stage = "made" /\ made.service = service /\ made.answer = None
    OBVIOUS
  <2>4. made = [stage |-> made.stage, service |-> made.service, answer |-> made.answer]
    OBVIOUS
  <2> HIDE DEF made
  <2>5. Shape' /\ \A c \in Calls \ {k} : Same(c)
    BY <1>1, <2>1, <2>2, <2>3, <2>4 DEF Shape, Stages, Same
  <2>6. AskedOK(k)'
    BY <1>1, <2>1, <2>2, <2>3 DEF AskedOK, Shape
  <2>7. QED
    BY <1>2, <2>1, <2>5, <2>6
<1>6. ASSUME NEW k \in Calls, FirstPoll(k)
      PROVE  RouterInv'
  BY <1>6, Begun
<1>7. ASSUME NEW k \in Calls, PollAgain(k)
      PROVE  RouterInv'
  <2> DEFINE reply == Replied
  <2>1. /\ AnswerWith(k, reply) /\ calls[k].stage = "waiting"
        /\ UNCHANGED <<registered, hosted, asked>>
    BY <1>7 DEF PollAgain
  <2> HIDE DEF reply
  <2>2. /\ calls'[k] = [stage |-> "answered", service |-> calls[k].service,
                        answer |-> reply]
        /\ \A c \in Calls \ {k} : calls'[c] = calls[c]
        /\ calls' = [c \in Calls |-> calls'[c]]
    BY <1>1, <2>1, Answers
  <2>3. Shape' /\ \A c \in Calls \ {k} : Same(c)
    BY <1>1, <2>1, <2>2 DEF Shape, Stages, Same
  <2>4. AskedOK(k)'
    BY <1>1, <2>1, <2>2 DEF AskedOK
  <2>5. QED
    BY <1>2, <2>1, <2>3, <2>4
<1>8. ASSUME NEW k \in Calls, Reply(k)
      PROVE  RouterInv'
  <2>1. UNCHANGED <<registered, hosted, calls, asked>>
    BY <1>8 DEF Reply
  <2>2. \A c \in Calls : AskedOK(c)'
    BY <1>1, <2>1 DEF AskedOK
  <2>3. QED
    BY <2>1, <2>2 DEF RouterInv, Shape
<1>9. ASSUME NEW k \in Calls, Take(k) \/ Drop(k)
      PROVE  RouterInv'
  <2>1. /\ calls' = [calls EXCEPT ![k] = NoCall]
        /\ asked' = [asked EXCEPT ![k] = <<>>]
        /\ UNCHANGED <<registered, hosted>>
    BY <1>9 DEF Take, Drop, End
  <2> DEFINE none == NoCall
  <2>2. none = [stage |-> none.stage, service |-> none.service,
                answer |-> none.answer] /\ none.stage = "idle"
    BY DEF NoCall
  <2> HIDE DEF none
  <2>3. Shape' /\ \A c \in Calls \ {k} : Same(c)
    BY <1>1, <2>1, <2>2 DEF Shape, Stages, Same, none
  <2>4. calls'[k].stage = "idle" /\ asked'[k] = <<>>
    BY <1>1, <2>1, <2>2 DEF Shape, none
  <2>5. AskedOK(k)'
    BY <2>4 DEF AskedOK
  <2>6. QED
    BY <1>2, <2>1, <2>3, <2>5
<1>10. CASE UNCHANGED vars
  <2>1. UNCHANGED <<registered, hosted, calls, asked>>
    BY <1>10 DEF vars
  <2>2. \A c \in Calls : AskedOK(c)'
    BY <1>1, <2>1 DEF AskedOK
  <2>3. QED
    BY <2>1, <2>2 DEF RouterInv, Shape
<1>11. QED
  BY <1>3, <1>4, <1>5, <1>6, <1>7, <1>8, <1>9, <1>10 DEF Next, Poll

LEMMA Invariant == Spec => []RouterInv
BY InitRouterInv, NextRouterInv, PTL DEF Spec

(* One process, one component: only the component its builder was given    *)
(* alone is asked, once for each call, and for its own kind's services.    *)
THEOREM OnlyTheHostedIsAsked == Spec => []OnlyTheOneIsAsked
<1>1. RouterInv => OnlyTheOneIsAsked
  <2> SUFFICES ASSUME RouterInv, NEW k \in Calls, asked[k] # <<>>
               PROVE  /\ registered = <<hosted>>
                      /\ asked[k] = <<hosted.name>>
                      /\ hosted \in Serving(calls[k].service)
    BY DEF OnlyTheOneIsAsked
  <2>1. AskedOK(k) /\ calls[k].stage \in Stages
    BY DEF RouterInv, Shape
  <2>2. hosted # None
    BY <2>1 DEF AskedOK
  <2>3. QED
    BY <2>1, <2>2 DEF RouterInv, AskedOK
<1>2. QED
  BY <1>1, Invariant, PTL

=============================================================================
