----------------------------- MODULE MCUpcaster -----------------------------
(***************************************************************************)
(* Upcaster over three types, two of them with a rule: every way its rules *)
(* may lead, circles and re-encodings of the same type included.           *)
(***************************************************************************)
EXTENDS Upcaster

MCFailures ==
  {[kind |-> "coded", error |-> Bug("BAD", <<>>)],
   [kind |-> "other", error |-> None],
   [kind |-> "panic", error |-> None]}

Event(seq, type) == [seq |-> seq, type |-> type]

MCRequests ==
  {[input |-> "none"]}
    \cup {[input |-> "lone", type |-> type] : type \in Types}
    \cup {[input |-> "pages", events |-> events] :
            events \in {<<>>, <<Event(4, "v1"), Event(5, None), Event(6, "v2")>>,
                        <<Event(0, None), Event(0, "v3"), Event(2, "v1")>>}}

=============================================================================
