---------------------------- MODULE FifoSemaphore ----------------------------
(***************************************************************************)
(* What the ASR inference gate promises its callers, with none of its      *)
(* machinery: at most Permits owners; a caller that finds no permit either *)
(* joins a queue or is turned away; a freed permit goes to the head of the *)
(* queue; and a queued caller may give up.  There are no futures, no       *)
(* wake-ups and no cancelled entries left behind in the queue.             *)
(***************************************************************************)
EXTENDS Naturals, Sequences, FiniteSets

CONSTANTS Clients,   (* the callers                                        *)
          Permits    (* how many of them may own a permit at once          *)

VARIABLES owners,    (* the callers that own a permit                      *)
          line       (* the callers in the queue, oldest first             *)

semVars == <<owners, line>>

-----------------------------------------------------------------------------
Init == owners = {} /\ line = <<>>

Outside(c) == c \notin owners /\ \A i \in DOMAIN line : line[i] # c

(* A permit is taken at once only when nobody is in the queue before.      *)
TakePermit(c) ==
    /\ Outside(c)
    /\ line = <<>>
    /\ Cardinality(owners) < Permits
    /\ owners' = owners \cup {c}
    /\ UNCHANGED line

JoinLine(c) ==
    /\ Outside(c)
    /\ Cardinality(owners) = Permits
    /\ line' = Append(line, c)
    /\ UNCHANGED owners

(* An owner's permit goes to the head of the queue, or back to the pool.   *)
PassPermit(c) ==
    /\ c \in owners
    /\ IF line = <<>>
       THEN owners' = owners \ {c} /\ UNCHANGED line
       ELSE owners' = (owners \ {c}) \cup {Head(line)} /\ line' = Tail(line)

GiveUp(c) ==
    /\ \E i \in DOMAIN line :
          /\ line[i] = c
          /\ line' = SubSeq(line, 1, i - 1) \o SubSeq(line, i + 1, Len(line))
    /\ UNCHANGED owners

Next == \E c \in Clients : TakePermit(c) \/ JoinLine(c) \/ PassPermit(c) \/ GiveUp(c)

Spec == Init /\ [][Next]_semVars
=============================================================================
