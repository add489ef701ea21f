----------------------------- MODULE Addressing -----------------------------
(***************************************************************************)
(* How servers get an address: Listen of util/net binds the first free     *)
(* port of a range and Extract of util/addr chooses an address of the      *)
(* machine to advertise.  Several servers of one machine start and stop at *)
(* any time, and the interfaces of the machine come and go.                *)
(*                                                                         *)
(* An address of an interface is private, public or loopback, or a kind    *)
(* that is passed over; the interfaces are a sequence of such addresses.   *)
(***************************************************************************)
EXTENDS Naturals, Sequences, SequencesExt

CONSTANTS AdServers,
          AdPorts,       \* ports are 1..AdPorts
          AdMaxAddrs,    \* bound on the addresses of the machine
          AdMaxStarts    \* bound on the calls of Listen

AdKinds == {"private", "public", "loopback", "other"}
AdNone == 0

VARIABLES adBound,       \* port -> the server that listens there, or none
          adAt,          \* server -> off, bind, listening, failed, and its range
          adIfaces,      \* addresses of the interfaces
          adShown,       \* server -> the address it advertises
          adStarts,
          adTried        \* history: server -> ports that refused it
adVars == <<adBound, adAt, adIfaces, adShown, adStarts, adTried>>

AdOff == [pc |-> "off", port |-> AdNone, max |-> AdNone, min |-> AdNone]

AddressingInit ==
  /\ adBound = [p \in 1..AdPorts |-> "none"] /\ adAt = [s \in AdServers |-> AdOff]
  /\ adIfaces = <<>> /\ adShown = [s \in AdServers |-> "none"] /\ adStarts = 0
  /\ adTried = [s \in AdServers |-> {}]

-----------------------------------------------------------------------------
(* Listen.  A single port is a range of one; an empty range binds nothing. *)
AdListen(s, min, max) ==
  /\ adAt[s].pc = "off" /\ adStarts < AdMaxStarts
  /\ adStarts' = adStarts + 1
  /\ adAt' = [adAt EXCEPT ![s] = [pc |-> IF min <= max THEN "bind" ELSE "failed",
                                  port |-> min, min |-> min, max |-> max]]
  /\ adTried' = [adTried EXCEPT ![s] = {}]
  /\ UNCHANGED <<adBound, adIfaces, adShown>>

(* Mutant: the loop ends before the last port.                             *)
AdLastEarly(s) == adAt[s].port + 1 >= adAt[s].max

AdLast(s) == adAt[s].port = adAt[s].max

(* One turn of the loop: the port is free and bound; or it is taken, or    *)
(* the bind fails for another reason, and the next is tried, or the error  *)
(* of the last is returned.                                                *)
AdBind(s) ==
  /\ adAt[s].pc = "bind" /\ adBound[adAt[s].port] = "none"
  /\ adBound' = [adBound EXCEPT ![adAt[s].port] = s]
  /\ adAt' = [adAt EXCEPT ![s].pc = "listening"]
  /\ UNCHANGED <<adIfaces, adShown, adStarts, adTried>>

AdRefused(s) ==
  /\ adAt[s].pc = "bind"
  /\ adAt' = [adAt EXCEPT ![s] = IF AdLast(s) THEN [@ EXCEPT !.pc = "failed"]
                                 ELSE [@ EXCEPT !.port = @ + 1]]
  /\ adTried' = [adTried EXCEPT ![s] = @ \cup {adAt[s].port}]
  /\ UNCHANGED <<adBound, adIfaces, adShown, adStarts>>

AdClose(s) ==
  /\ adAt[s].pc = "listening"
  /\ adBound' = [adBound EXCEPT ![adAt[s].port] = "none"]
  /\ adAt' = [adAt EXCEPT ![s] = AdOff] /\ adShown' = [adShown EXCEPT ![s] = "none"]
  /\ UNCHANGED <<adIfaces, adStarts, adTried>>

-----------------------------------------------------------------------------
(* An interface comes with an address, or goes (environment).              *)
AdIfaceUp(kind) ==
  /\ Len(adIfaces) < AdMaxAddrs /\ adIfaces' = Append(adIfaces, kind)
  /\ UNCHANGED <<adBound, adAt, adShown, adStarts, adTried>>
AdIfaceDown ==
  /\ adIfaces # <<>> /\ adIfaces' = Tail(adIfaces)
  /\ UNCHANGED <<adBound, adAt, adShown, adStarts, adTried>>

(* Addresses of loopback interfaces go to the end of the list.             *)
AdOrdered == SelectSeq(adIfaces, LAMBDA a : a # "loopback") \o
             SelectSeq(adIfaces, LAMBDA a : a = "loopback")

(* findIP: one pass that returns a private address at once and remembers   *)
(* the first public and the first loopback one.                            *)
AdScan[k \in Nat] ==
  IF k = 0 THEN [found |-> "none", public |-> "none", local |-> "none"]
  ELSE LET seen == AdScan[k - 1]
           a == AdOrdered[k]
       IN  IF seen.found # "none" \/ a = "other" THEN seen
           ELSE IF a = "loopback" THEN [seen EXCEPT !.local = a]
           ELSE IF a = "public" THEN [seen EXCEPT !.public = a]
           ELSE [seen EXCEPT !.found = a]
AdFindIP ==
  LET all == AdScan[Len(adIfaces)]
  IN  IF all.found # "none" THEN all.found
      ELSE IF all.public # "none" THEN all.public ELSE all.local

(* Extract: the address given, unless it is empty or stands for all; an    *)
(* error if the machine has none.                                          *)
AdAdvertise(s, given) ==
  /\ adAt[s].pc = "listening" /\ adShown[s] = "none"
  /\ adShown' = [adShown EXCEPT ![s] = IF given = "any" THEN AdFindIP ELSE given]
  /\ UNCHANGED <<adBound, adAt, adIfaces, adStarts, adTried>>

AddressingNext ==
  \/ \E s \in AdServers : \/ \E min, max \in 1..AdPorts : AdListen(s, min, max)
                          \/ AdBind(s) \/ AdRefused(s) \/ AdClose(s)
                          \/ \E given \in {"any", "given"} : AdAdvertise(s, given)
  \/ \E kind \in AdKinds : AdIfaceUp(kind)
  \/ AdIfaceDown

-----------------------------------------------------------------------------
AdBest == IF "private" \in ToSet(adIfaces) THEN "private"
          ELSE IF "public" \in ToSet(adIfaces) THEN "public"
          ELSE IF "loopback" \in ToSet(adIfaces) THEN "loopback" ELSE "none"

(* Addresses are sound, however starts and stops of servers interleave.  A *)
(* server that listens has a port of its range to itself, and every lower  *)
(* port of the range refused it; a server fails to listen only after each  *)
(* port of its range refused it.  The address to advertise                 *)
(* is private if the machine has such a one, else public, else loopback.   *)
AddressesSound ==
  /\ \A s \in AdServers :
       /\ adAt[s].pc = "listening" =>
            /\ adBound[adAt[s].port] = s
            /\ adAt[s].port \in adAt[s].min..adAt[s].max
            /\ adTried[s] = adAt[s].min..(adAt[s].port - 1)
       /\ adAt[s].pc = "failed" => adTried[s] = adAt[s].min..adAt[s].max
       /\ adAt[s].pc # "listening" => \A p \in 1..AdPorts : adBound[p] # s
  /\ AdFindIP = AdBest

=============================================================================
