------------------------------- MODULE Access -------------------------------
(***************************************************************************)
(* Access control: Verify of auth/rules.go decides whether an account may  *)
(* use a resource, and the client wrapper of util/wrapper/wrapper.go gives *)
(* a call the credentials of the service.                                  *)
(*                                                                         *)
(* Resource types and names are compared without regard to case, which the *)
(* tokens here stand for already.  An endpoint is the sequence of its      *)
(* components between "/"; the endpoint of a rule is "*", an endpoint, or  *)
(* an endpoint followed by "/*".                                           *)
(***************************************************************************)
EXTENDS Naturals, Sequences, SequencesExt

CONSTANTS AuMaxRules,    \* bound on the rules
          AuMaxPriority  \* priorities are 0..AuMaxPriority

AuExact(path) == [path |-> path, wild |-> FALSE]
AuUnder(path) == [path |-> path, wild |-> TRUE]
AuAny == AuUnder(<<>>)

AuShapes ==
  {[type |-> "*", name |-> "*", endpoint |-> AuAny],
   [type |-> "service", name |-> "notes", endpoint |-> AuExact(<<"a", "b">>)],
   [type |-> "service", name |-> "*", endpoint |-> AuUnder(<<"a">>)],
   [type |-> "*", name |-> "notes", endpoint |-> AuUnder(<<"a", "b">>)],
   [type |-> "service", name |-> "other", endpoint |-> AuAny],
   [type |-> "web", name |-> "*", endpoint |-> AuAny]}
AuResources ==
  {[type |-> "service", name |-> "notes", endpoint |-> <<"a", "b">>],
   [type |-> "service", name |-> "notes", endpoint |-> <<"a">>]}
AuScopes == {"public", "account", "s1", "s2"}
AuRules == [res : AuShapes, scope : AuScopes, granted : BOOLEAN, priority : 0..AuMaxPriority]

(* nil, or the scopes of the account.                                      *)
AuNil == [nil |-> TRUE, scopes |-> {}]
AuAccounts == {AuNil} \cup [nil : {FALSE}, scopes : {{}, {"s1"}}]

(* A call of the wrapped client: the headers of its context, the option    *)
(* ServiceToken and what the service has for authentication.               *)
AuCalls == [header : {"none", "caller"}, space : {"none", "caller"}, serviceToken : BOOLEAN,
            auth : BOOLEAN, token : {"none", "expired", "valid"}]

VARIABLES auRules,       \* the rules
          auPc,          \* rules, verified, called
          auIn,          \* account and resource of the verification
          auGranted,     \* its result
          auCall,        \* the call of the wrapped client
          auSent         \* its headers when it is sent
auVars == <<auRules, auPc, auIn, auGranted, auCall, auSent>>

AccessInit == /\ auRules = <<>> /\ auPc = "rules" /\ auIn = <<>> /\ auGranted = FALSE
              /\ auCall = <<>> /\ auSent = <<>>

-----------------------------------------------------------------------------
(* "*", the endpoint, and if it has a "/" each of its prefixes with "/*".  *)
AuValidEndpoints(ep) ==
  {AuAny, AuExact(ep)} \cup
  (IF Len(ep) > 1 THEN {AuUnder(SubSeq(ep, 1, i)) : i \in 1..Len(ep)} ELSE {})

AuFiltered(rules, res) ==
  SelectSeq(rules, LAMBDA r : /\ r.res.type \in {"*", res.type}
                              /\ r.res.name \in {"*", res.name}
                              /\ r.res.endpoint \in AuValidEndpoints(res.endpoint))

(* Mutant: lowest priority first.                                          *)
AuSortedUp(rules) ==
  FlattenSeq([i \in 1..(AuMaxPriority + 1) |-> SelectSeq(rules, LAMBDA r : r.priority = i - 1)])

(* Highest priority first; rules of one priority keep their order.         *)
AuSorted(rules) ==
  FlattenSeq([i \in 1..(AuMaxPriority + 1) |->
                SelectSeq(rules, LAMBDA r : r.priority = AuMaxPriority + 1 - i)])

(* A rule decides for everyone, for any account, or for one with its scope.*)
AuDecides(r, acc) == \/ r.scope = "public"
                     \/ ~acc.nil /\ (r.scope = "account" \/ r.scope \in acc.scopes)

(* Verify: the first rule that decides does; without one it is forbidden.  *)
Verify(rules, acc, res) ==
  LET deciding == SelectSeq(AuSorted(AuFiltered(rules, res)), LAMBDA r : AuDecides(r, acc))
  IN  deciding # <<>> /\ deciding[1].granted

AuAddRule(r) ==
  /\ auPc = "rules" /\ Len(auRules) < AuMaxRules
  /\ auRules' = Append(auRules, r)
  /\ UNCHANGED <<auPc, auIn, auGranted, auCall, auSent>>

AuVerify(acc, res) ==
  /\ auPc = "rules" /\ auPc' = "verified"
  /\ auIn' = <<acc, res>> /\ auGranted' = Verify(auRules, acc, res)
  /\ UNCHANGED <<auRules, auCall, auSent>>

-----------------------------------------------------------------------------
(* Call of the auth wrapper: the caller's authorization stands unless the  *)
(* service token is asked for; without authentication the call goes out as *)
(* it is; else the namespace is filled in and a token that is still valid  *)
(* is added.                                                               *)
AuHeaders(call) ==
  LET as_is == (call.header = "caller" /\ ~call.serviceToken) \/ ~call.auth
  IN  [authorization |-> IF ~as_is /\ call.token = "valid" THEN "service" ELSE call.header,
       space |-> IF ~as_is /\ call.space = "none" THEN "service" ELSE call.space]

AuthCall(call) ==
  /\ auPc = "rules" /\ auRules = <<>> /\ auPc' = "called"
  /\ auCall' = call /\ auSent' = AuHeaders(call)
  /\ UNCHANGED <<auRules, auIn, auGranted>>

AccessNext ==
  \/ auPc = "rules" /\ \E r \in AuRules : AuAddRule(r)
  \/ \E acc \in AuAccounts, res \in AuResources : AuVerify(acc, res)
  \/ \E call \in AuCalls : AuthCall(call)

-----------------------------------------------------------------------------
AuCovers(shape, res) ==
  /\ shape.type \in {"*", res.type} /\ shape.name \in {"*", res.name}
  /\ \/ shape.endpoint = AuAny
     \/ shape.endpoint = AuExact(res.endpoint)
     \/ /\ shape.endpoint.wild /\ Len(res.endpoint) > 1
        /\ IsPrefix(shape.endpoint.path, res.endpoint)

(* Access is granted only by a rule: one that covers the resource and      *)
(* applies to the account, and that no such rule of higher priority, or of *)
(* the same priority and given earlier, denies.  And it is granted if such *)
(* a rule is there.  A call of the wrapped client never loses the          *)
(* authorization of its caller unless it asks for the service's, and never *)
(* goes out with a token that has expired.                                 *)
AccessByRules ==
  /\ auPc = "verified" =>
       LET acc == auIn[1]
           res == auIn[2]
           applies(i) == AuCovers(auRules[i].res, res) /\ AuDecides(auRules[i], acc)
           before(i, j) == \/ auRules[i].priority > auRules[j].priority
                           \/ auRules[i].priority = auRules[j].priority /\ i < j
       IN  auGranted <=> \E j \in DOMAIN auRules :
                           /\ applies(j) /\ auRules[j].granted
                           /\ \A i \in DOMAIN auRules :
                                applies(i) /\ before(i, j) => auRules[i].granted
  /\ auPc = "called" =>
       /\ auCall.header = "caller" /\ auSent.authorization # "caller" => auCall.serviceToken
       /\ auSent.authorization = "service" => auCall.token = "valid"
       /\ auCall.space = "caller" => auSent.space = "caller"

=============================================================================
