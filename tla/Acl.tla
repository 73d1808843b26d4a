----------------------------------- MODULE Acl -----------------------------------
(* The access-control engine (data-plane/src/acl/mod.rs): one policy behind    *)
(* one lock, changed piece by piece or as a whole, and the decision on a flow. *)
(* Protocol and port are one datum, the service.                               *)
EXTENDS Naturals, Sequences

CONSTANTS
    Devices, GroupNames, Services,
    Rules,      \* rules that may be loaded or added: [action, src, dst, services, priority]
    MaxRules    \* bound: rules of a policy

\* "any" stands for everyone; a rule names a group or a device, and an empty set of
\* services stands for all.
Constants ==
    /\ MaxRules \in Nat
    /\ \A r \in Rules : /\ r.action \in {"allow", "deny"} /\ r.priority \in Nat
                        /\ {r.src, r.dst} \subseteq Devices \cup GroupNames \cup {"any"}
                        /\ r.services \subseteq Services

VARIABLE policy    \* [mode, groups, rules, isolated_devices, bypass_devices]

Policy == [mode : {"default-allow", "default-deny"}, groups : [GroupNames -> SUBSET Devices],
           rules : Seq(Rules), isolated_devices : SUBSET Devices, bypass_devices : SUBSET Devices]

NoGroups == [g \in GroupNames |-> {}]
Init == policy = [mode |-> "default-deny", groups |-> NoGroups, rules |-> <<>>,
                  isolated_devices |-> {}, bypass_devices |-> {}]

-----------------------------------------------------------------------------
(* load_policy replaces the policy as a whole, isolation included.         *)
LoadPolicy(mode, bypass) ==
    policy' = [mode |-> mode, groups |-> NoGroups, rules |-> <<>>,
               isolated_devices |-> {}, bypass_devices |-> bypass]

AddDeviceToGroup(g, d)      == policy' = [policy EXCEPT !.groups[g] = @ \cup {d}]
RemoveDeviceFromGroup(g, d) == policy' = [policy EXCEPT !.groups[g] = @ \ {d}]
AddRule(rule) == /\ Len(policy.rules) < MaxRules
                 /\ policy' = [policy EXCEPT !.rules = Append(@, rule)]
IsolateDevice(d)   == policy' = [policy EXCEPT !.isolated_devices = @ \cup {d}]
UnisolateDevice(d) == policy' = [policy EXCEPT !.isolated_devices = @ \ {d}]

Next ==
    \/ \E mode \in {"default-allow", "default-deny"}, bypass \in SUBSET Devices : LoadPolicy(mode, bypass)
    \/ \E d \in Devices : \/ IsolateDevice(d) \/ UnisolateDevice(d)
                          \/ \E g \in GroupNames : AddDeviceToGroup(g, d) \/ RemoveDeviceFromGroup(g, d)
    \/ \E rule \in Rules : AddRule(rule)

Spec == Init /\ [][Next]_policy

-----------------------------------------------------------------------------
DeviceInGroup(p, d, name) == name = "any" \/ name = d \/ (name \in GroupNames /\ d \in p.groups[name])

RuleMatches(p, rule, src, dst, service) ==
    /\ DeviceInGroup(p, src, rule.src) /\ DeviceInGroup(p, dst, rule.dst)
    /\ rule.services = {} \/ service \in rule.services

\* Rules are tried by falling priority; the sort is stable.
Before(p, i, j) == \/ p.rules[i].priority > p.rules[j].priority
                   \/ p.rules[i].priority = p.rules[j].priority /\ i < j

\* The rule that decides, if one matches.
First(p, src, dst, service) ==
    LET matching == {i \in DOMAIN p.rules : RuleMatches(p, p.rules[i], src, dst, service)} IN
    {i \in matching : \A j \in matching \ {i} : Before(p, i, j)}

Isolated(p, src, dst) == {src, dst} \cap p.isolated_devices # {}

(* check: bypassed devices, then isolated ones, then the rules.            *)
Check(p, src, dst, service) ==
    \/ {src, dst} \cap p.bypass_devices # {}
    \/ /\ ~Isolated(p, src, dst)
       /\ LET first == First(p, src, dst, service) IN
          IF first = {} THEN p.mode = "default-allow"
          ELSE \E i \in first : p.rules[i].action = "allow"

-----------------------------------------------------------------------------
(* Shapes.                                                                 *)
TypeOK == Constants /\ policy \in Policy /\ Len(policy.rules) <= MaxRules

(* A device that is cut off talks to no one but bypassed devices, in       *)
(* either direction and whatever the rules and their priorities say.       *)
IsolationHolds ==
    \A d \in policy.isolated_devices, e \in Devices, s \in Services :
        {d, e} \cap policy.bypass_devices = {} => ~Check(policy, d, e, s) /\ ~Check(policy, e, d, s)

(* A rule that is added acts in its own direction: one that allows closes  *)
(* no flow, one that denies opens none; and it decides no flow that a      *)
(* rule of higher priority decided before.                                 *)
RulesMonotone ==
    [][LET new == policy'.rules[Len(policy'.rules)] IN
       Len(policy'.rules) > Len(policy.rules) =>
         \A a, b \in Devices, s \in Services :
            LET was == Check(policy, a, b, s)
                is  == Check(policy', a, b, s) IN
            /\ new.action = "allow" /\ was => is
            /\ new.action = "deny" /\ is => was
            /\ was # is => \A i \in First(policy, a, b, s) : policy.rules[i].priority < new.priority]_policy
=============================================================================
