-------------------------- MODULE TunPolicyProofs --------------------------
(***************************************************************************)
(* What TunPolicy guarantees for any priority window, any profiles, DNS    *)
(* servers and routes, any rules of other tools and any number of faults.  *)
(*                                                                         *)
(* Two things make the properties inductive.  A cleanup goes by a listing  *)
(* taken before and deletes by priority, so it must be known that what it  *)
(* has still to delete is in the kernel and in the same order (Deleting).  *)
(* And rules of ours may be there while the core is stopped or the mode is *)
(* another one, as long as a call that is going to notice is on its way    *)
(* (Accounted); the reconciliation keeps that up by checking under the     *)
(* lock what it has checked before it.                                     *)
(***************************************************************************)
EXTENDS TunPolicy, SeqLemmas

-----------------------------------------------------------------------------
(* Lists of rules.                                                         *)

Sorted(list) == \A i, j \in DOMAIN list : i <= j => list[i].prio <= list[j].prio
NoTwice(list) == \A i, j \in DOMAIN list : list[i] = list[j] => i = j
Before(list, x, y) == \E i, j \in DOMAIN list : i < j /\ list[i] = x /\ list[j] = y
OursOf(list) == {r \in ToSet(list) : IsOurs(r)}

LEMMA Prios == PolicyAssumption => \A r \in KernelRules : r.prio \in PrioMin..PrioMax /\ r.prio \in Nat
  BY DEF KernelRules, PolicyAssumption

\* ip rule add keeps the order, and adds one rule.
LEMMA WithRuleIs ==
  ASSUME PolicyAssumption, NEW list \in Seq(KernelRules), Sorted(list), NEW r \in KernelRules
  PROVE  /\ WithRule(list, r) \in Seq(KernelRules) /\ Sorted(WithRule(list, r))
         /\ ToSet(WithRule(list, r)) = ToSet(list) \cup {r}
         /\ r \notin ToSet(list) /\ NoTwice(list) => NoTwice(WithRule(list, r))
         /\ \A x, y : x # r /\ y # r /\ Before(WithRule(list, r), x, y) => Before(list, x, y)
<1> DEFINE M == {i \in 1..Len(list) + 1 : i \in DOMAIN list => list[i].prio > r.prio}
           at == Min(M)
           new == InsertAt(list, at, r)
<1>1. Len(list) \in Nat /\ DOMAIN list = 1..Len(list)
  OBVIOUS
<1>2. Len(list) + 1 \in M /\ M \in SUBSET Nat
  BY <1>1
<1>3. at \in M /\ \A i \in M : at <= i
  BY <1>2, MinOf
<1>4. at \in 1..Len(list) + 1 /\ (at \in DOMAIN list => list[at].prio > r.prio)
  BY <1>3
<1>5. \A i \in DOMAIN list : list[i] \in KernelRules /\ list[i].prio \in Nat
  <2>1. \A i \in DOMAIN list : list[i] \in KernelRules
    BY <1>1
  <2>2. QED
    BY <2>1, Prios
<1>6. r.prio \in Nat
  BY Prios
<1>7. \A i \in DOMAIN list : i < at => list[i].prio <= r.prio
  <2> SUFFICES ASSUME NEW i \in DOMAIN list, i < at PROVE list[i].prio <= r.prio
    OBVIOUS
  <2>1. i \notin M
    BY <1>1, <1>3, <1>4
  <2>2. i \in 1..Len(list) + 1
    BY <1>1
  <2>3. QED
    BY <1>5, <1>6, <2>1, <2>2
<1>8. \A i \in DOMAIN list : at <= i => list[i].prio > r.prio
  <2> SUFFICES ASSUME NEW i \in DOMAIN list, at <= i PROVE list[i].prio > r.prio
    OBVIOUS
  <2>1. at \in DOMAIN list
    BY <1>1, <1>4
  <2>2. list[at].prio <= list[i].prio
    BY <2>1 DEF Sorted
  <2>3. QED
    BY <1>4, <1>5, <1>6, <2>1, <2>2
<1>9. WithRule(list, r) = new
  BY DEF WithRule
<1> HIDE DEF at, M
<1>10. /\ new \in Seq(KernelRules) /\ Len(new) = Len(list) + 1
       /\ \A k \in 1..Len(list) + 1 :
            new[k] = IF k < at THEN list[k] ELSE IF k = at THEN r ELSE list[k - 1]
  <2>1. at \in 1..Len(list) + 1
    BY <1>4
  <2>2. QED
    <3>1. Inserted(KernelRules, list, at, r, InsertAt(list, at, r))
      BY <2>1, InsertIs
    <3>2. QED
      BY <3>1 DEF Inserted
<1> HIDE DEF new
<1> DEFINE old(k) == IF k < at THEN k ELSE k - 1
<1>11. DOMAIN new = 1..Len(list) + 1 /\ at \in Nat
  BY <1>4, <1>10
<1>12. \A k \in DOMAIN new : k # at => old(k) \in DOMAIN list /\ new[k] = list[old(k)]
  BY <1>1, <1>4, <1>10, <1>11
<1>13. \A k \in DOMAIN list : \E m \in DOMAIN new : m # at /\ old(m) = k
  <2> SUFFICES ASSUME NEW k \in DOMAIN list PROVE \E m \in DOMAIN new : m # at /\ old(m) = k
    OBVIOUS
  <2>1. CASE k < at
    BY <1>1, <1>11, <2>1
  <2>2. CASE ~(k < at)
    <3>1. k + 1 \in DOMAIN new /\ k + 1 # at /\ old(k + 1) = k
      BY <1>1, <1>11, <2>2
    <3>2. QED
      BY <3>1
  <2>3. QED
    BY <2>1, <2>2
<1>14. at \in DOMAIN new /\ new[at] = r
  BY <1>4, <1>10, <1>11
<1>15. \A k, m \in DOMAIN new : k # at /\ m # at /\ k < m => old(k) < old(m)
  BY <1>11
<1>16. Sorted(new)
  <2> SUFFICES ASSUME NEW i \in DOMAIN new, NEW j \in DOMAIN new, i <= j
               PROVE  new[i].prio <= new[j].prio
    BY DEF Sorted
  <2>1. CASE i = at /\ j = at
    BY <1>6, <1>14, <2>1
  <2>2. CASE i = at /\ j # at
    <3>1. at <= old(j)
      BY <1>11, <2>2
    <3>2. QED
      BY <1>5, <1>6, <1>8, <1>12, <1>14, <2>2, <3>1
  <2>3. CASE i # at /\ j = at
    <3>1. old(i) < at
      BY <1>11, <2>3
    <3>2. QED
      BY <1>5, <1>6, <1>7, <1>12, <1>14, <2>3, <3>1
  <2>4. CASE i # at /\ j # at
    <3>1. old(i) <= old(j)
      BY <1>11, <2>4
    <3>2. old(i) \in DOMAIN list /\ new[i] = list[old(i)] /\ old(j) \in DOMAIN list /\ new[j] = list[old(j)]
      BY <1>12, <2>4
    <3> HIDE DEF old
    <3>3. QED
      BY <3>1, <3>2 DEF Sorted
  <2>5. QED
    BY <2>1, <2>2, <2>3, <2>4
<1>17. ToSet(new) = ToSet(list) \cup {r}
  <2> HIDE DEF old
  <2>1. \A k \in DOMAIN new : new[k] \in ToSet(list) \cup {r}
    BY <1>12, <1>14 DEF ToSet
  <2>2. \A k \in DOMAIN list : list[k] \in ToSet(new)
    BY <1>12, <1>13 DEF ToSet
  <2>3. r \in ToSet(new)
    BY <1>14 DEF ToSet
  <2>4. QED
    BY <2>1, <2>2, <2>3 DEF ToSet
<1>18. ASSUME r \notin ToSet(list), NoTwice(list) PROVE NoTwice(new)
  <2> SUFFICES ASSUME NEW i \in DOMAIN new, NEW j \in DOMAIN new, new[i] = new[j]
               PROVE  i = j
    BY DEF NoTwice
  <2>1. i # at => new[i] # r
    BY <1>12, <1>18 DEF ToSet
  <2>2. j # at => new[j] # r
    BY <1>12, <1>18 DEF ToSet
  <2>3. CASE i # at /\ j # at
    <3>1. old(i) = old(j)
      BY <1>12, <1>18, <2>3 DEF NoTwice
    <3>2. QED
      BY <1>11, <2>3, <3>1
  <2>4. QED
    BY <1>14, <2>1, <2>2, <2>3
<1>19. ASSUME NEW x, NEW y, x # r, y # r, Before(new, x, y) PROVE Before(list, x, y)
  <2>1. PICK i, j \in DOMAIN new : i < j /\ new[i] = x /\ new[j] = y
    BY <1>19 DEF Before
  <2>2. i # at /\ j # at
    BY <1>14, <1>19, <2>1
  <2>3. old(i) < old(j)
    BY <1>15, <2>1, <2>2
  <2>4. old(i) \in DOMAIN list /\ old(j) \in DOMAIN list /\ list[old(i)] = x /\ list[old(j)] = y
    BY <1>12, <2>1, <2>2
  <2> HIDE DEF old
  <2>5. QED
    BY <2>3, <2>4 DEF Before
<1>20. QED
  BY <1>9, <1>10, <1>16, <1>17, <1>18, <1>19

\* ip rule del takes out the first rule of its priority, and keeps the order.
LEMMA WithoutPrioIs ==
  ASSUME PolicyAssumption, NEW list \in Seq(KernelRules), Sorted(list), NoTwice(list),
         NEW x \in ToSet(list)
  PROVE  LET new == WithoutPrio(list, x.prio)
         IN /\ new \in Seq(KernelRules) /\ Sorted(new) /\ NoTwice(new)
            /\ \E r \in ToSet(list) :
                 /\ r.prio = x.prio /\ ToSet(new) = ToSet(list) \ {r}
                 /\ r = x \/ Before(list, r, x)
            /\ \A y, z : Before(new, y, z) => Before(list, y, z)
<1> DEFINE found == {i \in DOMAIN list : list[i].prio = x.prio}
           at == Min(found)
           new == RemoveAt(list, at)
<1>1. Len(list) \in Nat /\ DOMAIN list = 1..Len(list)
  OBVIOUS
<1>2. PICK h \in DOMAIN list : list[h] = x
  BY DEF ToSet
<1>3. h \in found /\ found \in SUBSET Nat
  BY <1>1, <1>2
<1>4. at \in found /\ \A i \in found : at <= i
  BY <1>3, MinOf
<1>5. at \in 1..Len(list) /\ list[at].prio = x.prio
  BY <1>1, <1>4
<1>6. WithoutPrio(list, x.prio) = new
  BY <1>3 DEF WithoutPrio
<1>7. at <= h
  BY <1>3, <1>4
<1> HIDE DEF at, found
<1>8. /\ new \in Seq(KernelRules) /\ Len(new) = Len(list) - 1
      /\ \A k \in 1..Len(list) - 1 : new[k] = IF k < at THEN list[k] ELSE list[k + 1]
  <2>1. at \in 1..Len(list)
    BY <1>5
  <2>2. QED
    BY <2>1, RemoveIs
<1> HIDE DEF new
<1> DEFINE old(k) == IF k < at THEN k ELSE k + 1
<1>9. DOMAIN new = 1..Len(list) - 1 /\ at \in Nat
  BY <1>1, <1>5, <1>8
<1>10. \A k \in DOMAIN new : old(k) \in DOMAIN list /\ new[k] = list[old(k)] /\ old(k) # at
  BY <1>1, <1>5, <1>8, <1>9
<1>11. \A k, m \in DOMAIN new : (k < m => old(k) < old(m)) /\ (k <= m => old(k) <= old(m))
                                /\ (old(k) = old(m) => k = m)
  BY <1>1, <1>9
<1>12. \A k \in DOMAIN list : k # at => \E m \in DOMAIN new : old(m) = k
  <2> SUFFICES ASSUME NEW k \in DOMAIN list, k # at PROVE \E m \in DOMAIN new : old(m) = k
    OBVIOUS
  <2>1. CASE k < at
    <3>1. k \in DOMAIN new /\ old(k) = k
      BY <1>1, <1>5, <1>9, <2>1
    <3>2. QED
      BY <3>1
  <2>2. CASE ~(k < at)
    <3>1. k - 1 \in DOMAIN new /\ old(k - 1) = k
      BY <1>1, <1>5, <1>9, <2>2
    <3>2. QED
      BY <3>1
  <2>3. QED
    BY <2>1, <2>2
<1> HIDE DEF old
<1>13. Sorted(new)
  BY <1>10, <1>11 DEF Sorted
<1>14. NoTwice(new)
  BY <1>10, <1>11 DEF NoTwice
<1>15. ASSUME NEW y, NEW z, Before(new, y, z) PROVE Before(list, y, z)
  <2>1. PICK i, j \in DOMAIN new : i < j /\ new[i] = y /\ new[j] = z
    BY <1>15 DEF Before
  <2>2. old(i) < old(j) /\ old(i) \in DOMAIN list /\ old(j) \in DOMAIN list
        /\ list[old(i)] = y /\ list[old(j)] = z
    BY <1>10, <1>11, <2>1
  <2>3. QED
    BY <2>2 DEF Before
<1>16. ToSet(new) = ToSet(list) \ {list[at]}
  <2>0. at \in DOMAIN list
    BY <1>1, <1>5
  <2>1. \A k \in DOMAIN new : new[k] \in ToSet(list) /\ new[k] # list[at]
    BY <1>10, <2>0 DEF ToSet, NoTwice
  <2>2. \A k \in DOMAIN list : list[k] # list[at] => list[k] \in ToSet(new)
    BY <1>10, <1>12 DEF ToSet
  <2>3. QED
    BY <2>1, <2>2 DEF ToSet
<1>17. list[at] = x \/ Before(list, list[at], x)
  <2>1. at \in Nat /\ h \in Nat /\ at \in DOMAIN list
    BY <1>1, <1>5
  <2>2. at = h \/ at < h
    BY <1>7, <2>1
  <2>3. QED
    BY <1>2, <2>1, <2>2 DEF Before
<1>18. list[at] \in ToSet(list)
  BY <1>1, <1>5 DEF ToSet
<1>19. QED
  BY <1>5, <1>6, <1>8, <1>13, <1>14, <1>15, <1>16, <1>17, <1>18

\* What a cleanup has still to read of its listing, once it has met the next
\* rule of ours.
LEMMA ListingIs ==
  ASSUME NEW list \in Seq(KernelRules), NoTwice(list), NEW E, E = {k \in DOMAIN list : IsOurs(list[k])},
         E # {}
  PROVE  LET x == list[Min(E)]
             rest == SubSeq(list, Min(E) + 1, Len(list))
         IN /\ x \in OursOf(list) /\ rest \in Seq(KernelRules) /\ NoTwice(rest)
            /\ OursOf(rest) = OursOf(list) \ {x}
            /\ \A y \in OursOf(list) : ~Before(list, y, x)
            /\ \A y, z \in OursOf(rest) : Before(list, y, z) => Before(rest, y, z)
<1> DEFINE first == Min(E)
           rest == SubSeq(list, first + 1, Len(list))
           x == list[first]
<1>1. Len(list) \in Nat /\ DOMAIN list = 1..Len(list)
  OBVIOUS
<1>2. E \in SUBSET Nat
  BY <1>1
<1>3. first \in E /\ \A i \in E : first <= i
  BY <1>2, MinOf
<1>4. first \in 1..Len(list) /\ first \in DOMAIN list /\ IsOurs(x) /\ first \in Nat
  BY <1>1, <1>3
<1> HIDE DEF first
<1>5. /\ rest \in Seq(KernelRules) /\ Len(rest) = Len(list) - first
      /\ \A k \in 1..Len(list) - first : rest[k] = list[k + first]
  <2>1. first + 1 \in 1..Len(list) + 1 /\ Len(list) \in 0..Len(list) /\ first + 1 <= Len(list) + 1
    BY <1>1, <1>4
  <2>2. /\ rest \in Seq(KernelRules) /\ Len(rest) = Len(list) + 1 - (first + 1)
        /\ \A k \in 1..Len(list) + 1 - (first + 1) : rest[k] = list[k + (first + 1) - 1]
    BY <2>1, StretchIs
  <2>3. /\ Len(list) + 1 - (first + 1) = Len(list) - first
        /\ \A k \in 1..Len(list) - first : k + (first + 1) - 1 = k + first
    BY <1>1, <1>4
  <2>4. QED
    BY <2>2, <2>3
<1> HIDE DEF rest
<1>6. DOMAIN rest = 1..Len(list) - first
  BY <1>1, <1>4, <1>5
<1>7. \A k \in DOMAIN rest : k + first \in DOMAIN list /\ k + first > first /\ rest[k] = list[k + first]
  BY <1>1, <1>4, <1>5, <1>6
<1>8. \A k \in DOMAIN list : k > first => k - first \in DOMAIN rest /\ rest[k - first] = list[k]
  <2> SUFFICES ASSUME NEW k \in DOMAIN list, k > first
               PROVE  k - first \in DOMAIN rest /\ rest[k - first] = list[k]
    OBVIOUS
  <2>1. k - first \in 1..Len(list) - first /\ (k - first) + first = k
    BY <1>1, <1>4
  <2>2. QED
    BY <1>5, <1>6, <2>1
<1>9. \A k \in DOMAIN list : IsOurs(list[k]) => first <= k
  BY <1>3
<1>10. NoTwice(rest)
  <2> SUFFICES ASSUME NEW i \in DOMAIN rest, NEW j \in DOMAIN rest, rest[i] = rest[j]
               PROVE  i = j
    BY DEF NoTwice
  <2>1. i + first = j + first
    BY <1>7 DEF NoTwice
  <2>2. QED
    BY <1>4, <1>6, <2>1
<1>11. OursOf(rest) = OursOf(list) \ {x}
  <2>1. \A k \in DOMAIN rest : rest[k] \in ToSet(list) /\ rest[k] # x
    <3> SUFFICES ASSUME NEW k \in DOMAIN rest PROVE rest[k] \in ToSet(list) /\ rest[k] # x
      OBVIOUS
    <3>1. k + first \in DOMAIN list /\ k + first # first /\ rest[k] = list[k + first]
      BY <1>4, <1>7
    <3>2. QED
      BY <1>4, <3>1 DEF ToSet, NoTwice
  <2>2. \A k \in DOMAIN list : IsOurs(list[k]) /\ list[k] # x => list[k] \in ToSet(rest)
    <3> SUFFICES ASSUME NEW k \in DOMAIN list, IsOurs(list[k]), list[k] # x
                 PROVE  list[k] \in ToSet(rest)
      OBVIOUS
    <3>1. k > first
      BY <1>1, <1>4, <1>9
    <3>2. QED
      BY <1>8, <3>1 DEF ToSet
  <2>3. QED
    BY <2>1, <2>2 DEF OursOf, ToSet
<1>12. ASSUME NEW y \in OursOf(list), Before(list, y, x) PROVE FALSE
  <2>1. PICK i, j \in DOMAIN list : i < j /\ list[i] = y /\ list[j] = x
    BY <1>12 DEF Before
  <2>2. j = first
    BY <1>4, <2>1 DEF NoTwice
  <2>3. first <= i
    BY <1>9, <2>1 DEF OursOf
  <2>4. QED
    BY <1>1, <1>4, <2>1, <2>2, <2>3
<1>13. ASSUME NEW y \in OursOf(rest), NEW z \in OursOf(rest), Before(list, y, z)
       PROVE  Before(rest, y, z)
  <2>1. PICK i, j \in DOMAIN list : i < j /\ list[i] = y /\ list[j] = z
    BY <1>13 DEF Before
  <2>2. i # first /\ j # first
    BY <1>11, <2>1
  <2>3. first <= i /\ first <= j
    BY <1>9, <2>1 DEF OursOf
  <2>4. i > first /\ j > first /\ i - first < j - first
    BY <1>1, <1>4, <2>1, <2>2, <2>3
  <2>5. QED
    BY <1>8, <2>1, <2>4 DEF Before
<1>14. x \in OursOf(list)
  BY <1>4 DEF OursOf, ToSet
<1>15. QED
  BY <1>5, <1>10, <1>11, <1>12, <1>13, <1>14 DEF first, rest

\* The targets a build collects; whatever comes after the place of the server
\* and of the DNS servers is a route, and no DNS server.
LEMMA BypassRulesIs ==
  ASSUME PolicyAssumption, NEW p \in Profiles, NEW ok \in BOOLEAN
  PROVE  /\ BypassRules(p, ok) \in Seq(Targets)
         /\ \A k \in DOMAIN BypassRules(p, ok) : k > 1 + Len(Dns) =>
              /\ BypassRules(p, ok)[k] \in ToSet(RouteOrder)
              /\ BypassRules(p, ok)[k] \notin ToSet(Dns)
<1> DEFINE head == <<Server[p]>> \o Dns
           order == <<Server[p]>> \o Dns \o RouteOrder
           wanted == {i \in DOMAIN order :
                       /\ i = 1 => ok
                       /\ i > 1 + Len(Dns) => order[i] \in main}
           E == Firsts(order, wanted)
<1>1. Server[p] \in Targets /\ Dns \in Seq(Targets) /\ RouteOrder \in Seq(Targets)
  <2>1. Server[p] \in Targets /\ ToSet(Dns) \subseteq Targets /\ ToSet(RouteOrder) \subseteq Targets
    BY DEF Targets
  <2>2. Dns \in Seq(ToSet(Dns)) /\ RouteOrder \in Seq(ToSet(RouteOrder))
    BY DEF PolicyAssumption
  <2>3. QED
    BY <2>1, <2>2
<1>2. <<Server[p]>> \in Seq(Targets) /\ Len(<<Server[p]>>) = 1
  BY <1>1
<1>3. head \in Seq(Targets) /\ Len(head) = 1 + Len(Dns)
      /\ \A k \in 1..1 + Len(Dns) : k > 1 => head[k] = Dns[k - 1]
  <2>1. /\ head \in Seq(Targets) /\ Len(head) = 1 + Len(Dns) /\ Len(Dns) \in Nat
        /\ \A k \in 1..1 + Len(Dns) : head[k] = IF k <= 1 THEN <<Server[p]>>[k] ELSE Dns[k - 1]
    <3>1. Joined(Targets, <<Server[p]>>, Dns, head)
      BY <1>1, <1>2, ConcatIs
    <3> HIDE DEF head
    <3>2. QED
      BY <1>2, <3>1 DEF Joined
  <2> HIDE DEF head
  <2>2. QED
    BY <2>1
<1>4. /\ order \in Seq(Targets) /\ Len(order) = 1 + Len(Dns) + Len(RouteOrder)
      /\ Len(Dns) \in Nat /\ Len(RouteOrder) \in Nat
      /\ \A k \in 1..1 + Len(Dns) + Len(RouteOrder) :
           order[k] = IF k <= 1 + Len(Dns) THEN head[k] ELSE RouteOrder[k - (1 + Len(Dns))]
  <2>1. Len(Dns) \in Nat
    BY <1>1
  <2> HIDE DEF head
  <2>2. head \o RouteOrder = order
    BY DEF head
  <2>3. /\ head \o RouteOrder \in Seq(Targets)
        /\ Len(head \o RouteOrder) = Len(head) + Len(RouteOrder)
        /\ Len(RouteOrder) \in Nat
        /\ \A k \in 1..Len(head) + Len(RouteOrder) :
             (head \o RouteOrder)[k] = IF k <= Len(head) THEN head[k] ELSE RouteOrder[k - Len(head)]
    <3>1. head \in Seq(Targets) /\ RouteOrder \in Seq(Targets)
      BY <1>1, <1>3
    <3>2. QED
      BY <3>1, ConcatIs DEF Joined
  <2> HIDE DEF order
  <2>4. QED
    BY <1>3, <2>1, <2>2, <2>3
<1> HIDE DEF head, order
<1>5. DOMAIN order = 1..1 + Len(Dns) + Len(RouteOrder)
  BY <1>4
<1>6. E \subseteq DOMAIN order /\ E \subseteq wanted
  BY DEF Firsts
<1>7. BypassRules(p, ok) = Picked(order, E)
  BY DEF BypassRules, order
<1> HIDE DEF E
<1>8. /\ Picked(order, E) \in Seq(Targets)
      /\ Len(Picked(order, E)) = Cardinality(E) /\ Cardinality(E) \in 0..Len(order)
      /\ \A k \in 1..Cardinality(E) :
           Nth(E, k) \in E /\ k <= Nth(E, k) /\ Picked(order, E)[k] = order[Nth(E, k)]
  BY <1>4, <1>6, PickedIs
<1>9. ASSUME NEW k \in DOMAIN BypassRules(p, ok), k > 1 + Len(Dns)
      PROVE  /\ BypassRules(p, ok)[k] \in ToSet(RouteOrder)
             /\ BypassRules(p, ok)[k] \notin ToSet(Dns)
  <2>1. k \in 1..Cardinality(E) /\ k \in Nat
    BY <1>4, <1>7, <1>8
  <2>2. PICK i \in E : k <= i /\ BypassRules(p, ok)[k] = order[i]
    BY <1>7, <1>8, <2>1
  <2>3. i \in 1..1 + Len(Dns) + Len(RouteOrder) /\ i \in Nat
    BY <1>4, <1>5, <1>6
  <2>4. i > 1 + Len(Dns)
    BY <1>4, <1>9, <2>1, <2>2, <2>3
  <2>5. i - (1 + Len(Dns)) \in 1..Len(RouteOrder)
    BY <1>4, <2>3, <2>4
  <2>6. order[i] = RouteOrder[i - (1 + Len(Dns))]
    BY <1>4, <2>3, <2>4
  <2>7. order[i] \in ToSet(RouteOrder)
    BY <1>1, <2>5, <2>6 DEF ToSet
  <2>8. ASSUME NEW d \in DOMAIN Dns, Dns[d] = order[i] PROVE FALSE
    <3>1. d \in 1..Len(Dns)
      BY <1>1
    <3>2. d + 1 \in 1..1 + Len(Dns) /\ d + 1 > 1 /\ d + 1 - 1 = d
          /\ d + 1 \in 1..1 + Len(Dns) + Len(RouteOrder)
      BY <1>4, <3>1
    <3>3. order[d + 1] = order[i]
      BY <1>3, <1>4, <2>8, <3>2
    <3>4. d + 1 \in wanted
      BY <1>4, <1>5, <3>2
    <3>5. i <= d + 1
      BY <3>3, <3>4 DEF E, Firsts
    <3>6. QED
      BY <1>4, <2>3, <2>4, <3>2, <3>5
  <2>9. QED
    BY <2>2, <2>7, <2>8 DEF ToSet
<1>10. QED
  BY <1>7, <1>8, <1>9

-----------------------------------------------------------------------------
(* The inductive invariant.                                                *)

\* The labels at which a goroutine has coreOpMu.
Common == {"unlock", "failed", "wait", "build", "list", "del",
           "addRoute", "addMark", "addBypass", "addCatch"}
UserUnder == Common \cup {"stop", "exitCheck", "claim", "launch", "linkDel"}
RecUnder == Common \cup {"recCheck", "drift"}

Holding ==
  /\ pc[User] \in UserUnder \cup {"idle", "lock"}
  /\ pc[Rec] \in RecUnder \cup {"idle", "pick", "lock"}
  /\ pc[User] \in UserUnder <=> coreOpMu = User
  /\ pc[Rec] \in RecUnder <=> coreOpMu = Rec

\* Where setupTunPolicyRouting is under way, its cleanup included.
Setup(p) ==
  \/ pc[p] \in {"wait", "build", "failed", "addRoute", "addMark", "addBypass", "addCatch"}
  \/ pc[p] \in {"list", "del"} /\ after = "addRoute"
BeforeLaunch == pc[User] = "launch" \/ (pc[User] \in {"list", "del"} /\ after = "launch")

\* What a call knows of the core and of the config it works with.
Calls ==
  /\ pc[User] # "idle" => op # "none"
  /\ running <=> core # "none"
  /\ pc[User] = "exitCheck" \/ (pc[User] = "lock" /\ op = "exit") \/ BeforeLaunch => ~running
  /\ BeforeLaunch => job.mode = mode
  /\ Setup(User) => running /\ mode = "policy"
  /\ pc[Rec] \in {"list", "del"} => after = "addRoute"

\* A call that waits for coreOpMu will take the rules out when it has it.
Pending == pc[User] = "lock" /\ op \in {"stop", "restart", "off", "exit"}
\* Why there may be rules of ours: they are wanted, or somebody will notice.
Accounted == (running /\ mode = "policy") \/ core = "dead" \/ Pending
RecAccounted == Setup(Rec) \/ pc[Rec] = "drift" => Accounted

Ours == OursOf(rules)
OursAccounted ==
  ~left /\ Ours # {} => Accounted \/ pc[User] \in {"stop", "exitCheck", "list", "del"}

\* In a cleanup: what it has still to delete of ours is in the kernel, in the
\* same order, and unless something went wrong there is nothing else of ours.
Deleting(p) ==
  pc[p] = "del" =>
    /\ NoTwice(dels)
    /\ OursOf(dels) \subseteq Ours
    /\ \A x, y \in OursOf(dels) : Before(rules, x, y) => Before(dels, x, y)
    /\ ~left => Ours \subseteq OursOf(dels)

\* The rules of a build as far as n bypass rules, and with the catch-all.
Upto(list, n) ==
  {Rule(PrioMin, "mark")} \cup {Rule(PrioMin + k, list[k]) : k \in 1..n}
Full(list) ==
  Upto(list, Len(Fitting(list))) \cup {Rule(PrioMin + 1 + Len(Fitting(list)), "catch")}

Building(p) ==
  /\ ~left /\ pc[p] \in {"addRoute", "addMark"} => Ours = {}
  /\ pc[p] = "addMark" => next = 0
  /\ pc[p] \in {"addBypass", "addCatch"} => next <= Len(Fitting(bypass))
  /\ pc[p] = "addCatch" => next = Len(Fitting(bypass))
  /\ ~left /\ pc[p] \in {"addBypass", "addCatch"} => Ours = Upto(bypass, next)

\* Outside of a cleanup a catch-all means that a whole build is in place.
Settled ==
  ~left /\ Has("catch") /\ (\A p \in Proc : pc[p] # "del") => Ours = Full(built)

\* Behind the first entries of a build there are only prefixes of the main table.
InFront(list) ==
  \A k \in DOMAIN list : k > 1 + Len(Dns) => list[k] \in ToSet(RouteOrder) \ ToSet(Dns)

\* The types, and the rules in the order of their priorities.
Typed == TypeOK /\ Sorted(rules)

IndInv ==
  /\ Typed /\ NoTwice(rules) /\ InFront(bypass) /\ InFront(built)
  /\ Holding /\ Calls /\ RecAccounted /\ OursAccounted
  /\ \A p \in Proc : Deleting(p) /\ Building(p)
  /\ Settled

-----------------------------------------------------------------------------
(* Types.                                                                  *)

LEMMA ConstantTypes ==
  ASSUME PolicyAssumption
  PROVE  /\ PrioMin \in Nat /\ PrioMax \in Nat /\ Capacity \in Nat
         /\ PrioMin + 1 + Capacity = PrioMax
         /\ SomeProfile \in Profiles /\ NoJob \in [mode : AllModes, prof : Profiles]
         /\ 0 \in 0..Capacity /\ MaxEvents \in Nat
  BY DEF PolicyAssumption, Capacity, SomeProfile, NoJob, AllModes

LEMMA EventsCounted ==
  ASSUME PolicyAssumption, events \in 0..MaxEvents,
         Fault \/ UNCHANGED events \/ \E ok \in BOOLEAN : Works(ok)
  PROVE  events' \in 0..MaxEvents
  BY DEF PolicyAssumption, Fault, Works

LEMMA InitTyped == PolicyAssumption /\ Init => Typed
<1> SUFFICES ASSUME PolicyAssumption, Init PROVE Typed
  OBVIOUS
<1>1. <<>> \in Seq(Targets) /\ <<>> \in Seq(KernelRules) /\ Sorted(<<>>)
  BY DEF Sorted
<1>2. mode \in AllModes /\ main \subseteq ToSet(RouteOrder)
  BY DEF Init, PolicyAssumption
<1>3. pc \in [Proc -> Labels]
  BY DEF Init, Labels
<1>4. events \in 0..MaxEvents
  BY ConstantTypes DEF Init
<1>5. QED
  BY <1>1, <1>2, <1>3, <1>4, ConstantTypes DEF Init, Typed, TypeOK

\* The steps that only change flags, labels and locals of a simple type.
LEMMA SimpleStepsTyped ==
  ASSUME PolicyAssumption, Typed,
         \/ CoreExit \/ DeviceUp \/ Crash \/ CallExit \/ StopCore \/ ExitCheck \/ Claim
         \/ LinkDel \/ RecTick \/ RecPick \/ RecCheck
         \/ \E r \in Moving : RouteChange(r)
         \/ \E o \in {"start", "stop", "restart"} : Call(o)
         \/ \E p \in Profiles : CallSelect(p)
         \/ \E m \in Modes : CallMode(m)
         \/ \E ok \in BOOLEAN : Launch(ok) \/ Drift(ok)
         \/ \E p \in Proc : Unlock(p) \/ Failed(p) \/ Wait(p)
  PROVE  Typed'
<1> USE DEF Typed, TypeOK, Labels, Goto, Proc, service, files, kernel, work, history
<1>1. CASE CoreExit
  <2>1. events' \in 0..MaxEvents
    BY <1>1, EventsCounted DEF CoreExit
  <2>2. UNCHANGED <<main, mode, prof, picked, job, bypass, built, rules, dels, next, left>>
    BY <1>1 DEF CoreExit
  <2>3. /\ core' \in {"none", "live", "dead"} /\ device' \in {"none", "due", "up"}
        /\ tableRoute' \in BOOLEAN
        /\ UNCHANGED <<coreOpMu, pc, running, starting, degraded, second, op, after>>
    BY <1>1 DEF CoreExit
  <2>4. QED
    BY <2>1, <2>2, <2>3
<1>2. CASE DeviceUp
  BY <1>2 DEF DeviceUp
<1>3. CASE Crash
  <2>1. events' \in 0..MaxEvents
    BY <1>3, EventsCounted DEF Crash
  <2>2. pc' \in [Proc -> Labels]
    BY <1>3 DEF Crash
  <2>3. /\ bypass' \in Seq(Targets) /\ dels' \in Seq(KernelRules)
        /\ job' \in [mode : AllModes, prof : Profiles] /\ picked' \in Profiles /\ next' \in 0..Capacity
    BY <1>3, ConstantTypes DEF Crash, FramesGone
  <2>4. /\ after' \in {"unlock", "linkDel", "launch", "addRoute"} /\ second' \in BOOLEAN
        /\ op' \in {"none", "start", "stop", "restart", "off", "exit"}
    BY <1>3 DEF Crash, FramesGone
  <2>5. QED
    BY <1>3, <2>1, <2>2, <2>3, <2>4 DEF Crash
<1>4. CASE CallExit
  <2>1. /\ UNCHANGED <<coreOpMu, starting, mode, prof, main, rules, tableRoute, device>>
        /\ UNCHANGED <<picked, job, bypass, dels, next, after, second, built, left, events>>
    BY <1>4 DEF CallExit
  <2>2. core' = "none" /\ running' = FALSE /\ degraded' = FALSE /\ op' = "exit"
    BY <1>4 DEF CallExit
  <2>3. pc' \in [Proc -> Labels]
    BY <1>4 DEF CallExit
  <2>4. Sorted(rules)' = Sorted(rules)
    BY <2>1
  <2> QED
    BY <2>1, <2>2, <2>3, <2>4
<1>5. CASE StopCore
  BY <1>5 DEF StopCore
<1>6. CASE ExitCheck
  BY <1>6 DEF ExitCheck
<1>7. CASE Claim
  <2>1. pc' \in [Proc -> Labels]
    BY <1>7 DEF Claim
  <2>2. /\ core' \in {"none", "live", "dead"} /\ running' \in BOOLEAN /\ degraded' \in BOOLEAN
        /\ starting' \in BOOLEAN
        /\ after' \in {"unlock", "linkDel", "launch", "addRoute"}
    BY <1>7 DEF Claim
  <2>4. job' \in [mode : AllModes, prof : Profiles]
    BY <1>7 DEF Claim
  <2> HIDE DEF Labels
  <2>3. QED
    BY <1>7, <2>1, <2>2, <2>4 DEF Claim
<1>8. CASE LinkDel
  <2>1. pc' \in [Proc -> Labels]
    BY <1>8 DEF LinkDel
  <2> HIDE DEF Labels
  <2>2. UNCHANGED <<main, mode, prof, picked, job, bypass, built, rules, dels, next, left>>
    BY <1>8 DEF LinkDel
  <2>3. /\ device' \in {"none", "due", "up"} /\ tableRoute' \in BOOLEAN
        /\ UNCHANGED <<coreOpMu, core, running, starting, degraded, second, op, after, events>>
    BY <1>8 DEF LinkDel
  <2>4. QED
    BY <2>1, <2>2, <2>3
<1>9. CASE RecTick
  BY <1>9 DEF RecTick
<1>10. CASE RecPick
  BY <1>10 DEF RecPick
<1>11. CASE RecCheck
  BY <1>11 DEF RecCheck
<1>12. CASE \E r \in Moving : RouteChange(r)
  BY <1>12, EventsCounted DEF RouteChange, PolicyAssumption
<1>13. CASE \E o \in {"start", "stop", "restart"} : Call(o)
  BY <1>13 DEF Call
<1>14. CASE \E p \in Profiles : CallSelect(p)
  BY <1>14 DEF CallSelect
<1>15. CASE \E m \in Modes : CallMode(m)
  BY <1>15 DEF CallMode, PolicyAssumption
<1>16. CASE \E ok \in BOOLEAN : Launch(ok)
  <2> SUFFICES ASSUME NEW ok \in BOOLEAN, Launch(ok) PROVE Typed'
    BY <1>16
  <2>1. events' \in 0..MaxEvents
    BY EventsCounted DEF Launch
  <2>2. pc' \in [Proc -> Labels]
    BY DEF Launch
  <2> HIDE DEF Labels
  <2>3. UNCHANGED <<main, mode, prof, picked, job, bypass, built, rules, dels, next, left>>
    BY DEF Launch
  <2>4. /\ core' \in {"none", "live", "dead"} /\ running' \in BOOLEAN /\ degraded' \in BOOLEAN
        /\ device' \in {"none", "due", "up"}
        /\ UNCHANGED <<coreOpMu, starting, tableRoute, second, op, after>>
    BY DEF Launch
  <2>5. QED
    BY <2>1, <2>2, <2>3, <2>4
<1>17. CASE \E ok \in BOOLEAN : Drift(ok)
  BY <1>17, EventsCounted DEF Drift
<1>18. CASE \E p \in Proc : Unlock(p)
  <2> SUFFICES ASSUME NEW p \in Proc, Unlock(p) PROVE Typed'
    BY <1>18
  <2>1. pc' \in [Proc -> Labels]
    BY DEF Unlock
  <2>2. op' \in {"none", "start", "stop", "restart", "off", "exit"} /\ starting' \in BOOLEAN
    BY DEF Unlock
  <2>3. /\ bypass' = <<>> /\ dels' = <<>> /\ job' = NoJob /\ next' = 0 /\ after' = "unlock"
        /\ second' = FALSE /\ picked' \in Profiles
    BY ConstantTypes DEF Unlock, FramesGone
  <2>4. <<>> \in Seq(Targets) /\ <<>> \in Seq(KernelRules)
    OBVIOUS
  <2> HIDE DEF Labels
  <2>5. QED
    BY <2>1, <2>2, <2>3, <2>4, ConstantTypes DEF Unlock
<1>19. CASE \E p \in Proc : Failed(p)
  <2> SUFFICES ASSUME NEW p \in Proc, Failed(p) PROVE Typed'
    BY <1>19
  <2>1. pc' \in [Proc -> Labels]
    BY DEF Failed
  <2>2. /\ device' \in {"none", "due", "up"} /\ tableRoute' \in BOOLEAN /\ second' \in BOOLEAN
        /\ degraded' \in BOOLEAN
    BY DEF Failed
  <2> HIDE DEF Labels
  <2>3. QED
    BY <2>1, <2>2 DEF Failed
<1>20. CASE \E p \in Proc : Wait(p)
  BY <1>20 DEF Wait
<1>21. QED
  BY <1>1, <1>2, <1>3, <1>4, <1>5, <1>6, <1>7, <1>8, <1>9, <1>10, <1>11, <1>12, <1>13,
     <1>14, <1>15, <1>16, <1>17, <1>18, <1>19, <1>20

\* A command that adds a rule.
LEMMA AddTyped ==
  ASSUME PolicyAssumption, Typed, NEW p \in Proc, NEW r \in KernelRules, NEW ok \in BOOLEAN,
         NEW then \in Labels, Add(p, r, ok, then)
  PROVE  /\ events' \in 0..MaxEvents /\ pc' \in [Proc -> Labels]
         /\ rules' \in Seq(KernelRules) /\ Sorted(rules')
<1>1. events' \in 0..MaxEvents
  BY EventsCounted DEF Add, Typed, TypeOK
<1>2. pc' \in [Proc -> Labels]
  <2>1. "failed" \in Labels /\ pc \in [Proc -> Labels]
    BY DEF Labels, Typed, TypeOK
  <2>2. QED
    BY <2>1 DEF Add, Goto
<1>3. rules' = rules \/ rules' = WithRule(rules, r)
  BY DEF Add
<1>4. rules \in Seq(KernelRules) /\ Sorted(rules)
  BY DEF Typed, TypeOK
<1>5. QED
  BY <1>1, <1>2, <1>3, <1>4, WithRuleIs

\* A step of the cleanup.  Of the rules of ours in the listing it does away with
\* the next one; in the kernel one rule goes at most, and it has a rule of ours
\* of its priority: it is the one listed, or it stands before that.
LEMMA DeleteIs ==
  ASSUME PolicyAssumption, Typed, NoTwice(rules), NEW p \in Proc, NEW ok \in BOOLEAN,
         Deleting(p), Delete(p, ok)
  PROVE  /\ rules' \in Seq(KernelRules) /\ Sorted(rules') /\ NoTwice(rules')
         /\ dels' \in Seq(KernelRules)
         /\ \A r \in ToSet(rules) \ ToSet(rules') :
              \E x \in Ours : x.prio = r.prio
         /\ ToSet(rules') \subseteq ToSet(rules)
         /\ IF OursOf(dels) = {}
            THEN UNCHANGED <<rules, left>> /\ pc' = [pc EXCEPT ![p] = after]
            ELSE UNCHANGED pc /\ (left => left') /\ Deleting(p)'
<1> DEFINE E == {k \in DOMAIN dels : IsOurs(dels[k])}
           x == dels[Min(E)]
           rest == SubSeq(dels, Min(E) + 1, Len(dels))
<1>1. rules \in Seq(KernelRules) /\ Sorted(rules) /\ dels \in Seq(KernelRules) /\ pc[p] = "del"
      /\ <<>> \in Seq(KernelRules) /\ pc \in [Proc -> Labels]
  BY DEF Typed, TypeOK, Delete
<1>2. /\ NoTwice(dels) /\ OursOf(dels) \subseteq Ours
      /\ \A y, z \in OursOf(dels) : Before(rules, y, z) => Before(dels, y, z)
      /\ ~left => Ours \subseteq OursOf(dels)
  BY <1>1 DEF Deleting
<1>3. {k \in DOMAIN dels : IsManaged(dels[k])} = E
  <2>1. \A k \in DOMAIN dels : dels[k].prio \in PrioMin..PrioMax
    BY <1>1, Prios
  <2>2. QED
    BY <2>1 DEF IsManaged, IsOurs
<1>4. E = {} <=> OursOf(dels) = {}
  BY DEF OursOf, ToSet
<1>5. CASE E = {}
  <2>1. UNCHANGED <<rules, left>> /\ pc' = [pc EXCEPT ![p] = after] /\ dels' = <<>>
    BY <1>3, <1>5 DEF Delete, Goto
  <2>2. QED
    BY <1>1, <1>4, <1>5, <2>1
<1>6. CASE E # {}
  <2>1. /\ rules' = IF ok THEN WithoutPrio(rules, x.prio) ELSE rules
        /\ dels' = rest
        /\ left' = (left \/ ~ok \/ \E i \in DOMAIN rules :
                     rules[i].what = "foreign" /\ ~Contains(rules', rules[i]))
        /\ UNCHANGED pc
    BY <1>3, <1>6 DEF Delete
  <2>2. /\ x \in OursOf(dels) /\ rest \in Seq(KernelRules) /\ NoTwice(rest)
        /\ OursOf(rest) = OursOf(dels) \ {x}
        /\ \A y \in OursOf(dels) : ~Before(dels, y, x)
        /\ \A y, z \in OursOf(rest) : Before(dels, y, z) => Before(rest, y, z)
    BY <1>1, <1>2, <1>6, ListingIs
  <2> HIDE DEF x, rest, E
  <2>3. x \in Ours /\ x \in ToSet(rules)
    BY <1>2, <2>2 DEF Ours, OursOf
  <2>4. CASE ~ok
    <3>1. rules' = rules /\ left' = TRUE /\ dels' = rest /\ Ours' = Ours
      BY <2>1, <2>4 DEF Ours
    <3>2. Deleting(p)'
      BY <1>2, <2>2, <3>1 DEF Deleting
    <3>3. QED
      BY <1>1, <1>4, <1>6, <2>1, <2>2, <3>1, <3>2
  <2>5. CASE ok
    <3> DEFINE new == WithoutPrio(rules, x.prio)
    <3>1. /\ new \in Seq(KernelRules) /\ Sorted(new) /\ NoTwice(new)
          /\ \A y, z : Before(new, y, z) => Before(rules, y, z)
      BY <1>1, <2>3, WithoutPrioIs
    <3>2. PICK r \in ToSet(rules) : /\ r.prio = x.prio /\ ToSet(new) = ToSet(rules) \ {r}
                                    /\ r = x \/ Before(rules, r, x)
      BY <1>1, <2>3, WithoutPrioIs
    <3>3. rules' = new
      BY <2>1, <2>5
    <3> HIDE DEF new
    <3>4. r \notin OursOf(rest)
      <4> SUFFICES ASSUME r \in OursOf(rest) PROVE FALSE
        OBVIOUS
      <4>1. r \in OursOf(dels) /\ r # x
        BY <2>2
      <4>2. Before(rules, r, x)
        BY <3>2, <4>1
      <4>3. Before(dels, r, x)
        BY <1>2, <2>2, <4>1, <4>2
      <4>4. QED
        BY <2>2, <4>1, <4>3
    <3>5. OursOf(new) = Ours \ {r}
      BY <3>2 DEF OursOf, Ours
    <3>6. ASSUME ~left' PROVE OursOf(new) \subseteq OursOf(rest)
      <4>1. ~left /\ ~\E i \in DOMAIN rules : rules[i].what = "foreign" /\ ~Contains(new, rules[i])
        BY <2>1, <3>3, <3>6
      <4>2. PICK i \in DOMAIN rules : rules[i] = r
        BY DEF ToSet
      <4>3. ~Contains(new, r)
        <5>1. DOMAIN new = 1..Len(new)
          BY <3>1
        <5>2. QED
          BY <3>2, <5>1 DEF Contains, ToSet
      <4>4. IsOurs(r)
        BY <4>1, <4>2, <4>3 DEF IsOurs
      <4>5. r \in OursOf(dels)
        BY <1>2, <4>1, <4>4 DEF Ours, OursOf
      <4>6. r = x
        BY <2>2, <3>4, <4>5
      <4>7. QED
        BY <1>2, <2>2, <3>5, <4>1, <4>6
    <3>7. Deleting(p)'
      <4>1. OursOf(rest) \subseteq OursOf(new)
        BY <1>2, <2>2, <3>4, <3>5
      <4>2. \A y, z \in OursOf(rest) : Before(new, y, z) => Before(rest, y, z)
        BY <1>2, <2>2, <3>1
      <4>3. Ours' = OursOf(new) /\ dels' = rest
        BY <2>1, <3>3 DEF Ours
      <4>4. QED
        BY <2>2, <3>3, <3>6, <4>1, <4>2, <4>3 DEF Deleting
    <3>8. QED
      BY <1>1, <1>4, <1>6, <2>1, <2>2, <2>3, <3>1, <3>2, <3>3, <3>7
  <2>6. QED
    BY <2>4, <2>5
<1>7. QED
  BY <1>5, <1>6

\* The steps of a cleanup and of a build.
LEMMA CommandsTyped ==
  ASSUME PolicyAssumption, IndInv,
         \/ \E n \in ForeignPrios : ForeignRule(n)
         \/ \E p \in Proc : Lock(p) \/ \E ok \in BOOLEAN : Command(p, ok)
  PROVE  Typed'
<1> USE DEF Typed, TypeOK, Goto, Proc, service, files, kernel, work, history
<1>0. Typed /\ NoTwice(rules)
  BY DEF IndInv
<1>1. CASE \E n \in ForeignPrios : ForeignRule(n)
  <2> SUFFICES ASSUME NEW n \in ForeignPrios, ForeignRule(n) PROVE Typed'
    BY <1>1
  <2>1. Rule(n, "foreign") \in KernelRules
    BY DEF Rule, KernelRules, PolicyAssumption
  <2>2. rules' \in Seq(KernelRules) /\ Sorted(rules')
    BY <1>0, <2>1, WithRuleIs DEF ForeignRule
  <2>3. events' \in 0..MaxEvents
    BY <1>0, EventsCounted DEF ForeignRule
  <2>4. QED
    BY <1>0, <2>2, <2>3 DEF ForeignRule
<1>2. ASSUME NEW p \in Proc, Lock(p) PROVE Typed'
  <2>1. Entry(p) \in Labels
    <3>1. p = Rec => Entry(p) = "recCheck"
      BY DEF Entry
    <3>2. p # Rec => p = User /\ op \in {"start", "stop", "restart", "off", "exit"}
      BY <1>0, <1>2 DEF IndInv, Calls, Lock
    <3>3. p # Rec => Entry(p) \in {"claim", "stop", "list", "exitCheck"}
      BY <3>2 DEF Entry
    <3>4. QED
      BY <3>1, <3>3 DEF Labels
  <2>2. pc' \in [Proc -> Labels]
    BY <1>0, <1>2, <2>1 DEF Lock
  <2>3. QED
    BY <1>0, <1>2, <2>2 DEF Lock
<1>3. ASSUME NEW p \in Proc, NEW ok \in BOOLEAN, Command(p, ok) PROVE Typed'
  <2>1. CASE Build(p, ok)
    <3>1. events' \in 0..MaxEvents
      BY <1>0, <2>1, EventsCounted DEF Build
    <3>2. pc' \in [Proc -> Labels]
      BY <1>0, <2>1 DEF Build, Labels
    <3>3. BypassRules(job.prof, ok) \in Seq(Targets)
      <4>1. job.prof \in Profiles
        BY <1>0
      <4>2. QED
        BY <4>1, BypassRulesIs
    <3>4. bypass' \in Seq(Targets) /\ after' \in {"unlock", "linkDel", "launch", "addRoute"}
      BY <1>0, <2>1, <3>3 DEF Build
    <3>5. QED
      BY <1>0, <2>1, <3>1, <3>2, <3>4 DEF Build
  <2>2. CASE ListRules(p, ok)
    <3>1. events' \in 0..MaxEvents
      BY <1>0, <2>2, EventsCounted DEF ListRules
    <3>2. pc' \in [Proc -> Labels]
      BY <1>0, <2>2 DEF ListRules, Labels
    <3>3. dels' \in Seq(KernelRules)
      BY <1>0, <2>2 DEF ListRules
    <3>4. QED
      BY <1>0, <2>2, <3>1, <3>2, <3>3 DEF ListRules
  <2>3. CASE Delete(p, ok)
    <3>1. events' \in 0..MaxEvents
      BY <1>0, <2>3, EventsCounted DEF Delete
    <3>2. pc' \in [Proc -> Labels]
      BY <1>0, <2>3 DEF Delete, Labels
    <3>3. rules' \in Seq(KernelRules) /\ Sorted(rules') /\ dels' \in Seq(KernelRules)
      <4>1. Deleting(p)
        BY DEF IndInv
      <4>2. QED
        BY <1>0, <2>3, <4>1, DeleteIs
    <3>4. tableRoute' \in BOOLEAN /\ left' \in BOOLEAN
      BY <1>0, <2>3 DEF Delete
    <3>5. QED
      BY <1>0, <2>3, <3>1, <3>2, <3>3, <3>4 DEF Delete
  <2>4. CASE AddRoute(p, ok)
    <3>1. events' \in 0..MaxEvents
      BY <1>0, <2>4, EventsCounted DEF AddRoute
    <3>2. pc' \in [Proc -> Labels]
      BY <1>0, <2>4 DEF AddRoute, Labels
    <3>3. tableRoute' \in BOOLEAN /\ next' \in 0..Capacity
      BY <1>0, <2>4, ConstantTypes DEF AddRoute
    <3>4. QED
      BY <1>0, <2>4, <3>1, <3>2, <3>3 DEF AddRoute
  <2>5. CASE AddMark(p, ok)
    <3>1. Rule(PrioMin, "mark") \in KernelRules
      BY DEF Rule, KernelRules, PolicyAssumption
    <3>2. /\ events' \in 0..MaxEvents /\ pc' \in [Proc -> Labels]
          /\ rules' \in Seq(KernelRules) /\ Sorted(rules')
      <4>1. Add(p, Rule(PrioMin, "mark"), ok, "addBypass")
        BY <2>5 DEF AddMark
      <4>2. "addBypass" \in Labels /\ Typed /\ ok \in BOOLEAN
        BY <1>0 DEF Labels
      <4> HIDE DEF Typed, TypeOK
      <4>3. QED
        BY <3>1, <4>1, <4>2, AddTyped
    <3>3. QED
      BY <1>0, <2>5, <3>2 DEF AddMark
  <2>6. CASE AddBypass(p, ok)
    <3>1. CASE next < Len(bypass) /\ PrioMin + 1 + next < PrioMax
      <4> DEFINE r == Rule(PrioMin + 1 + next, bypass[next + 1])
      <4>1. next \in Nat /\ next + 1 \in DOMAIN bypass /\ next + 1 \in 0..Capacity
        <5>1. next \in 0..Capacity /\ Len(bypass) \in Nat /\ DOMAIN bypass = 1..Len(bypass)
          BY <1>0
        <5>2. PrioMin \in Nat /\ Capacity \in Nat /\ PrioMin + 1 + Capacity = PrioMax
          BY ConstantTypes, Zenon
        <5>3. QED
          BY <3>1, <5>1, <5>2
      <4>2. bypass[next + 1] \in Targets
        BY <1>0, <4>1
      <4>3. PrioMin + 1 + next \in PrioMin..PrioMax
        BY <3>1, <4>1, ConstantTypes
      <4>4. r \in KernelRules
        BY <4>2, <4>3 DEF Rule, KernelRules
      <4>5. Add(p, r, ok, "addBypass") /\ next' = next + 1
        BY <2>6, <3>1 DEF AddBypass
      <4> HIDE DEF r
      <4>6. /\ events' \in 0..MaxEvents /\ pc' \in [Proc -> Labels]
            /\ rules' \in Seq(KernelRules) /\ Sorted(rules')
        <5>1. "addBypass" \in Labels /\ Typed /\ ok \in BOOLEAN
          BY <1>0 DEF Labels
        <5> HIDE DEF Typed, TypeOK
        <5>2. QED
          BY <4>4, <4>5, <5>1, AddTyped
      <4>7. QED
        BY <1>0, <2>6, <4>1, <4>5, <4>6 DEF AddBypass
    <3>2. CASE ~(next < Len(bypass) /\ PrioMin + 1 + next < PrioMax)
      <4>1. pc' \in [Proc -> Labels] /\ UNCHANGED <<rules, next, events>>
        BY <1>0, <2>6, <3>2 DEF AddBypass, Labels
      <4>2. QED
        BY <1>0, <2>6, <4>1 DEF AddBypass
    <3>3. QED
      BY <3>1, <3>2
  <2>7. CASE AddCatch(p, ok)
    <3> DEFINE r == Rule(PrioMin + 1 + next, "catch")
    <3>1. PrioMin + 1 + next \in PrioMin..PrioMax
      BY <1>0, ConstantTypes
    <3>2. r \in KernelRules
      BY <3>1 DEF Rule, KernelRules
    <3>3. Add(p, r, ok, "unlock")
      BY <2>7 DEF AddCatch
    <3> HIDE DEF r
    <3>4. /\ events' \in 0..MaxEvents /\ pc' \in [Proc -> Labels]
          /\ rules' \in Seq(KernelRules) /\ Sorted(rules')
      <4>1. "unlock" \in Labels /\ Typed /\ ok \in BOOLEAN
        BY <1>0 DEF Labels
      <4> HIDE DEF Typed, TypeOK
      <4>2. QED
        BY <3>2, <3>3, <4>1, AddTyped
    <3>5. built' \in Seq(Targets)
      BY <1>0, <2>7 DEF AddCatch
    <3>6. QED
      BY <1>0, <2>7, <3>4, <3>5 DEF AddCatch
  <2>8. QED
    BY <1>3, <2>1, <2>2, <2>3, <2>4, <2>5, <2>6, <2>7 DEF Command
<1>4. QED
  BY <1>1, <1>2, <1>3

-----------------------------------------------------------------------------
(* Who has coreOpMu, and what it knows.                                    *)

LEMMA HoldingKept ==
  ASSUME PolicyAssumption, IndInv, Next
  PROVE  Holding'
<1>1. /\ pc \in [Proc -> Labels] /\ Proc = {User, Rec} /\ User # Rec
      /\ NoProc # User /\ NoProc # Rec /\ Holding
      /\ pc[User] # "idle" => op \in {"start", "stop", "restart", "off", "exit"}
      /\ after \in {"unlock", "linkDel", "launch", "addRoute"}
      /\ pc[Rec] \in {"list", "del"} => after = "addRoute"
  BY DEF IndInv, Typed, TypeOK, Calls, PolicyAssumption, Proc
<1> USE <1>1 DEF Holding, UserUnder, RecUnder, Common, Goto
<1>2. CASE Environment \/ DeviceUp
  BY <1>2 DEF Environment, CoreExit, Crash, RouteChange, ForeignRule, DeviceUp
<1>3. CASE Arrive
  BY <1>3 DEF Arrive, Call, CallExit, CallSelect, CallMode
<1>4. CASE RecTick
  BY <1>4 DEF RecTick
<1>5. CASE UserStep
  <2>1. CASE StopCore
    BY <2>1 DEF StopCore
  <2>2. CASE ExitCheck
    BY <2>2 DEF ExitCheck
  <2>3. CASE Claim
    BY <2>3 DEF Claim
  <2>4. CASE LinkDel
    BY <2>4 DEF LinkDel
  <2>5. CASE \E ok \in BOOLEAN : Launch(ok)
    BY <2>5 DEF Launch
  <2>6. QED
    BY <1>5, <2>1, <2>2, <2>3, <2>4, <2>5 DEF UserStep
<1>6. CASE RecStep
  BY <1>6 DEF RecStep, RecPick, RecCheck, Drift
<1>7. ASSUME NEW p \in Proc, Step(p) PROVE Holding'
  <2>1. CASE Unlock(p)
    BY <2>1 DEF Unlock
  <2>2. CASE Failed(p)
    BY <2>2 DEF Failed
  <2>3. CASE Wait(p)
    BY <2>3 DEF Wait
  <2>4. ASSUME NEW ok \in BOOLEAN, Command(p, ok) PROVE Holding'
    <3>1. CASE Build(p, ok)
      BY <3>1 DEF Build
    <3>2. CASE ListRules(p, ok)
      BY <3>2 DEF ListRules
    <3>3. CASE Delete(p, ok)
      BY <3>3 DEF Delete
    <3>4. CASE AddRoute(p, ok)
      BY <3>4 DEF AddRoute
    <3>5. CASE AddMark(p, ok)
      BY <3>5 DEF AddMark, Add
    <3>6. CASE AddBypass(p, ok)
      BY <3>6 DEF AddBypass, Add
    <3>7. CASE AddCatch(p, ok)
      BY <3>7 DEF AddCatch, Add
    <3>8. QED
      BY <2>4, <3>1, <3>2, <3>3, <3>4, <3>5, <3>6, <3>7 DEF Command
  <2>5. QED
    BY <1>7, <2>1, <2>2, <2>3, <2>4 DEF Step
<1>8. ASSUME NEW p \in Proc, Lock(p) PROVE Holding'
  BY <1>8 DEF Lock, Entry
<1>9. QED
  BY <1>2, <1>3, <1>4, <1>5, <1>6, <1>7, <1>8 DEF Next

LEMMA CallsKept ==
  ASSUME PolicyAssumption, IndInv, Next
  PROVE  Calls' /\ RecAccounted'
<1>1. /\ pc \in [Proc -> Labels] /\ Proc = {User, Rec} /\ User # Rec
      /\ NoProc # User /\ NoProc # Rec /\ Holding /\ Calls /\ RecAccounted
      /\ core \in {"none", "live", "dead"}
      /\ op \in {"none", "start", "stop", "restart", "off", "exit"}
      /\ after \in {"unlock", "linkDel", "launch", "addRoute"}
  BY DEF IndInv, Typed, TypeOK, PolicyAssumption, Proc
<1> USE <1>1 DEF Holding, UserUnder, RecUnder, Common, Goto, Calls, Setup, BeforeLaunch,
         RecAccounted, Accounted, Pending, service, files, work
<1>2. CASE Environment \/ DeviceUp
  <2>1. CASE CoreExit
    BY <2>1 DEF CoreExit
  <2>2. CASE Crash
    BY <2>2 DEF Crash
  <2>3. CASE DeviceUp \/ (\E r \in Moving : RouteChange(r)) \/ (\E n \in ForeignPrios : ForeignRule(n))
    BY <2>3 DEF RouteChange, ForeignRule, DeviceUp
  <2>4. QED
    BY <1>2, <2>1, <2>2, <2>3 DEF Environment
<1>3. CASE Arrive
  <2>1. CASE \E o \in {"start", "stop", "restart"} : Call(o)
    BY <2>1 DEF Call
  <2>2. CASE CallExit
    BY <2>2 DEF CallExit
  <2>3. CASE \E p \in Profiles : CallSelect(p)
    BY <2>3 DEF CallSelect
  <2>4. CASE \E m \in Modes : CallMode(m)
    BY <2>4 DEF CallMode
  <2>5. QED
    BY <1>3, <2>1, <2>2, <2>3, <2>4 DEF Arrive
<1>4. CASE RecTick
  BY <1>4 DEF RecTick
<1>5. CASE UserStep
  <2>1. CASE StopCore
    BY <2>1 DEF StopCore
  <2>2. CASE ExitCheck
    BY <2>2 DEF ExitCheck
  <2>3. CASE Claim
    BY <2>3 DEF Claim
  <2>4. CASE LinkDel
    BY <2>4 DEF LinkDel
  <2>5. CASE \E ok \in BOOLEAN : Launch(ok)
    BY <2>5 DEF Launch
  <2>6. QED
    BY <1>5, <2>1, <2>2, <2>3, <2>4, <2>5 DEF UserStep
<1>6. CASE RecStep
  BY <1>6 DEF RecStep, RecPick, RecCheck, Drift
<1>7. ASSUME NEW p \in Proc, Step(p) PROVE Calls' /\ RecAccounted'
  <2>1. CASE Unlock(p)
    BY <2>1 DEF Unlock, FramesGone
  <2>2. CASE Failed(p)
    BY <2>2 DEF Failed
  <2>3. CASE Wait(p)
    BY <2>3 DEF Wait
  <2>4. ASSUME NEW ok \in BOOLEAN, Command(p, ok) PROVE Calls' /\ RecAccounted'
    <3>1. CASE Build(p, ok)
      BY <3>1 DEF Build
    <3>2. CASE ListRules(p, ok)
      BY <3>2 DEF ListRules
    <3>3. CASE Delete(p, ok)
      BY <3>3 DEF Delete
    <3>4. CASE AddRoute(p, ok)
      BY <3>4 DEF AddRoute
    <3>5. CASE AddMark(p, ok)
      BY <3>5 DEF AddMark, Add
    <3>6. CASE AddBypass(p, ok)
      BY <3>6 DEF AddBypass, Add
    <3>7. CASE AddCatch(p, ok)
      BY <3>7 DEF AddCatch, Add
    <3>8. QED
      BY <2>4, <3>1, <3>2, <3>3, <3>4, <3>5, <3>6, <3>7 DEF Command
  <2>5. QED
    BY <1>7, <2>1, <2>2, <2>3, <2>4 DEF Step
<1>8. ASSUME NEW p \in Proc, Lock(p) PROVE Calls' /\ RecAccounted'
  BY <1>8 DEF Lock, Entry
<1>9. QED
  BY <1>2, <1>3, <1>4, <1>5, <1>6, <1>7, <1>8 DEF Next

-----------------------------------------------------------------------------
(* What happens to the rules of ours.                                      *)

LEMMA FittingIs ==
  ASSUME PolicyAssumption, NEW list \in Seq(Targets)
  PROVE  /\ Len(Fitting(list)) = IF Len(list) < Capacity THEN Len(list) ELSE Capacity
         /\ Len(Fitting(list)) \in Nat /\ Len(Fitting(list)) <= Len(list)
         /\ \A k \in 1..Len(Fitting(list)) : Fitting(list)[k] = list[k]
         /\ DOMAIN Fitting(list) = 1..Len(Fitting(list))
         /\ \A n \in Nat : n < Len(Fitting(list)) <=> n < Len(list) /\ PrioMin + 1 + n < PrioMax
<1> DEFINE n == IF Len(list) < Capacity THEN Len(list) ELSE Capacity
<1>1. Len(list) \in Nat /\ Capacity \in Nat /\ n \in 0..Len(list) /\ 1 \in 1..Len(list) + 1
  BY ConstantTypes
<1>2. /\ SubSeq(list, 1, n) \in Seq(Targets) /\ Len(SubSeq(list, 1, n)) = n + 1 - 1
      /\ \A k \in 1..n + 1 - 1 : SubSeq(list, 1, n)[k] = list[k + 1 - 1]
  <2>1. 1 <= n + 1
    BY <1>1
  <2>2. QED
    BY <1>1, <2>1, StretchIs
<1>3. n + 1 - 1 = n /\ \A k \in 1..n : k + 1 - 1 = k
  BY <1>1
<1>4. Fitting(list) \in Seq(Targets) /\ Len(Fitting(list)) = n
      /\ \A k \in 1..n : Fitting(list)[k] = list[k]
  BY <1>2, <1>3 DEF Fitting
<1>5. ASSUME NEW m \in Nat
      PROVE  m < n <=> m < Len(list) /\ PrioMin + 1 + m < PrioMax
  BY <1>1, ConstantTypes
<1> HIDE DEF n
<1>6. DOMAIN Fitting(list) = 1..n
  BY <1>4
<1>7. QED
  BY <1>1, <1>4, <1>5, <1>6 DEF n

LEMMA UptoIs ==
  ASSUME PolicyAssumption, NEW list \in Seq(Targets)
  PROVE  /\ Upto(list, 0) = {Rule(PrioMin, "mark")}
         /\ \A n \in 0..Len(list) : \A r \in Upto(list, n) : r.what # "catch"
         /\ \A n \in Nat : Upto(list, n + 1) =
              Upto(list, n) \cup {Rule(PrioMin + 1 + n, list[n + 1])}
<1>1. Upto(list, 0) = {Rule(PrioMin, "mark")}
  BY DEF Upto
<1>2. ASSUME NEW n \in 0..Len(list), NEW r \in Upto(list, n) PROVE r.what # "catch"
  <2>1. \A k \in 1..n : list[k] \in Targets
    OBVIOUS
  <2>2. \A k \in 1..n : list[k] # "catch"
    BY <2>1 DEF PolicyAssumption
  <2>3. QED
    BY <1>2, <2>2 DEF Upto, Rule
<1>3. ASSUME NEW n \in Nat
      PROVE  Upto(list, n + 1) = Upto(list, n) \cup {Rule(PrioMin + 1 + n, list[n + 1])}
  <2>1. 1..n + 1 = (1..n) \cup {n + 1}
    OBVIOUS
  <2>2. PrioMin + (n + 1) = PrioMin + 1 + n
    BY ConstantTypes
  <2>3. {Rule(PrioMin + k, list[k]) : k \in 1..n + 1} =
          {Rule(PrioMin + k, list[k]) : k \in 1..n} \cup {Rule(PrioMin + 1 + n, list[n + 1])}
    BY <2>1, <2>2
  <2>4. QED
    BY <2>3 DEF Upto
<1>4. QED
  BY <1>1, <1>2, <1>3

LEMMA HasCatch ==
  Has("catch") <=> \E r \in Ours : r.what = "catch"
  BY DEF Has, Ours, OursOf, ToSet, IsOurs

\* A command that adds a rule of ours does, or the build fails.
LEMMA AddIs ==
  ASSUME PolicyAssumption, Typed, NoTwice(rules), NEW p \in Proc, NEW r \in KernelRules, IsOurs(r),
         NEW ok \in BOOLEAN, NEW then, Add(p, r, ok, then)
  PROVE  /\ NoTwice(rules')
         /\ \/ rules' = rules /\ pc' = [pc EXCEPT ![p] = "failed"]
            \/ Ours' = Ours \cup {r} /\ pc' = [pc EXCEPT ![p] = then]
         /\ ToSet(rules) \subseteq ToSet(rules')
<1>1. rules \in Seq(KernelRules) /\ Sorted(rules)
  BY DEF Typed, TypeOK
<1>2. CASE rules' = rules /\ pc' = [pc EXCEPT ![p] = "failed"]
  BY <1>2
<1>3. CASE /\ ~\E i \in DOMAIN rules : rules[i] = r
           /\ rules' = WithRule(rules, r) /\ pc' = [pc EXCEPT ![p] = then]
  <2>1. r \notin ToSet(rules)
    BY <1>3 DEF ToSet
  <2>2. ToSet(rules') = ToSet(rules) \cup {r} /\ NoTwice(rules')
    BY <1>1, <1>3, <2>1, WithRuleIs
  <2>3. QED
    BY <1>3, <2>2 DEF Ours, OursOf
<1>4. QED
  BY <1>2, <1>3 DEF Add, Goto

LEMMA ForeignIs ==
  ASSUME PolicyAssumption, Typed, NoTwice(rules), NEW n \in ForeignPrios, ForeignRule(n)
  PROVE  /\ NoTwice(rules') /\ Ours' = Ours /\ ToSet(rules) \subseteq ToSet(rules')
         /\ \A x, y \in Ours : Before(rules', x, y) => Before(rules, x, y)
<1> DEFINE r == Rule(n, "foreign")
<1>1. rules \in Seq(KernelRules) /\ Sorted(rules)
  BY DEF Typed, TypeOK
<1>2. r \in KernelRules /\ ~IsOurs(r)
  BY DEF Rule, KernelRules, PolicyAssumption, IsOurs
<1>3. r \notin ToSet(rules) /\ rules' = WithRule(rules, r)
  BY DEF ForeignRule, ToSet
<1> HIDE DEF r
<1>4. ToSet(rules') = ToSet(rules) \cup {r} /\ NoTwice(rules')
  BY <1>1, <1>2, <1>3, WithRuleIs
<1>5. \A x, y : x # r /\ y # r /\ Before(rules', x, y) => Before(rules, x, y)
  BY <1>1, <1>2, <1>3, WithRuleIs
<1>6. \A x \in Ours : x # r
  BY <1>2 DEF Ours, OursOf
<1>7. QED
  BY <1>2, <1>4, <1>5, <1>6 DEF Ours, OursOf

\* The steps that leave the rules alone, and every cleanup and build where it is.
Working == {"del", "addRoute", "addMark", "addBypass", "addCatch"}
Quiet ==
  /\ UNCHANGED <<rules, left, built>>
  /\ \A p \in Proc : pc'[p] \in Working => pc[p] = pc'[p] /\ UNCHANGED <<dels, bypass, next>>
  /\ \A p \in Proc : pc[p] = "del" => pc'[p] = "del"

RuleStep(p, ok) ==
  \/ ListRules(p, ok) \/ Delete(p, ok) \/ AddRoute(p, ok) \/ AddMark(p, ok)
  \/ AddBypass(p, ok) \/ AddCatch(p, ok)

LEMMA Steps ==
  ASSUME PolicyAssumption, IndInv, Next
  PROVE  \/ Quiet \/ Crash \/ \E n \in ForeignPrios : ForeignRule(n)
         \/ \E p \in Proc, ok \in BOOLEAN : RuleStep(p, ok)
<1>1. /\ pc \in [Proc -> Labels] /\ Proc = {User, Rec} /\ User # Rec
      /\ NoProc # User /\ NoProc # Rec /\ Holding
      /\ pc[User] # "idle" => op \in {"start", "stop", "restart", "off", "exit"}
  BY DEF IndInv, Typed, TypeOK, Calls, PolicyAssumption, Proc
<1> USE <1>1 DEF Holding, UserUnder, RecUnder, Common, Goto, Quiet, Working, history, kernel, work
<1>2. CASE Environment \/ DeviceUp
  BY <1>2 DEF Environment, CoreExit, RouteChange, DeviceUp
<1>3. CASE Arrive
  BY <1>3 DEF Arrive, Call, CallExit, CallSelect, CallMode
<1>4. CASE RecTick
  BY <1>4 DEF RecTick
<1>5. CASE UserStep
  <2>1. CASE StopCore
    BY <2>1 DEF StopCore
  <2>2. CASE ExitCheck
    BY <2>2 DEF ExitCheck
  <2>3. CASE Claim
    BY <2>3 DEF Claim
  <2>4. CASE LinkDel
    BY <2>4 DEF LinkDel
  <2>5. CASE \E ok \in BOOLEAN : Launch(ok)
    BY <2>5 DEF Launch
  <2>6. QED
    BY <1>5, <2>1, <2>2, <2>3, <2>4, <2>5 DEF UserStep
<1>6. CASE RecStep
  <2>1. CASE RecPick
    BY <2>1 DEF RecPick
  <2>2. CASE RecCheck
    BY <2>2 DEF RecCheck
  <2>3. CASE \E ok \in BOOLEAN : Drift(ok)
    BY <2>3 DEF Drift
  <2>4. QED
    BY <1>6, <2>1, <2>2, <2>3 DEF RecStep
<1>7. ASSUME NEW p \in Proc, Step(p)
      PROVE  Quiet \/ \E ok \in BOOLEAN : RuleStep(p, ok)
  <2>1. CASE Unlock(p)
    BY <2>1 DEF Unlock, FramesGone
  <2>2. CASE Failed(p)
    BY <2>2 DEF Failed
  <2>3. CASE Wait(p)
    BY <2>3 DEF Wait
  <2>4. ASSUME NEW ok \in BOOLEAN, Build(p, ok) PROVE Quiet
    BY <2>4 DEF Build
  <2>5. QED
    BY <1>7, <2>1, <2>2, <2>3, <2>4 DEF Step, Command, RuleStep
<1>8. ASSUME NEW p \in Proc, Lock(p) PROVE Quiet
  BY <1>8 DEF Lock, Entry
<1>9. QED
  BY <1>2, <1>3, <1>4, <1>5, <1>6, <1>7, <1>8 DEF Next

\* While one goroutine is at work the other one is not.
LEMMA OneAtWork ==
  ASSUME PolicyAssumption, Holding, NEW p \in Proc, NEW q \in Proc, pc[p] \in Common, q # p
  PROVE  pc[q] \notin Common
  BY DEF PolicyAssumption, Holding, UserUnder, RecUnder, Proc

LEMMA RulesKept ==
  ASSUME PolicyAssumption, IndInv, Next
  PROVE  NoTwice(rules)' /\ (\A q \in Proc : Deleting(q)' /\ Building(q)') /\ Settled'
<1>1. /\ Typed /\ NoTwice(rules) /\ Holding /\ Calls /\ Settled
      /\ \A q \in Proc : Deleting(q) /\ Building(q)
      /\ pc \in [Proc -> Labels] /\ bypass \in Seq(Targets) /\ next \in 0..Capacity
      /\ rules \in Seq(KernelRules)
  BY DEF IndInv, Typed, TypeOK
<1>2. CASE Quiet
  <2>1. Ours' = Ours /\ Has("catch")' = Has("catch")
    BY <1>2 DEF Quiet, Ours, Has
  <2>2. ASSUME NEW q \in Proc PROVE Deleting(q)' /\ Building(q)'
    <3>1. CASE pc'[q] \notin Working
      BY <3>1 DEF Working, Deleting, Building
    <3>2. CASE pc'[q] \in Working
      <4>1. pc'[q] = pc[q] /\ UNCHANGED <<dels, bypass, next, rules, left>>
        BY <1>2, <3>2 DEF Quiet
      <4>2. Deleting(q) /\ Building(q)
        BY <1>1
      <4>3. Deleting(q)'
        BY <2>1, <4>1, <4>2 DEF Deleting
      <4>4. Building(q)'
        BY <2>1, <4>1, <4>2 DEF Building
      <4>5. QED
        BY <4>3, <4>4
    <3>3. QED
      BY <3>1, <3>2
  <2>3. Settled'
    BY <1>1, <1>2, <2>1 DEF Settled, Quiet
  <2>4. QED
    BY <1>1, <1>2, <2>2, <2>3 DEF Quiet
<1>3. CASE Crash
  <2>1. left' = TRUE /\ rules' = rules /\ \A q \in Proc : pc'[q] = "idle"
    BY <1>3 DEF Crash
  <2>2. QED
    BY <1>1, <2>1 DEF Deleting, Building, Settled
<1>4. ASSUME NEW n \in ForeignPrios, ForeignRule(n)
      PROVE  NoTwice(rules)' /\ (\A q \in Proc : Deleting(q)' /\ Building(q)') /\ Settled'
  <2>1. /\ NoTwice(rules') /\ Ours' = Ours
        /\ \A x, y \in Ours : Before(rules', x, y) => Before(rules, x, y)
    BY <1>1, <1>4, ForeignIs
  <2>2. UNCHANGED <<pc, dels, bypass, next, left, built>>
    BY <1>4 DEF ForeignRule, work, history
  <2>3. ASSUME NEW q \in Proc PROVE Deleting(q)' /\ Building(q)'
    <3>1. Deleting(q) /\ Building(q)
      BY <1>1
    <3>2. Deleting(q)'
      BY <2>1, <2>2, <3>1 DEF Deleting
    <3>3. Building(q)'
      BY <2>1, <2>2, <3>1 DEF Building
    <3>4. QED
      BY <3>2, <3>3
  <2>4. Has("catch")' <=> Has("catch")
    <3>1. Has("catch")' <=> \E r \in Ours' : r.what = "catch"
      BY DEF Has, Ours, OursOf, ToSet, IsOurs
    <3>2. QED
      BY <2>1, <3>1, HasCatch
  <2>5. Settled'
    BY <1>1, <2>1, <2>2, <2>4 DEF Settled
  <2>6. QED
    BY <2>1, <2>3, <2>5
<1>5. ASSUME NEW p \in Proc, NEW ok \in BOOLEAN, RuleStep(p, ok)
      PROVE  NoTwice(rules)' /\ (\A q \in Proc : Deleting(q)' /\ Building(q)') /\ Settled'
  <2>1. pc[p] \in Common /\ pc[p] \in Working \cup {"list"}
    BY <1>5 DEF RuleStep, ListRules, Delete, AddRoute, AddMark, AddBypass, AddCatch, Common, Working
  <2>2. \A q \in Proc : q # p => pc'[q] = pc[q] /\ pc[q] \notin Common
    <3>1. \A q \in Proc : q # p => pc'[q] = pc[q]
      BY <1>1, <1>5 DEF RuleStep, ListRules, Delete, AddRoute, AddMark, AddBypass, AddCatch, Add, Goto
    <3>2. QED
      BY <1>1, <2>1, <3>1, OneAtWork
  <2>3. ASSUME NEW q \in Proc, q # p PROVE Deleting(q)' /\ Building(q)'
    BY <2>2, <2>3 DEF Deleting, Building, Common
  <2>4. Deleting(p) /\ Building(p)
    BY <1>1
  <2>5. pc[p] # "del" => \A q \in Proc : pc[q] # "del"
    BY <2>2 DEF Common
  <2>6. Has("catch")' <=> \E r \in Ours' : r.what = "catch"
    BY DEF Has, Ours, OursOf, ToSet, IsOurs
  <2>7. PrioMin \in Nat /\ next \in Nat
    BY <1>1, ConstantTypes
  <2> SUFFICES NoTwice(rules') /\ Deleting(p)' /\ Building(p)' /\ Settled'
    BY <2>3
  <2>8. CASE ListRules(p, ok)
    <3>1. pc' = [pc EXCEPT ![p] = "del"] /\ rules' = rules /\ left' = ~ok
          /\ dels' = IF ok THEN rules ELSE <<>>
      BY <2>8 DEF ListRules, Goto, kernel
    <3>2. pc'[p] = "del"
      BY <1>1, <3>1
    <3>3. Ours' = Ours
      BY <3>1 DEF Ours
    <3>4. OursOf(<<>>) = {} /\ NoTwice(<<>>)
      BY DEF OursOf, ToSet, NoTwice
    <3>5. CASE ok
      BY <1>1, <3>1, <3>2, <3>3, <3>5 DEF Deleting, Building, Settled, Ours
    <3>6. CASE ~ok
      BY <1>1, <3>1, <3>2, <3>3, <3>4, <3>6 DEF Deleting, Building, Settled
    <3>7. QED
      BY <3>5, <3>6
  <2>9. CASE Delete(p, ok)
    <3>1. NoTwice(rules')
      BY <1>1, <2>4, <2>9, DeleteIs
    <3>2. CASE OursOf(dels) # {}
      <4>1. UNCHANGED pc /\ Deleting(p)'
        BY <1>1, <2>4, <2>9, <3>2, DeleteIs
      <4>2. pc'[p] = "del"
        BY <2>9, <4>1 DEF Delete
      <4>3. QED
        BY <3>1, <4>1, <4>2 DEF Building, Settled
    <3>3. CASE OursOf(dels) = {}
      <4>1. UNCHANGED <<rules, left>> /\ pc' = [pc EXCEPT ![p] = after]
        BY <1>1, <2>4, <2>9, <3>3, DeleteIs
      <4>2. pc'[p] \in {"unlock", "linkDel", "launch", "addRoute"}
        BY <1>1, <4>1 DEF Typed, TypeOK
      <4>3. ~left' => Ours' = {}
        BY <2>4, <2>9, <3>3, <4>1 DEF Deleting, Delete, Ours
      <4>4. Settled'
        BY <2>6, <4>3 DEF Settled
      <4>5. QED
        BY <3>1, <4>2, <4>3, <4>4 DEF Building, Deleting
    <3>4. QED
      BY <3>2, <3>3
  <2>10. CASE AddRoute(p, ok)
    <3>1. UNCHANGED <<rules, left, built, bypass>> /\ next' = 0
          /\ pc' \in {[pc EXCEPT ![p] = "failed"], [pc EXCEPT ![p] = "addMark"]}
          /\ pc[p] = "addRoute"
      BY <2>10 DEF AddRoute, Goto, history
    <3>2. pc'[p] \in {"failed", "addMark"}
      BY <1>1, <3>1
    <3>3. Ours' = Ours /\ Has("catch")' = Has("catch")
      BY <3>1 DEF Ours, Has
    <3>4. Settled'
      BY <1>1, <2>5, <3>1, <3>3 DEF Settled
    <3>5. QED
      BY <1>1, <2>4, <3>1, <3>2, <3>3, <3>4 DEF Building, Deleting
  <2>11. CASE AddMark(p, ok)
    <3> DEFINE r == Rule(PrioMin, "mark")
    <3>1. r \in KernelRules /\ IsOurs(r) /\ r.what = "mark"
      BY DEF Rule, KernelRules, PolicyAssumption, IsOurs
    <3>2. Add(p, r, ok, "addBypass") /\ UNCHANGED <<left, built, bypass, next>> /\ pc[p] = "addMark"
      BY <2>11 DEF AddMark, work, history
    <3>3. r = Rule(PrioMin, "mark")
      OBVIOUS
    <3> HIDE DEF r
    <3>4. /\ NoTwice(rules')
          /\ \/ rules' = rules /\ pc' = [pc EXCEPT ![p] = "failed"]
             \/ Ours' = Ours \cup {r} /\ pc' = [pc EXCEPT ![p] = "addBypass"]
      BY <1>1, <3>1, <3>2, AddIs
    <3>5. CASE rules' = rules /\ pc' = [pc EXCEPT ![p] = "failed"]
      <4>1. pc'[p] = "failed" /\ Ours' = Ours /\ Has("catch")' = Has("catch")
        BY <1>1, <3>5 DEF Ours, Has
      <4>2. Settled'
        BY <1>1, <2>5, <3>2, <4>1 DEF Settled
      <4>3. QED
        BY <3>4, <4>1, <4>2 DEF Deleting, Building
    <3>6. CASE Ours' = Ours \cup {r} /\ pc' = [pc EXCEPT ![p] = "addBypass"]
      <4>1. pc'[p] = "addBypass" /\ next' = 0 /\ bypass' = bypass
        BY <1>1, <2>4, <3>2, <3>6 DEF Building
      <4>2. ~left => Ours' = Upto(bypass, 0)
        BY <1>1, <2>4, <3>2, <3>3, <3>6, UptoIs DEF Building
      <4>3. ~left => ~Has("catch")'
        BY <2>4, <2>6, <3>1, <3>2, <3>6 DEF Building
      <4>4. Settled'
        BY <3>2, <4>3 DEF Settled
      <4>5. 0 <= Len(Fitting(bypass))
        BY <1>1, FittingIs
      <4>6. QED
        BY <3>2, <3>4, <4>1, <4>2, <4>4, <4>5 DEF Deleting, Building
    <3>7. QED
      BY <3>4, <3>5, <3>6
  <2>12. CASE AddBypass(p, ok)
    <3>1. pc[p] = "addBypass" /\ UNCHANGED <<left, built, bypass>>
      BY <2>12 DEF AddBypass, history
    <3>2. /\ Len(Fitting(bypass)) \in Nat /\ Len(Fitting(bypass)) <= Len(bypass) /\ Len(bypass) \in Nat
          /\ next < Len(Fitting(bypass)) <=> next < Len(bypass) /\ PrioMin + 1 + next < PrioMax
      BY <1>1, <2>7, FittingIs
    <3>3. next <= Len(Fitting(bypass)) /\ (~left => Ours = Upto(bypass, next))
      BY <2>4, <3>1 DEF Building
    <3>4. ~left => ~Has("catch")
      <4>1. next \in 0..Len(bypass)
        BY <2>7, <3>2, <3>3
      <4>2. QED
        BY <1>1, <3>3, <4>1, UptoIs, HasCatch
    <3>5. CASE next < Len(Fitting(bypass))
      <4> DEFINE r == Rule(PrioMin + 1 + next, bypass[next + 1])
      <4>1. next + 1 \in 1..Len(bypass) /\ PrioMin + 1 + next \in PrioMin..PrioMax
            /\ next + 1 \in 0..Len(bypass) /\ next + 1 <= Len(Fitting(bypass))
        BY <2>7, <3>2, <3>5, ConstantTypes
      <4>2. bypass[next + 1] \in Targets
        BY <1>1, <4>1
      <4>3. r \in KernelRules /\ IsOurs(r)
        BY <4>1, <4>2 DEF Rule, KernelRules, IsOurs, PolicyAssumption
      <4>4. Add(p, r, ok, "addBypass") /\ next' = next + 1
        BY <2>12, <3>2, <3>5 DEF AddBypass
      <4>5. Upto(bypass, next + 1) = Upto(bypass, next) \cup {r}
        BY <1>1, <2>7, UptoIs
      <4> HIDE DEF r
      <4>6. /\ NoTwice(rules')
            /\ \/ rules' = rules /\ pc' = [pc EXCEPT ![p] = "failed"]
               \/ Ours' = Ours \cup {r} /\ pc' = [pc EXCEPT ![p] = "addBypass"]
        BY <1>1, <4>3, <4>4, AddIs
      <4>7. CASE rules' = rules /\ pc' = [pc EXCEPT ![p] = "failed"]
        <5>1. pc'[p] = "failed" /\ Has("catch")' = Has("catch")
          BY <1>1, <4>7 DEF Has
        <5>2. QED
          BY <3>1, <3>4, <4>6, <5>1 DEF Deleting, Building, Settled
      <4>8. CASE Ours' = Ours \cup {r} /\ pc' = [pc EXCEPT ![p] = "addBypass"]
        <5>1. pc'[p] = "addBypass"
          BY <1>1, <4>8
        <5>2. ~left => Ours' = Upto(bypass, next + 1)
          BY <3>3, <4>5, <4>8
        <5>3. ~left => ~Has("catch")'
          BY <1>1, <2>6, <4>1, <5>2, UptoIs
        <5>4. QED
          BY <3>1, <4>1, <4>4, <4>6, <5>1, <5>2, <5>3 DEF Deleting, Building, Settled
      <4>9. QED
        BY <4>6, <4>7, <4>8
    <3>6. CASE ~(next < Len(Fitting(bypass)))
      <4>1. UNCHANGED <<rules, next>> /\ pc' = [pc EXCEPT ![p] = "addCatch"]
        BY <2>12, <3>2, <3>6 DEF AddBypass, Goto
      <4>2. pc'[p] = "addCatch" /\ Ours' = Ours /\ Has("catch")' = Has("catch")
        BY <1>1, <4>1 DEF Ours, Has
      <4>3. next = Len(Fitting(bypass))
        BY <2>7, <3>2, <3>3, <3>6
      <4>4. QED
        BY <1>1, <3>1, <3>3, <3>4, <4>1, <4>2, <4>3 DEF Deleting, Building, Settled
    <3>7. QED
      BY <3>5, <3>6
  <2>13. CASE AddCatch(p, ok)
    <3> DEFINE r == Rule(PrioMin + 1 + next, "catch")
    <3>1. PrioMin + 1 + next \in PrioMin..PrioMax
      BY <1>1, ConstantTypes
    <3>2. r \in KernelRules /\ IsOurs(r)
      BY <3>1 DEF Rule, KernelRules, IsOurs
    <3>3. /\ Add(p, r, ok, "unlock") /\ UNCHANGED <<left, bypass>> /\ pc[p] = "addCatch"
          /\ built' = IF pc'[p] = "unlock" THEN bypass ELSE built
      BY <2>13 DEF AddCatch, work
    <3>4. next = Len(Fitting(bypass)) /\ (~left => Ours = Upto(bypass, next))
      BY <2>4, <3>3 DEF Building
    <3>5. Full(bypass) = Upto(bypass, next) \cup {r}
      BY <3>4 DEF Full
    <3> HIDE DEF r
    <3>6. /\ NoTwice(rules')
          /\ \/ rules' = rules /\ pc' = [pc EXCEPT ![p] = "failed"]
             \/ Ours' = Ours \cup {r} /\ pc' = [pc EXCEPT ![p] = "unlock"]
      BY <1>1, <3>2, <3>3, AddIs
    <3>7. CASE rules' = rules /\ pc' = [pc EXCEPT ![p] = "failed"]
      <4>1. pc'[p] = "failed" /\ Has("catch")' = Has("catch")
        BY <1>1, <3>7 DEF Has
      <4>2. next \in 0..Len(bypass)
        BY <1>1, <2>7, <3>4, FittingIs
      <4>3. ~left => ~Has("catch")
        BY <1>1, <3>4, <4>2, UptoIs, HasCatch
      <4>4. QED
        BY <3>3, <3>6, <4>1, <4>3 DEF Deleting, Building, Settled
    <3>8. CASE Ours' = Ours \cup {r} /\ pc' = [pc EXCEPT ![p] = "unlock"]
      <4>1. pc'[p] = "unlock" /\ built' = bypass
        BY <1>1, <3>3, <3>8
      <4>2. ~left => Ours' = Full(built')
        BY <3>4, <3>5, <3>8, <4>1
      <4>3. Settled'
        BY <3>3, <4>2 DEF Settled
      <4>4. QED
        BY <3>6, <4>1, <4>3 DEF Deleting, Building
    <3>9. QED
      BY <3>6, <3>7, <3>8
  <2>14. QED
    BY <1>5, <2>8, <2>9, <2>10, <2>11, <2>12, <2>13 DEF RuleStep
<1>6. QED
  BY <1>2, <1>3, <1>4, <1>5, Steps

LEMMA OursAccountedKept ==
  ASSUME PolicyAssumption, IndInv, Next
  PROVE  OursAccounted'
<1>1. /\ pc \in [Proc -> Labels] /\ Proc = {User, Rec} /\ User # Rec
      /\ NoProc # User /\ NoProc # Rec /\ Holding /\ Calls /\ RecAccounted /\ OursAccounted
      /\ core \in {"none", "live", "dead"}
      /\ op \in {"none", "start", "stop", "restart", "off", "exit"}
      /\ after \in {"unlock", "linkDel", "launch", "addRoute"}
  BY DEF IndInv, Typed, TypeOK, PolicyAssumption, Proc
<1>2. rules' = rules => Ours' = Ours
  BY DEF Ours
<1> USE <1>1, <1>2 DEF Holding, UserUnder, RecUnder, Common, Goto, Calls, Setup, BeforeLaunch,
         RecAccounted, OursAccounted, Accounted, Pending, service, files, work, kernel, history
<1>3. CASE Environment \/ DeviceUp
  <2>1. CASE CoreExit
    BY <2>1 DEF CoreExit
  <2>2. CASE Crash
    BY <2>2 DEF Crash
  <2>3. CASE DeviceUp \/ (\E r \in Moving : RouteChange(r))
    BY <2>3 DEF RouteChange, DeviceUp
  <2>4. ASSUME NEW n \in ForeignPrios, ForeignRule(n) PROVE OursAccounted'
    <3>1. Ours' = Ours
      BY <2>4, ForeignIs DEF IndInv
    <3>2. QED
      BY <2>4, <3>1 DEF ForeignRule
  <2>5. QED
    BY <1>3, <2>1, <2>2, <2>3, <2>4 DEF Environment
<1>4. CASE Arrive
  <2>1. CASE \E o \in {"start", "stop", "restart"} : Call(o)
    BY <2>1 DEF Call
  <2>2. CASE CallExit
    BY <2>2 DEF CallExit
  <2>3. CASE \E p \in Profiles : CallSelect(p)
    BY <2>3 DEF CallSelect
  <2>4. CASE \E m \in Modes : CallMode(m)
    BY <2>4 DEF CallMode
  <2>5. QED
    BY <1>4, <2>1, <2>2, <2>3, <2>4 DEF Arrive
<1>5. CASE RecTick
  BY <1>5 DEF RecTick
<1>6. CASE UserStep
  <2>1. CASE StopCore
    BY <2>1 DEF StopCore
  <2>2. CASE ExitCheck
    BY <2>2 DEF ExitCheck
  <2>3. CASE Claim
    BY <2>3 DEF Claim
  <2>4. CASE LinkDel
    BY <2>4 DEF LinkDel
  <2>5. CASE \E ok \in BOOLEAN : Launch(ok)
    BY <2>5 DEF Launch
  <2>6. QED
    BY <1>6, <2>1, <2>2, <2>3, <2>4, <2>5 DEF UserStep
<1>7. CASE RecStep
  BY <1>7 DEF RecStep, RecPick, RecCheck, Drift
<1>8. ASSUME NEW p \in Proc, Step(p) PROVE OursAccounted'
  <2>1. CASE Unlock(p)
    BY <2>1 DEF Unlock, FramesGone
  <2>2. CASE Failed(p)
    BY <2>2 DEF Failed
  <2>3. CASE Wait(p)
    BY <2>3 DEF Wait
  <2>4. ASSUME NEW ok \in BOOLEAN, Command(p, ok) PROVE OursAccounted'
    <3>1. CASE Build(p, ok)
      BY <3>1 DEF Build
    <3>2. CASE ListRules(p, ok)
      BY <3>2 DEF ListRules
    <3>3. CASE Delete(p, ok)
      <4>1. /\ Deleting(p) /\ pc[p] = "del"
            /\ IF OursOf(dels) = {}
               THEN UNCHANGED <<rules, left>>
               ELSE UNCHANGED pc
        BY <3>3, DeleteIs DEF IndInv, Delete
      <4>2. CASE OursOf(dels) = {}
        <5>1. left' = left /\ Ours' = Ours /\ (~left => Ours = {})
          BY <4>1, <4>2 DEF Deleting
        <5>2. QED
          BY <5>1
      <4>3. CASE UNCHANGED pc
        <5>1. CASE p = User
          BY <4>1, <4>3, <5>1
        <5>2. CASE p = Rec
          <6>1. Accounted
            BY <4>1, <5>2
          <6>2. UNCHANGED <<running, mode, core, op>>
            BY <3>3 DEF Delete
          <6>3. QED
            BY <4>3, <6>1, <6>2
        <5>3. QED
          BY <5>1, <5>2
      <4>4. QED
        BY <4>1, <4>2, <4>3
    <3>4. CASE AddRoute(p, ok)
      BY <3>4 DEF AddRoute
    <3>5. CASE AddMark(p, ok)
      BY <3>5 DEF AddMark, Add
    <3>6. CASE AddBypass(p, ok)
      BY <3>6 DEF AddBypass, Add
    <3>7. CASE AddCatch(p, ok)
      BY <3>7 DEF AddCatch, Add
    <3>8. QED
      BY <2>4, <3>1, <3>2, <3>3, <3>4, <3>5, <3>6, <3>7 DEF Command
  <2>5. QED
    BY <1>8, <2>1, <2>2, <2>3, <2>4 DEF Step
<1>9. ASSUME NEW p \in Proc, Lock(p) PROVE OursAccounted'
  BY <1>9 DEF Lock, Entry
<1>10. QED
  BY <1>3, <1>4, <1>5, <1>6, <1>7, <1>8, <1>9 DEF Next

LEMMA InFrontKept ==
  ASSUME PolicyAssumption, IndInv, Next
  PROVE  InFront(bypass)' /\ InFront(built)'
<1>1. Typed /\ InFront(bypass) /\ InFront(built) /\ job.prof \in Profiles
  BY DEF IndInv, Typed, TypeOK
<1>2. InFront(<<>>)
  BY DEF InFront
<1>3. ASSUME NEW ok \in BOOLEAN PROVE InFront(BypassRules(job.prof, ok))
  BY <1>1, BypassRulesIs DEF InFront
<1>4. /\ bypass' \in {bypass, <<>>, BypassRules(job.prof, TRUE), BypassRules(job.prof, FALSE)}
      /\ built' \in {built, bypass}
  <2> USE DEF work, history
  <2>1. CASE Environment \/ DeviceUp
    BY <2>1 DEF Environment, CoreExit, Crash, FramesGone, RouteChange, ForeignRule, DeviceUp
  <2>2. CASE Arrive
    BY <2>2 DEF Arrive, Call, CallExit, CallSelect, CallMode
  <2>3. CASE RecTick
    BY <2>3 DEF RecTick
  <2>4. CASE UserStep
    BY <2>4 DEF UserStep, StopCore, ExitCheck, Claim, LinkDel, Launch
  <2>5. CASE RecStep
    BY <2>5 DEF RecStep, RecPick, RecCheck, Drift
  <2>6. ASSUME NEW p \in Proc, Unlock(p) \/ Failed(p) \/ Wait(p) \/ Lock(p)
        PROVE  UNCHANGED <<bypass, built>> \/ (bypass' = <<>> /\ UNCHANGED built)
    BY <2>6 DEF Unlock, FramesGone, Failed, Wait, Lock
  <2>7. ASSUME NEW p \in Proc, NEW ok \in BOOLEAN, Command(p, ok)
        PROVE  /\ bypass' = bypass \/ bypass' = BypassRules(job.prof, ok)
               /\ built' = built \/ built' = bypass
    BY <2>7 DEF Command, Build, ListRules, Delete, AddRoute, AddMark, AddBypass, AddCatch
  <2>8. QED
    BY <2>1, <2>2, <2>3, <2>4, <2>5, <2>6, <2>7 DEF Next, Step
<1>5. InFront(bypass') /\ InFront(built')
  BY <1>1, <1>2, <1>3, <1>4
<1>6. QED
  BY <1>5 DEF InFront

LEMMA InitInd ==
  ASSUME PolicyAssumption, Init
  PROVE  IndInv
<1>1. Typed
  BY InitTyped
<1>2. /\ rules = <<>> /\ pc[User] = "idle" /\ pc[Rec] = "idle" /\ coreOpMu = NoProc
      /\ User # NoProc /\ Rec # NoProc /\ core = "none" /\ running = FALSE
      /\ bypass = <<>> /\ built = <<>> /\ Proc = {User, Rec}
  BY DEF Init, PolicyAssumption, Proc
<1>3. Ours = {} /\ ~Has("catch")
  BY <1>2 DEF Ours, OursOf, ToSet, Has
<1>4. NoTwice(rules) /\ InFront(bypass) /\ InFront(built)
  BY <1>2 DEF NoTwice, InFront
<1>5. Holding /\ Calls
  BY <1>2 DEF Holding, UserUnder, RecUnder, Common, Calls, Setup, BeforeLaunch
<1>6. RecAccounted /\ OursAccounted
  BY <1>2, <1>3 DEF RecAccounted, Setup, OursAccounted
<1>7. Settled /\ \A p \in Proc : Deleting(p) /\ Building(p)
  BY <1>2, <1>3 DEF Deleting, Building, Settled
<1>8. QED
  BY <1>1, <1>4, <1>5, <1>6, <1>7 DEF IndInv

LEMMA NextTyped ==
  ASSUME PolicyAssumption, IndInv, Next
  PROVE  Typed'
<1>1. Typed
  BY DEF IndInv
<1>2. CASE Environment \/ DeviceUp
  BY <1>1, <1>2, SimpleStepsTyped, CommandsTyped DEF Environment
<1>3. CASE Arrive
  BY <1>1, <1>3, SimpleStepsTyped DEF Arrive
<1>4. CASE RecTick \/ UserStep \/ RecStep
  BY <1>1, <1>4, SimpleStepsTyped DEF UserStep, RecStep
<1>5. ASSUME NEW p \in Proc, Step(p) \/ Lock(p) PROVE Typed'
  BY <1>1, <1>5, SimpleStepsTyped, CommandsTyped DEF Step
<1>6. QED
  BY <1>2, <1>3, <1>4, <1>5 DEF Next

LEMMA NextInd ==
  ASSUME PolicyAssumption, IndInv, [Next]_vars
  PROVE  IndInv'
<1>1. CASE Next
  <2>1. Typed' /\ Holding' /\ Calls' /\ RecAccounted' /\ OursAccounted'
    BY <1>1, NextTyped, HoldingKept, CallsKept, OursAccountedKept
  <2>2. NoTwice(rules)' /\ (\A p \in Proc : Deleting(p)' /\ Building(p)') /\ Settled'
    BY <1>1, RulesKept
  <2>3. InFront(bypass)' /\ InFront(built)'
    BY <1>1, InFrontKept
  <2>4. QED
    BY <2>1, <2>2, <2>3 DEF IndInv
<1>2. CASE UNCHANGED vars
  <2> USE <1>2 DEF vars, service, files, kernel, work, history
  <2>1. Typed' /\ NoTwice(rules)' /\ InFront(bypass)' /\ InFront(built)'
    BY DEF IndInv, Typed, TypeOK, Sorted, NoTwice, InFront
  <2>2. Holding' /\ Calls' /\ RecAccounted'
    BY DEF IndInv, Holding, Calls, RecAccounted, Setup, BeforeLaunch, Accounted, Pending
  <2>3. Ours' = Ours /\ Has("catch")' = Has("catch")
    BY DEF Ours, Has
  <2>4. OursAccounted' /\ Settled' /\ \A p \in Proc : Deleting(p)' /\ Building(p)'
    BY <2>3 DEF IndInv, OursAccounted, Accounted, Pending, Settled, Deleting, Building
  <2>5. QED
    BY <2>1, <2>2, <2>4 DEF IndInv
<1>3. QED
  BY <1>1, <1>2

-----------------------------------------------------------------------------
(* The properties.                                                         *)

\* The properties below rest on this: whoever takes rules out, puts rules in or
\* leaves some behind, what is known of the kernel's rules stays true.
THEOREM PolicyInvariant == Spec => []IndInv
<1>1. Init => IndInv
  BY PolicyAssumption, InitInd
<1>2. IndInv /\ [Next]_vars => IndInv'
  BY PolicyAssumption, NextInd
<1>3. QED
  BY <1>1, <1>2, PTL DEF Spec

\* Every variable keeps its type, and no rule is ever outside the priority window.
THEOREM PolicyTyping == Spec => []TypeOK
<1>1. IndInv => TypeOK
  BY DEF IndInv, Typed
<1>2. QED
  BY <1>1, PolicyInvariant, PTL

\* While coreOpMu is free, a catch-all belongs to a complete build.
LEMMA WholeBuild ==
  ASSUME IndInv, Free, Has("catch"), ~left
  PROVE  Ours = Full(built)
<1>1. \A p \in Proc : pc[p] # "del"
  BY PolicyAssumption DEF IndInv, Holding, UserUnder, RecUnder, Common, Free, Proc, PolicyAssumption
<1>2. QED
  BY <1>1 DEF IndInv, Settled

\* Whenever nobody works on the rules and there is a catch-all, the mark rule,
\* through which xray's own traffic escapes it, stands before it.
THEOREM XrayEscapes == Spec => []EscapeFirst
<1>1. ASSUME IndInv, Free, Has("catch"), ~left
      PROVE  \E i, j \in DOMAIN rules :
               i < j /\ rules[i].what = "mark" /\ rules[j].what = "catch"
  <2> DEFINE n == Len(Fitting(built))
             first == Rule(PrioMin, "mark")
             last == Rule(PrioMin + 1 + n, "catch")
  <2>1. first \in Ours /\ last \in Ours
    BY <1>1, WholeBuild DEF Full, Upto
  <2>2. PICK i \in DOMAIN rules, j \in DOMAIN rules : rules[i] = first /\ rules[j] = last
    BY <2>1 DEF Ours, OursOf, ToSet
  <2>3. n \in Nat /\ PrioMin \in Nat
    BY <1>1, PolicyAssumption, FittingIs, ConstantTypes DEF IndInv, Typed, TypeOK
  <2>4. /\ rules[i].prio = PrioMin /\ rules[i].what = "mark"
        /\ rules[j].prio = PrioMin + 1 + n /\ rules[j].what = "catch"
    BY <2>2 DEF Rule
  <2>5. ~(j <= i)
    BY <1>1, <2>3, <2>4 DEF IndInv, Typed, TypeOK, Sorted
  <2>6. i \in Nat /\ j \in Nat
    BY <1>1 DEF IndInv, Typed, TypeOK
  <2>7. QED
    BY <2>4, <2>5, <2>6
<1>2. IndInv => EscapeFirst
  BY <1>1 DEF EscapeFirst
<1>3. QED
  BY <1>2, PolicyInvariant, PTL

\* What is bypassed under a catch-all is what one build has put there.
LEMMA InstalledIs ==
  ASSUME IndInv, Free, Has("catch"), ~left
  PROVE  Installed = ToSet(Fitting(built))
<1> DEFINE n == Len(Fitting(built))
           whole == {Rule(PrioMin, "mark")} \cup {Rule(PrioMin + k, built[k]) : k \in 1..n}
                    \cup {Rule(PrioMin + 1 + n, "catch")}
<1>1. Ours = whole
  BY WholeBuild DEF Full, Upto
<1>2. /\ DOMAIN Fitting(built) = 1..n
      /\ \A k \in 1..n : Fitting(built)[k] = built[k]
      /\ n \in Nat /\ n <= Len(built) /\ built \in Seq(Targets)
  BY PolicyAssumption, FittingIs DEF IndInv, Typed, TypeOK
<1>3. \A k \in 1..n : built[k] \in Targets
  BY <1>2
<1>4. {"mark", "catch", "foreign"} \cap Targets = {}
  BY PolicyAssumption DEF PolicyAssumption
<1> HIDE DEF n
<1>5. ASSUME NEW t \in Installed PROVE t \in ToSet(Fitting(built))
  <2>1. PICK i \in DOMAIN rules : rules[i].what = t /\ t \in Targets
    BY DEF Installed
  <2>2. rules[i] \in Ours
    BY <1>4, <2>1 DEF Ours, OursOf, ToSet, IsOurs
  <2>3. PICK k \in 1..n : rules[i] = Rule(PrioMin + k, built[k])
    BY <1>1, <1>4, <2>1, <2>2 DEF Rule
  <2>4. t = Fitting(built)[k]
    BY <1>2, <2>1, <2>3 DEF Rule
  <2>5. QED
    BY <1>2, <2>4 DEF ToSet
<1>6. ASSUME NEW t \in ToSet(Fitting(built)) PROVE t \in Installed
  <2>1. PICK k \in 1..n : t = built[k]
    BY <1>2 DEF ToSet
  <2>2. Rule(PrioMin + k, t) \in Ours
    BY <1>1, <2>1
  <2>3. PICK i \in DOMAIN rules : rules[i] = Rule(PrioMin + k, t)
    BY <2>2 DEF Ours, OursOf, ToSet
  <2>4. QED
    BY <1>3, <2>1, <2>3 DEF Installed, Rule
<1>7. QED
  BY <1>5, <1>6

\* Whenever nobody works on the rules and a catch-all is in force, the bypass
\* rules are those of one build, from its first entry on.
THEOREM OneBuild == Spec => []NoMixture
<1>1. IndInv => NoMixture
  BY InstalledIs DEF NoMixture
<1>2. QED
  BY <1>1, PolicyInvariant, PTL

\* Where the window has room for the server and the DNS servers, they are
\* bypassed whenever the build had them: only the end of the main table is cut.
THEOREM CriticalAreBypassed == 1 + Len(Dns) <= Capacity => (Spec => []CriticalFirst)
<1> SUFFICES ASSUME 1 + Len(Dns) <= Capacity PROVE Spec => []CriticalFirst
  OBVIOUS
<1>1. ASSUME IndInv, Free, Has("catch"), ~left,
             NEW t \in ToSet(built),
             t \in ({Server[p] : p \in Profiles} \ ToSet(RouteOrder)) \cup ToSet(Dns)
      PROVE  t \in Installed
  <2>1. PICK k \in DOMAIN built : t = built[k]
    BY DEF ToSet
  <2>2. ~(k > 1 + Len(Dns))
    BY <1>1, <2>1 DEF IndInv, InFront
  <2>3. built \in Seq(Targets) /\ Len(Dns) \in Nat /\ Capacity \in Nat
    BY <1>1, PolicyAssumption, ConstantTypes DEF IndInv, Typed, TypeOK, PolicyAssumption
  <2>4. /\ Len(Fitting(built)) = IF Len(built) < Capacity THEN Len(built) ELSE Capacity
        /\ DOMAIN Fitting(built) = 1..Len(Fitting(built))
        /\ \A m \in 1..Len(Fitting(built)) : Fitting(built)[m] = built[m]
    BY <2>3, PolicyAssumption, FittingIs
  <2>5. k \in 1..Len(built) /\ Len(built) \in Nat
    BY <2>1, <2>3
  <2>6. k \in 1..Len(Fitting(built))
    BY <2>2, <2>3, <2>4, <2>5
  <2>7. t \in ToSet(Fitting(built))
    BY <2>1, <2>4, <2>6 DEF ToSet
  <2>8. QED
    BY <1>1, <2>7, InstalledIs
<1>2. IndInv => CriticalFirst
  BY <1>1 DEF CriticalFirst
<1>3. QED
  BY <1>2, PolicyInvariant, PTL

\* After a stop, an exit or a switch away from policy routing, and whatever the
\* reconciliation had under way meanwhile, no rule of ours is left.
THEOREM NothingStrays == Spec => []NoStrayRules
<1>1. ASSUME IndInv, pc[User] = "idle", ~left, core # "dead", ~running \/ mode # "policy",
             NEW i \in DOMAIN rules, IsOurs(rules[i])
      PROVE  FALSE
  <2>1. rules[i] \in Ours
    BY <1>1 DEF Ours, OursOf, ToSet
  <2>2. QED
    BY <1>1, <2>1 DEF IndInv, OursAccounted, Accounted, Pending
<1>2. IndInv => NoStrayRules
  BY <1>1 DEF NoStrayRules
<1>3. QED
  BY <1>2, PolicyInvariant, PTL

\* The commands that add a rule lose none.
LEMMA AddsOnly ==
  ASSUME IndInv, NEW p \in Proc, NEW ok \in BOOLEAN,
         AddMark(p, ok) \/ AddBypass(p, ok) \/ AddCatch(p, ok)
  PROVE  ToSet(rules) \subseteq ToSet(rules')
<1>1. /\ Typed /\ NoTwice(rules) /\ bypass \in Seq(Targets) /\ next \in 0..Capacity
      /\ PrioMin \in PrioMin..PrioMax /\ PrioMin + 1 + next \in PrioMin..PrioMax
  BY PolicyAssumption, ConstantTypes DEF IndInv, Typed, TypeOK
<1>2. ASSUME NEW r \in KernelRules, IsOurs(r), NEW then, Add(p, r, ok, then)
      PROVE  ToSet(rules) \subseteq ToSet(rules')
  BY <1>1, <1>2, PolicyAssumption, AddIs
<1>3. CASE AddMark(p, ok)
  <2>1. Rule(PrioMin, "mark") \in KernelRules /\ IsOurs(Rule(PrioMin, "mark"))
    BY <1>1 DEF Rule, KernelRules, IsOurs
  <2>2. QED
    BY <1>2, <1>3, <2>1 DEF AddMark
<1>4. CASE AddBypass(p, ok)
  <2>1. CASE rules' = rules
    BY <2>1
  <2>2. CASE next < Len(bypass) /\ Add(p, Rule(PrioMin + 1 + next, bypass[next + 1]), ok, "addBypass")
    <3>1. next + 1 \in 1..Len(bypass)
      BY <1>1, <2>2
    <3>2. bypass[next + 1] \in Targets
      BY <1>1, <3>1
    <3>3. /\ Rule(PrioMin + 1 + next, bypass[next + 1]) \in KernelRules
          /\ IsOurs(Rule(PrioMin + 1 + next, bypass[next + 1]))
      BY <1>1, <3>2, PolicyAssumption DEF Rule, KernelRules, IsOurs, PolicyAssumption
    <3>4. QED
      BY <1>2, <2>2, <3>3
  <2>3. QED
    BY <1>4, <2>1, <2>2 DEF AddBypass
<1>5. CASE AddCatch(p, ok)
  <2>1. /\ Rule(PrioMin + 1 + next, "catch") \in KernelRules
        /\ IsOurs(Rule(PrioMin + 1 + next, "catch"))
    BY <1>1 DEF Rule, KernelRules, IsOurs
  <2>2. QED
    BY <1>2, <1>5, <2>1 DEF AddCatch
<1>6. QED
  BY <1>3, <1>4, <1>5

\* A rule of another tool disappears only when one of ours has its priority: the
\* cleanup goes by a listing, and in that no rule of ours is out of date.
THEOREM ForeignLost == Spec => ForeignLossNeedsSharedPrio
<1> DEFINE Lost(r) == \E j \in DOMAIN rules : IsOurs(rules[j]) /\ rules[j].prio = r.prio
<1>1. ASSUME IndInv, Next, NEW r \in ToSet(rules), r \notin ToSet(rules')
      PROVE  Lost(r)
  <2>1. ~Quiet /\ ~Crash
    BY <1>1 DEF Quiet, Crash
  <2>2. ~\E n \in ForeignPrios : ForeignRule(n)
    BY <1>1, PolicyAssumption, ForeignIs DEF IndInv
  <2>3. PICK p \in Proc, ok \in BOOLEAN : RuleStep(p, ok)
    BY <1>1, <2>1, <2>2, PolicyAssumption, Steps
  <2>4. ~(AddMark(p, ok) \/ AddBypass(p, ok) \/ AddCatch(p, ok))
    BY <1>1, AddsOnly
  <2>5. ~(ListRules(p, ok) \/ AddRoute(p, ok))
    BY <1>1 DEF ListRules, AddRoute, kernel
  <2>6. Delete(p, ok)
    BY <2>3, <2>4, <2>5 DEF RuleStep
  <2>7. PICK x \in Ours : x.prio = r.prio
    BY <1>1, <2>6, PolicyAssumption, DeleteIs DEF IndInv
  <2>8. QED
    BY <2>7 DEF Ours, OursOf, ToSet
<1>2. ASSUME IndInv, [Next]_vars,
             NEW i \in DOMAIN rules, ~Contains(rules', rules[i])
      PROVE  Lost(rules[i])
  <2>1. rules \in Seq(KernelRules) /\ rules[i] \in ToSet(rules)
    BY <1>2 DEF IndInv, Typed, TypeOK, ToSet
  <2>2. CASE UNCHANGED vars
    <3>1. rules' = rules /\ i \in 1..Len(rules)
      BY <2>1, <2>2 DEF vars, kernel
    <3>2. QED
      BY <1>2, <3>1 DEF Contains
  <2>3. CASE Next
    <3>1. Typed'
      BY <1>2, <2>3, PolicyAssumption, NextTyped
    <3>2. DOMAIN rules' = 1..Len(rules')
      BY <3>1 DEF Typed, TypeOK
    <3>3. rules[i] \notin ToSet(rules')
      BY <1>2, <3>2 DEF Contains, ToSet
    <3>4. QED
      BY <1>1, <1>2, <2>1, <2>3, <3>3
  <2>4. QED
    BY <1>2, <2>2, <2>3
<1>3. IndInv /\ [Next]_vars =>
        [\A i \in DOMAIN rules : rules[i].what = "foreign" =>
           \/ Contains(rules', rules[i])
           \/ \E j \in DOMAIN rules : IsOurs(rules[j]) /\ rules[j].prio = rules[i].prio]_vars
  BY <1>2
<1>4. QED
  BY <1>3, PolicyInvariant, PTL DEF Spec, ForeignLossNeedsSharedPrio

=============================================================================
