------------------------- MODULE CompositionProofs -------------------------
(***************************************************************************)
(* Proofs about the three ways to make a server of what is there already:  *)
(* Mount, whose calls are delegated among any servers; ProxyCalls, for any *)
(* backend, any change of it, and any request; OpenApiCalls, for any       *)
(* document, and any call of one of its operations.                        *)
(*                                                                         *)
(* Mount.  What is listed is served and what was there stays.              *)
(* Registration moves no key and removes none (RegistrationStep), so what  *)
(* could be answered still can (AnswersStay).  A delegating component has  *)
(* its origin on its child (Rooted), as what is composed was listed there  *)
(* (ItemsListed), and a template matches whatever it expands to: a         *)
(* delegated call comes to a server that answers it (CallsAnswerable).  A  *)
(* name that does not clash is none of those the parent had at first, once *)
(* its kind's names are taken (FirstOnesTaken).                            *)
(*                                                                         *)
(* ProxyCalls.  What New registers is what the filters choose of the       *)
(* backend's lists, each entry forwarding under the backend's own name     *)
(* (NewChooses).  So what the proxy finds under a name is the entry the    *)
(* backend has under that name without the prefix, and a forwarded request *)
(* is answered by what the backend answers (the Proxied lemmas).  A        *)
(* template is expanded to the very URI that was asked for (UriRestored).  *)
(*                                                                         *)
(* OpenApiCalls.  A tool that is alone with its name, or a template that   *)
(* is the first of its URI, is the route of its operation (ToolIsOwn,      *)
(* TemplateIsOwn).  A route has one field for each parameter and property  *)
(* of its operation, in the place and of the type it is declared with      *)
(* (RouteFits).  What comes of a value that its type's schema accepts is   *)
(* what the struct makes of it, by induction over the types (ValueArrives).*)
(* So arguments of the declared form come out of the struct as they arrive *)
(* (ArgumentsKept), and the request carries each in its place              *)
(* (RequestIsOwn, TemplateFilled).                                         *)
(***************************************************************************)
EXTENDS Mount, LibraryProofs, OpenApiCalls

-----------------------------------------------------------------------------
(* The inductive invariant.                                                *)

\* The kinds whose names a composition has taken.
NamesTaken(m, k) ==
  /\ k \in Included
  /\ phase[m] = "composing" \/ \E j \in DOMAIN Kinds : j <= turn[m] /\ Kinds[j] = k

\* What the parent had at first is there still, and its names are taken.
FirstOnesTaken(m) ==
  Active(m) =>
    \A k \in KindSet :
      /\ had[m][k] <= Len(reg[job[m].parent][k])
      /\ NamesTaken(m, k) => \A i \in 1 .. had[m][k] : reg[job[m].parent][k][i].key \in taken[m][k]

AtIncludedKind(m) ==
  /\ phase[m] = "idle" => turn[m] = 0
  /\ phase[m] = "composing" =>
       turn[m] \in DOMAIN Kinds /\ Kinds[turn[m]] \in Included

\* What is still to be composed is on the child.
ItemsListed(m) ==
  phase[m] = "composing" =>
    \A i \in 1 .. Len(items[m]) : items[m][i] \in KeysOf(reg[job[m].child][Kinds[turn[m]]])

Composing(m) == FirstOnesTaken(m) /\ AtIncludedKind(m) /\ ItemsListed(m)

\* A delegating component has its origin on the child.
Rooted ==
  \A s \in Servers, k \in KindSet : \A i \in 1 .. Len(reg[s][k]) :
    reg[s][k][i].to # NoServer => reg[s][k][i].origin \in KeysOf(reg[reg[s][k][i].to][k])

\* Some component of the server answers the request.
CanAnswer(s, kind, key) ==
  \/ key \in KeysOf(reg[s][kind])
  \/ kind = "resource" /\ \E template \in KeysOf(reg[s].template) : Matches(template, key)

CallsAnswerable ==
  \A c \in Callers : call[c].listed /\ call[c].status = "open" =>
    CanAnswer(call[c].at, call[c].kind, call[c].key)

IInv ==
  /\ TypeOK
  /\ \A m \in Compositions : Composing(m)
  /\ Rooted
  /\ CallsAnswerable
  /\ ListedIsServed

-----------------------------------------------------------------------------
(* Lemmas about registries.                                                *)

\* Registering puts the component in the list and keeps the place of every key
\* and every component with another key.
LEMMA RegisteredKeeps ==
  ASSUME NEW list \in Seq(Component), NEW kind, NEW comp \in Component
  PROVE  LET new == Registered(list, kind, comp)
         IN /\ new \in Seq(Component)
            /\ Len(list) <= Len(new)
            /\ \A i \in 1 .. Len(list) :
                 /\ new[i].key = list[i].key
                 /\ list[i].key # comp.key => new[i] = list[i]
            /\ \A i \in 1 .. Len(new) :
                 new[i] = comp \/ (i <= Len(list) /\ new[i] = list[i])
<1>1. CASE kind # "template" /\ comp.key \in KeysOf(list)
  <2> DEFINE new == [i \in DOMAIN list |-> IF list[i].key = comp.key THEN comp ELSE list[i]]
  <2>1. Registered(list, kind, comp) = new
    BY <1>1 DEF Registered
  <2>2. DOMAIN list = 1 .. Len(list) /\ Len(list) \in Nat
    OBVIOUS
  <2>3. \A i \in 1 .. Len(list) : new[i] \in Component
    BY <2>2
  <2>4. new \in Seq(Component)
    BY <2>2, <2>3
  <2>5. Len(new) = Len(list)
    BY <2>2, <2>4
  <2> QED
    BY <2>1, <2>2, <2>4, <2>5
<1>2. CASE ~ (kind # "template" /\ comp.key \in KeysOf(list))
  <2>1. Registered(list, kind, comp) = Append(list, comp)
    BY <1>2 DEF Registered
  <2>2. /\ Append(list, comp) \in Seq(Component)
        /\ Len(Append(list, comp)) = Len(list) + 1
        /\ \A i \in 1 .. Len(list) : Append(list, comp)[i] = list[i]
        /\ Append(list, comp)[Len(list) + 1] = comp
    OBVIOUS
  <2> QED
    BY <2>1, <2>2
<1> QED
  BY <1>1, <1>2

\* A list that keeps the places of another's keys has all of its keys.
LEMMA KeysOfKept ==
  ASSUME NEW old \in Seq(Component), NEW new \in Seq(Component),
         Len(old) <= Len(new),
         \A i \in 1 .. Len(old) : new[i].key = old[i].key
  PROVE  KeysOf(old) \subseteq KeysOf(new)
<1>1. DOMAIN old = 1 .. Len(old) /\ DOMAIN new = 1 .. Len(new) /\ Len(old) \in Nat /\ Len(new) \in Nat
  OBVIOUS
<1>2. SUFFICES ASSUME NEW i \in DOMAIN old
               PROVE  old[i].key \in KeysOf(new)
  BY DEF KeysOf
<1>3. i \in DOMAIN new /\ new[i].key = old[i].key
  BY <1>1
<1> QED
  BY <1>3 DEF KeysOf

\* The registries keep every key where it is.
Grows ==
  \A s \in Servers, k \in KindSet :
    /\ Len(reg[s][k]) <= Len(reg'[s][k])
    /\ \A i \in 1 .. Len(reg[s][k]) : reg'[s][k][i].key = reg[s][k][i].key

RegType == reg \in [Servers -> [KindSet -> Seq(Component)]]

\* When the registries grow, so do the sets of keys.
LEMMA KeysGrow ==
  ASSUME RegType, RegType', Grows, NEW s \in Servers, NEW k \in KindSet
  PROVE  KeysOf(reg[s][k]) \subseteq KeysOf(reg'[s][k])
<1>1. /\ reg[s][k] \in Seq(Component) /\ reg'[s][k] \in Seq(Component)
      /\ Len(reg[s][k]) <= Len(reg'[s][k])
      /\ \A n \in 1 .. Len(reg[s][k]) : reg'[s][k][n].key = reg[s][k][n].key
  BY DEF RegType, Grows
<1> QED
  BY <1>1, KeysOfKept

\* One registration: types, growth, and components backed by their children.
LEMMA RegistrationStep ==
  ASSUME RegType, Rooted,
         NEW s \in Servers, NEW k \in KindSet, NEW comp \in Component,
         comp.to # NoServer => comp.origin \in KeysOf(reg[comp.to][k]),
         reg' = [reg EXCEPT ![s][k] = Registered(@, k, comp)]
  PROVE  RegType' /\ Grows /\ Rooted'
<1> DEFINE new == Registered(reg[s][k], k, comp)
<1>0. reg[s][k] \in Seq(Component)
  BY DEF RegType
<1>1. /\ new \in Seq(Component)
      /\ Len(reg[s][k]) <= Len(new)
      /\ \A i \in 1 .. Len(reg[s][k]) : new[i].key = reg[s][k][i].key
      /\ \A i \in 1 .. Len(new) : new[i] = comp \/ (i <= Len(reg[s][k]) /\ new[i] = reg[s][k][i])
  BY <1>0, RegisteredKeeps
<1>2. /\ reg'[s][k] = new
      /\ \A other \in Servers, l \in KindSet : other # s \/ l # k => reg'[other][l] = reg[other][l]
  BY DEF RegType
<1> HIDE DEF new
<1>3. RegType'
  BY <1>1, <1>2 DEF RegType
<1>4. Grows
  BY <1>0, <1>1, <1>2 DEF Grows, RegType
<1>5. Rooted'
  <2> SUFFICES ASSUME NEW other \in Servers, NEW l \in KindSet, NEW i \in 1 .. Len(reg'[other][l]),
                      reg'[other][l][i].to # NoServer
               PROVE  reg'[other][l][i].origin \in KeysOf(reg'[reg'[other][l][i].to][l])
    BY DEF Rooted
  <2>1. reg'[other][l][i].origin \in KeysOf(reg[reg'[other][l][i].to][l])
    <3>1. CASE other = s /\ l = k
      BY <1>0, <1>1, <1>2, <3>1 DEF Rooted
    <3>2. CASE other # s \/ l # k
      BY <1>2, <3>2 DEF Rooted
    <3> QED
      BY <3>1, <3>2
  <2>2. reg'[other][l][i].to \in Servers
    <3>1. reg'[other][l] \in Seq(Component)
      BY <1>3 DEF RegType
    <3>2. reg'[other][l][i] \in Component
      BY <3>1
    <3> QED
      BY <3>2 DEF Component
  <2>3. PICK u \in Servers : u = reg'[other][l][i].to
    BY <2>2
  <2>4. KeysOf(reg[u][l]) \subseteq KeysOf(reg'[u][l])
    BY <1>3, <1>4, KeysGrow
  <2> QED
    BY <2>1, <2>3, <2>4, Zenon
<1> QED
  BY <1>3, <1>4, <1>5

\* What could be answered still can.
LEMMA AnswersStay ==
  ASSUME RegType, RegType', Grows, NEW s \in Servers, NEW kind \in KindSet, NEW key,
         CanAnswer(s, kind, key)
  PROVE  CanAnswer(s, kind, key)'
<1>1. /\ KeysOf(reg[s][kind]) \subseteq KeysOf(reg'[s][kind])
      /\ KeysOf(reg[s].template) \subseteq KeysOf(reg'[s].template)
  BY KeysGrow DEF KindSet
<1> QED
  BY <1>1 DEF CanAnswer

-----------------------------------------------------------------------------
(* Lemmas about keys.                                                      *)

LEMMA KindsCover ==
  /\ DOMAIN Kinds = 1 .. 4 /\ Len(Kinds) = 4
  /\ \A j \in 1 .. 4 : Kinds[j] \in KindSet
  /\ \A k \in KindSet : \E j \in 1 .. 4 : Kinds[j] = k
BY DEF Kinds, KindSet

LEMMA TurnIsNat ==
  ASSUME TypeOK, NEW m \in Compositions
  PROVE  turn[m] \in Nat
<1>1. turn[m] \in 0 .. Len(Kinds)
  BY DEF TypeOK
<1>2. PICK n : n = Len(Kinds)
  OBVIOUS
<1>3. turn[m] \in 0 .. n /\ n = 4
  BY <1>1, <1>2, KindsCover
<1> QED
  BY <1>3

LEMMA KeysAreKeys ==
  ASSUME NEW list \in Seq(Component)
  PROVE  KeysOf(list) \subseteq Key
<1>1. SUFFICES ASSUME NEW i \in DOMAIN list PROVE list[i].key \in Key
  BY DEF KeysOf
<1>2. list[i] \in Component
  OBVIOUS
<1> QED
  BY <1>2 DEF Component

LEMMA ExpandedIsKey ==
  ASSUME NEW template \in Key, NEW D, NEW values \in [D -> Variables \cup Values]
  PROVE  Expanded(template, values) \in Key
BY DEF Expanded, Key

\* A template matches what it expands to.
LEMMA ExpandedMatches ==
  ASSUME NEW template \in Key, NEW D, D \subseteq Variables,
         NEW values \in [D -> Variables \cup Values]
  PROVE  Matches(template, Expanded(template, values))
<1>1. /\ DOMAIN template = 1 .. Len(template) /\ Len(template) \in Nat
      /\ Expanded(template, values) \in Key
      /\ DOMAIN Expanded(template, values) = 1 .. Len(template)
  BY ExpandedIsKey DEF Key, Expanded
<1>2. Len(Expanded(template, values)) = Len(template)
  BY <1>1 DEF Key
<1>3. \A i \in DOMAIN template :
        template[i] \in Variables \/ template[i] = Expanded(template, values)[i]
  BY DEF Expanded
<1> QED
  BY <1>2, <1>3 DEF Matches

-----------------------------------------------------------------------------
(* What steps leave in place.                                              *)

\* A composition whose own state stays (but for what it has done with, and for
\* names taken) is not disturbed by registrations.
LEMMA ComposingStays ==
  ASSUME TypeOK, RegType', Grows, NEW m \in Compositions, Composing(m),
         phase'[m] = phase[m], job'[m] = job[m], turn'[m] = turn[m], had'[m] = had[m],
         \A k \in KindSet : taken[m][k] \subseteq taken'[m][k],
         \A i \in 1 .. Len(items'[m]) : \E n \in 1 .. Len(items[m]) : items'[m][i] = items[m][n]
  PROVE  Composing(m)'
<1>0. RegType
  BY DEF TypeOK, RegType
<1>1. AtIncludedKind(m)'
  BY DEF Composing, AtIncludedKind
<1>2. FirstOnesTaken(m)'
  <2> SUFFICES ASSUME Active(m), NEW k \in KindSet
               PROVE  /\ had[m][k] <= Len(reg'[job[m].parent][k])
                      /\ NamesTaken(m, k) => \A i \in 1 .. had[m][k] :
                                         reg'[job[m].parent][k][i].key \in taken[m][k]
    BY DEF FirstOnesTaken, Active, NamesTaken
  <2> DEFINE p == job[m].parent
  <2>1. p \in Servers
    BY DEF TypeOK
  <2>2. /\ Len(reg[p][k]) <= Len(reg'[p][k])
        /\ \A i \in 1 .. Len(reg[p][k]) : reg'[p][k][i].key = reg[p][k][i].key
    BY <2>1 DEF Grows
  <2>3. /\ had[m][k] \in Nat /\ Len(reg[p][k]) \in Nat /\ Len(reg'[p][k]) \in Nat
    BY <1>0, <2>1 DEF TypeOK, RegType
  <2>4. /\ had[m][k] <= Len(reg[p][k])
        /\ NamesTaken(m, k) => \A i \in 1 .. had[m][k] : reg[p][k][i].key \in taken[m][k]
    BY DEF Composing, FirstOnesTaken
  <2> HIDE DEF p
  <2>5. had[m][k] <= Len(reg'[p][k])
    BY <2>2, <2>3, <2>4
  <2>6. \A i \in 1 .. had[m][k] : reg'[p][k][i].key = reg[p][k][i].key
    BY <2>2, <2>3, <2>4
  <2> QED
    BY <2>4, <2>5, <2>6 DEF p
<1>3. ItemsListed(m)'
  <2> SUFFICES ASSUME phase[m] = "composing", NEW i \in 1 .. Len(items'[m])
               PROVE  items'[m][i] \in KeysOf(reg'[job[m].child][Kinds[turn[m]]])
    BY DEF ItemsListed
  <2>1. job[m].child \in Servers /\ Kinds[turn[m]] \in KindSet
    BY KindsCover DEF TypeOK, Active, Composing, AtIncludedKind
  <2>2. items'[m][i] \in KeysOf(reg[job[m].child][Kinds[turn[m]]])
    BY DEF Composing, ItemsListed
  <2> QED
    BY <1>0, <2>1, <2>2, KeysGrow
<1> QED
  BY <1>1, <1>2, <1>3 DEF Composing

\* Calls are not disturbed by registrations.
LEMMA CallsStay ==
  ASSUME TypeOK, RegType', Grows, call' = call, CallsAnswerable, ListedIsServed
  PROVE  CallsAnswerable' /\ ListedIsServed'
<1>1. ListedIsServed'
  BY DEF ListedIsServed
<1>2. ASSUME NEW c \in Callers, call[c].listed, call[c].status = "open"
      PROVE  CanAnswer(call[c].at, call[c].kind, call[c].key)'
  <2>1. RegType /\ call[c].at \in Servers /\ call[c].kind \in KindSet
    BY <1>2 DEF TypeOK, RegType, ClientCall
  <2>2. CanAnswer(call[c].at, call[c].kind, call[c].key)
    BY <1>2 DEF CallsAnswerable
  <2>3. PICK s, k, key : s = call[c].at /\ k = call[c].kind /\ key = call[c].key
    OBVIOUS
  <2>4. CanAnswer(s, k, key)'
    BY <2>1, <2>2, <2>3, AnswersStay
  <2> QED
    BY <2>3, <2>4
<1> QED
  BY <1>1, <1>2 DEF CallsAnswerable

LEMMA UnchangedGrows ==
  ASSUME TypeOK, reg' = reg
  PROVE  RegType' /\ Grows
BY DEF TypeOK, RegType, Grows

-----------------------------------------------------------------------------
(* The initial states and the steps.                                       *)

\* Compositions whose state a step leaves alone.
LEMMA OthersStay ==
  ASSUME IInv, RegType', Grows, NEW M \in SUBSET Compositions,
         \A m \in M : /\ phase'[m] = phase[m] /\ job'[m] = job[m] /\ turn'[m] = turn[m]
                     /\ had'[m] = had[m] /\ taken'[m] = taken[m] /\ items'[m] = items[m]
  PROVE  \A m \in M : Composing(m)'
<1>1. SUFFICES ASSUME NEW m \in M PROVE Composing(m)'
  OBVIOUS
<1>2. m \in Compositions /\ TypeOK /\ Composing(m)
  BY DEF IInv
<1> QED
  BY <1>2, ComposingStays

LEMMA InitHolds == ASSUME MountAssumption, Init PROVE IInv
<1>1. TypeOK
  <2>1. \A s \in Servers, k \in KindSet : Initial[s][k] \in Seq(Key)
    BY DEF MountAssumption
  <2>2. \A s \in Servers, k \in KindSet :
          [i \in DOMAIN Initial[s][k] |-> Own(Initial[s][k][i])] \in Seq(Component)
    <3>1. SUFFICES ASSUME NEW list \in Seq(Key)
                   PROVE  [i \in DOMAIN list |-> Own(list[i])] \in Seq(Component)
      BY <2>1
    <3>2. \A i \in 1 .. Len(list) : Own(list[i]) \in Component
      BY DEF Own, Component
    <3> QED
      BY <3>2
  <2>3. reg \in [Servers -> [KindSet -> Seq(Component)]]
    BY <2>2 DEF Init
  <2>4. << >> \in Key /\ << >> \in Seq(Key)
    BY DEF Key
  <2>5. NoJob \in Job /\ NoCall \in ClientCall
    BY <2>4 DEF NoJob, NoCall, Job, ClientCall, Policies, KindSet
  <2>6. /\ late \subseteq Late
        /\ phase \in [Compositions -> {"idle", "naming", "composing", "ok", "failed"}]
        /\ job \in [Compositions -> Job]
        /\ turn \in [Compositions -> 0 .. Len(Kinds)]
        /\ call \in [Callers -> ClientCall]
    BY <2>5, KindsCover DEF Init
  <2>7. /\ taken \in [Compositions -> [KindSet -> SUBSET Key]]
        /\ items \in [Compositions -> Seq(Key)]
        /\ had \in [Compositions -> [KindSet -> Nat]]
    BY <2>4 DEF Init
  <2>8. /\ \A m \in Compositions : ~ Active(m)
        /\ \A c \in Callers : call[c].status # "open"
    BY DEF Init, Active, NoCall
  <2> QED
    BY <2>3, <2>6, <2>7, <2>8 DEF TypeOK
<1>2. \A m \in Compositions : Composing(m)
  BY DEF Init, Composing, FirstOnesTaken, AtIncludedKind, ItemsListed, Active
<1>3. Rooted
  <2>1. SUFFICES ASSUME NEW s \in Servers, NEW k \in KindSet, NEW i \in 1 .. Len(reg[s][k])
                 PROVE  reg[s][k][i].to = NoServer
    BY DEF Rooted
  <2>2. reg[s][k] \in Seq(Component)
    BY <1>1 DEF TypeOK
  <2>3. i \in DOMAIN reg[s][k]
    BY <2>2
  <2>4. reg[s][k] = [n \in DOMAIN Initial[s][k] |-> Own(Initial[s][k][n])]
    BY DEF Init
  <2> QED
    BY <2>3, <2>4 DEF Own
<1>4. CallsAnswerable /\ ListedIsServed
  BY DEF Init, NoCall, CallsAnswerable, ListedIsServed
<1> QED
  BY <1>1, <1>2, <1>3, <1>4 DEF IInv

LEMMA RegisterLateKeeps ==
  ASSUME MountAssumption, IInv, NEW l \in late, RegisterLate(l)
  PROVE  IInv'
<1>1. l.server \in Servers /\ l.kind \in KindSet /\ l.key \in Key
  BY DEF MountAssumption, IInv, TypeOK
<1>2. Own(l.key) \in Component /\ Own(l.key).to = NoServer
  BY <1>1 DEF Own, Component
<1>3. RegType /\ Rooted
  BY DEF IInv, TypeOK, RegType
<1>4. RegType' /\ Grows /\ Rooted'
  <2>1. reg' = [reg EXCEPT ![l.server][l.kind] = Registered(@, l.kind, Own(l.key))]
    BY DEF RegisterLate
  <2> QED
    BY <1>1, <1>2, <1>3, <2>1, RegistrationStep
<1>5. UNCHANGED <<composeVars, call>> /\ late' \subseteq late
  BY DEF RegisterLate
<1>6. TypeOK'
  BY <1>4, <1>5 DEF IInv, TypeOK, RegType, composeVars, Active
<1>7. \A m \in Compositions : Composing(m)'
  BY <1>4, <1>5, OthersStay DEF composeVars
<1>8. CallsAnswerable' /\ ListedIsServed'
  BY <1>4, <1>5, CallsStay DEF IInv
<1> QED
  BY <1>4, <1>6, <1>7, <1>8 DEF IInv

LEMMA BeginKeeps ==
  ASSUME MountAssumption, IInv, NEW m \in Compositions, NEW parent \in Servers,
         NEW child \in Servers, NEW prefix \in MountPrefixes, NEW policy \in Policies,
         Begin(m, parent, child, prefix, policy)
  PROVE  IInv'
<1> DEFINE new == [parent |-> parent, child |-> child, prefix |-> prefix, policy |-> policy]
<1>1. /\ new \in Job /\ new.parent = parent /\ new.child = child /\ parent # child
      /\ phase' = [phase EXCEPT ![m] = "naming"]
      /\ job' = [job EXCEPT ![m] = new]
      /\ had' = [had EXCEPT ![m] = [k \in KindSet |-> Len(reg[parent][k])]]
      /\ phase[m] = "idle"
      /\ UNCHANGED <<reg, late, turn, taken, items, call>>
  BY DEF Begin, Accepted, Job, MountAssumption
<1> HIDE DEF new
<1>2. TypeOK /\ RegType' /\ Grows
  BY <1>1, UnchangedGrows DEF IInv
<1>3. [k \in KindSet |-> Len(reg[parent][k])] \in [KindSet -> Nat]
  BY <1>2 DEF TypeOK
<1>4. TypeOK'
  <2>1. \A n \in Compositions : Active(n)' =>
          /\ job'[n].parent \in Servers /\ job'[n].child \in Servers
          /\ job'[n].parent # job'[n].child
    BY <1>1, <1>2 DEF TypeOK, Active
  <2>2. /\ phase' \in [Compositions -> {"idle", "naming", "composing", "ok", "failed"}]
        /\ job' \in [Compositions -> Job]
        /\ had' \in [Compositions -> [KindSet -> Nat]]
    BY <1>1, <1>2, <1>3 DEF TypeOK
  <2> QED
    BY <1>1, <1>2, <2>1, <2>2 DEF TypeOK
<1>5. \A n \in Compositions \ {m} : Composing(n)'
  BY <1>1, <1>2, OthersStay DEF TypeOK
<1>6. Composing(m)'
  <2>1. /\ phase'[m] = "naming" /\ job'[m].parent = parent /\ turn'[m] = turn[m]
        /\ had'[m] = [k \in KindSet |-> Len(reg[parent][k])]
    BY <1>1, <1>2 DEF TypeOK
  <2>2. turn'[m] = 0
    BY <1>1, <2>1 DEF IInv, Composing, AtIncludedKind
  <2>3. \A k \in KindSet : ~ NamesTaken(m, k)'
    BY <2>1, <2>2, KindsCover DEF NamesTaken
  <2>4. \A k \in KindSet : had'[m][k] <= Len(reg'[parent][k])
    BY <1>1, <1>2, <2>1 DEF TypeOK
  <2> QED
    BY <2>1, <2>2, <2>3, <2>4 DEF Composing, FirstOnesTaken, AtIncludedKind, ItemsListed
<1>7. Rooted' /\ CallsAnswerable' /\ ListedIsServed'
  BY <1>1, <1>2, CallsStay DEF IInv, Rooted
<1> QED
  BY <1>4, <1>5, <1>6, <1>7 DEF IInv

LEMMA TakeNamesKeeps ==
  ASSUME IInv, NEW m \in Compositions, TakeNames(m)
  PROVE  IInv'
<1>1. PICK j \in DOMAIN Kinds :
        /\ IsNext(j, turn[m])
        /\ taken' = [taken EXCEPT ![m][Kinds[j]] = KeysOf(reg[job[m].parent][Kinds[j]])]
        /\ turn' = [turn EXCEPT ![m] = j]
  BY DEF TakeNames
<1>2. phase[m] = "naming" /\ UNCHANGED <<reg, late, phase, job, items, had, call>>
  BY DEF TakeNames
<1>3. TypeOK /\ RegType' /\ Grows /\ j \in 1 .. 4 /\ Kinds[j] \in KindSet
  BY <1>2, UnchangedGrows, KindsCover DEF IInv
<1>4. job[m].parent \in Servers
  BY <1>2, <1>3 DEF TypeOK, Active
<1>5. PICK names : names = KeysOf(reg[job[m].parent][Kinds[j]])
  OBVIOUS
<1>6. names \in SUBSET Key
  <2>1. reg[job[m].parent][Kinds[j]] \in Seq(Component)
    BY <1>3, <1>4 DEF TypeOK
  <2> QED
    BY <1>5, <2>1, KeysAreKeys
<1>7. /\ taken' = [taken EXCEPT ![m][Kinds[j]] = names]
      /\ taken'[m][Kinds[j]] = names
      /\ \A k \in KindSet : k # Kinds[j] => taken'[m][k] = taken[m][k]
      /\ \A n \in Compositions : n # m => taken'[n] = taken[n] /\ turn'[n] = turn[n]
      /\ turn'[m] = j
  BY <1>1, <1>3, <1>5 DEF TypeOK
<1>8. TypeOK'
  <2>1. taken' \in [Compositions -> [KindSet -> SUBSET Key]]
    BY <1>3, <1>6, <1>7 DEF TypeOK
  <2>2. turn' \in [Compositions -> 0 .. Len(Kinds)]
    BY <1>1, <1>3, KindsCover DEF TypeOK
  <2> QED
    BY <1>2, <1>3, <2>1, <2>2 DEF TypeOK, Active
<1>9. \A n \in Compositions \ {m} : Composing(n)'
  BY <1>2, <1>3, <1>7, OthersStay
<1>10. Composing(m)'
  <2>1. SUFFICES ASSUME NEW k \in KindSet
                 PROVE  /\ had[m][k] <= Len(reg[job[m].parent][k])
                        /\ NamesTaken(m, k)' => \A i \in 1 .. had[m][k] :
                                            reg[job[m].parent][k][i].key \in taken'[m][k]
    BY <1>2 DEF Composing, FirstOnesTaken, AtIncludedKind, ItemsListed, Active
  <2>2. /\ had[m][k] <= Len(reg[job[m].parent][k])
        /\ NamesTaken(m, k) => \A i \in 1 .. had[m][k] : reg[job[m].parent][k][i].key \in taken[m][k]
    BY <1>2, SMTT(30) DEF IInv, Composing, FirstOnesTaken, Active
  <2>3. CASE k = Kinds[j]
    <3>1. reg[job[m].parent][k] \in Seq(Component) /\ had[m][k] \in Nat
      BY <1>3, <1>4 DEF TypeOK
    <3>2. \A i \in 1 .. had[m][k] : i \in DOMAIN reg[job[m].parent][k]
      BY <2>2, <3>1
    <3> QED
      BY <1>5, <1>7, <2>2, <2>3, <3>2 DEF KeysOf
  <2>4. CASE k # Kinds[j]
    <3>1. ASSUME NamesTaken(m, k)' PROVE NamesTaken(m, k)
      <4>1. k \in Included /\ phase[m] = "naming"
        BY <1>2, <3>1 DEF NamesTaken
      <4>2. PICK n \in DOMAIN Kinds : n <= j /\ Kinds[n] = k
        BY <1>2, <1>7, <3>1 DEF NamesTaken
      <4>3. n <= turn[m]
        <5>1. n < j /\ n \in 1 .. 4 /\ j \in 1 .. 4 /\ turn[m] \in Nat
          <6>1. n \in 1 .. 4 /\ j \in 1 .. 4 /\ n # j
            BY <1>3, <2>4, <4>2, KindsCover
          <6>2. turn[m] \in Nat
            BY <1>3, TurnIsNat
          <6> QED
            BY <4>2, <6>1, <6>2
        <5>2. n > turn[m] => n \in Following(turn[m])
          BY <4>1, <4>2 DEF Following
        <5>3. n \in Following(turn[m]) => j <= n
          BY <1>1 DEF IsNext
        <5> QED
          BY <5>1, <5>2, <5>3
      <4> QED
        BY <4>1, <4>2, <4>3 DEF NamesTaken
    <3> QED
      BY <1>7, <2>2, <2>4, <3>1
  <2> QED
    BY <2>3, <2>4
<1>11. Rooted' /\ CallsAnswerable' /\ ListedIsServed'
  BY <1>2, <1>3, CallsStay DEF IInv, Rooted
<1> QED
  BY <1>8, <1>9, <1>10, <1>11 DEF IInv

LEMMA ListChildKeeps ==
  ASSUME IInv, NEW m \in Compositions, ListChild(m)
  PROVE  IInv'
<1>1. PICK j \in DOMAIN Kinds :
        /\ \/ phase[m] = "naming" /\ Following(turn[m]) = {} /\ IsNext(j, 0)
           \/ phase[m] = "composing" /\ items[m] = << >> /\ IsNext(j, turn[m])
        /\ items' = [items EXCEPT ![m] =
                       [i \in DOMAIN reg[job[m].child][Kinds[j]] |->
                          reg[job[m].child][Kinds[j]][i].key]]
        /\ turn' = [turn EXCEPT ![m] = j]
  BY DEF ListChild
<1>2. /\ phase' = [phase EXCEPT ![m] = "composing"]
      /\ UNCHANGED <<reg, late, job, taken, had, call>>
  BY DEF ListChild
<1>3. TypeOK /\ RegType' /\ Grows /\ j \in 1 .. 4 /\ Kinds[j] \in KindSet /\ Active(m)
  BY <1>1, <1>2, UnchangedGrows, KindsCover DEF IInv, Active
<1>4. job[m].child \in Servers /\ Kinds[j] \in Included
  BY <1>1, <1>3 DEF TypeOK, IsNext, Following
<1>5. PICK list \in Seq(Component) : list = reg[job[m].child][Kinds[j]]
  BY <1>3, <1>4 DEF TypeOK
<1>6. PICK new : new = [i \in DOMAIN list |-> list[i].key]
  OBVIOUS
<1>7. /\ new \in Seq(Key)
      /\ \A i \in 1 .. Len(new) : new[i] \in KeysOf(list)
  <2>1. \A i \in 1 .. Len(list) : list[i].key \in Key /\ list[i].key \in KeysOf(list)
    <3>1. \A i \in 1 .. Len(list) : i \in DOMAIN list
      OBVIOUS
    <3> QED
      BY <3>1, KeysAreKeys DEF KeysOf
  <2>2. DOMAIN list = 1 .. Len(list) /\ Len(list) \in Nat
    OBVIOUS
  <2>3. new \in Seq(Key) /\ Len(new) = Len(list)
    BY <1>6, <2>1, <2>2
  <2> QED
    BY <1>6, <2>1, <2>2, <2>3
<1>8. /\ items' = [items EXCEPT ![m] = new]
      /\ items'[m] = new /\ turn'[m] = j /\ phase'[m] = "composing"
      /\ \A n \in Compositions : n # m =>
           items'[n] = items[n] /\ turn'[n] = turn[n] /\ phase'[n] = phase[n]
  BY <1>1, <1>2, <1>3, <1>5, <1>6 DEF TypeOK
<1>9. TypeOK'
  <2>1. items' \in [Compositions -> Seq(Key)]
    BY <1>3, <1>7, <1>8 DEF TypeOK
  <2>2. /\ turn' \in [Compositions -> 0 .. Len(Kinds)]
        /\ phase' \in [Compositions -> {"idle", "naming", "composing", "ok", "failed"}]
    BY <1>1, <1>2, <1>3, KindsCover DEF TypeOK
  <2>3. \A n \in Compositions : Active(n)' => Active(n)
    BY <1>3, <1>8 DEF Active
  <2> QED
    BY <1>2, <1>3, <2>1, <2>2, <2>3 DEF TypeOK
<1>10. \A n \in Compositions \ {m} : Composing(n)'
  BY <1>2, <1>3, <1>8, OthersStay
<1>11. Composing(m)'
  <2>1. FirstOnesTaken(m)'
    <3>1. ASSUME NEW k \in KindSet, NamesTaken(m, k)' PROVE NamesTaken(m, k)
      <4>1. CASE phase[m] = "composing"
        BY <3>1, <4>1 DEF NamesTaken
      <4>2. CASE phase[m] = "naming" /\ Following(turn[m]) = {}
        <5>1. PICK n \in 1 .. 4 : Kinds[n] = k
          BY KindsCover
        <5>2. n <= turn[m]
          <6>1. n \in DOMAIN Kinds /\ Kinds[n] \in Included
            BY <3>1, <5>1, KindsCover DEF NamesTaken
          <6>2. ~ n > turn[m]
            BY <4>2, <6>1 DEF Following
          <6>3. turn[m] \in Nat
            BY <1>3, TurnIsNat
          <6> QED
            BY <6>2, <6>3
        <5> QED
          BY <3>1, <5>1, <5>2, KindsCover DEF NamesTaken
      <4> QED
        BY <1>1, <4>1, <4>2
    <3> QED
      BY <1>2, <1>3, <3>1 DEF IInv, Composing, FirstOnesTaken
  <2>2. AtIncludedKind(m)'
    BY <1>3, <1>4, <1>8, KindsCover DEF AtIncludedKind
  <2>3. ItemsListed(m)'
    BY <1>2, <1>5, <1>7, <1>8 DEF ItemsListed
  <2> QED
    BY <2>1, <2>2, <2>3 DEF Composing
<1>12. Rooted' /\ CallsAnswerable' /\ ListedIsServed'
  BY <1>2, <1>3, CallsStay DEF IInv, Rooted
<1> QED
  BY <1>9, <1>10, <1>11, <1>12 DEF IInv

\* Returning leaves nothing to be kept.
LEMMA ReturnKeeps ==
  ASSUME IInv, NEW m \in Compositions, NEW outcome \in {"ok", "failed"},
         Return(m, outcome), UNCHANGED <<reg, late, call>>
  PROVE  IInv'
<1>1. /\ phase' = [phase EXCEPT ![m] = outcome]
      /\ job' = [job EXCEPT ![m] = NoJob]
      /\ turn' = [turn EXCEPT ![m] = 0]
      /\ taken' = [taken EXCEPT ![m] = [k \in KindSet |-> {}]]
      /\ items' = [items EXCEPT ![m] = << >>]
      /\ had' = [had EXCEPT ![m] = [k \in KindSet |-> 0]]
  BY DEF Return
<1>2. TypeOK /\ RegType' /\ Grows
  BY UnchangedGrows DEF IInv
<1>3. phase'[m] = outcome
  BY <1>1, <1>2 DEF TypeOK
<1>4. \A n \in Compositions : n # m =>
        /\ phase'[n] = phase[n] /\ job'[n] = job[n] /\ turn'[n] = turn[n]
        /\ had'[n] = had[n] /\ taken'[n] = taken[n] /\ items'[n] = items[n]
  BY <1>1, <1>2 DEF TypeOK
<1>5. TypeOK'
  <2>1. NoJob \in Job /\ << >> \in Seq(Key)
    BY DEF NoJob, Job, Policies, Key
  <2>2. /\ phase' \in [Compositions -> {"idle", "naming", "composing", "ok", "failed"}]
        /\ job' \in [Compositions -> Job]
        /\ turn' \in [Compositions -> 0 .. Len(Kinds)]
    BY <1>1, <1>2, <2>1, KindsCover DEF TypeOK
  <2>3. /\ taken' \in [Compositions -> [KindSet -> SUBSET Key]]
        /\ items' \in [Compositions -> Seq(Key)]
        /\ had' \in [Compositions -> [KindSet -> Nat]]
    BY <1>1, <1>2, <2>1 DEF TypeOK
  <2>4. \A n \in Compositions : Active(n)' => Active(n) /\ job'[n] = job[n]
    BY <1>3, <1>4 DEF Active
  <2> QED
    BY <1>2, <2>2, <2>3, <2>4 DEF TypeOK
<1>6. \A n \in Compositions \ {m} : Composing(n)'
  BY <1>2, <1>4, OthersStay
<1>7. Composing(m)'
  BY <1>3 DEF Composing, FirstOnesTaken, AtIncludedKind, ItemsListed, Active
<1>8. Rooted' /\ CallsAnswerable' /\ ListedIsServed'
  BY <1>2, CallsStay DEF IInv, Rooted
<1> QED
  BY <1>5, <1>6, <1>7, <1>8 DEF IInv

\* A component registered by a composition, and the item it was made of.
ItemComponent(m) ==
  [key |-> Prefixed(m, Head(items[m])), to |-> job[m].child,
   origin |-> Origin(m, Head(items[m]))]

LEMMA ItemIsBacked ==
  ASSUME IInv, NEW m \in Compositions, phase[m] = "composing", items[m] # << >>
  PROVE  /\ job[m].parent \in Servers /\ Kinds[turn[m]] \in KindSet
         /\ Prefixed(m, Head(items[m])) \in Key
         /\ ItemComponent(m) \in Component
         /\ ItemComponent(m).origin \in KeysOf(reg[ItemComponent(m).to][Kinds[turn[m]]])
         /\ Kinds[turn[m]] \in Included
<1>1. /\ job[m].parent \in Servers /\ job[m].child \in Servers
      /\ job[m] \in Job /\ items[m] \in Seq(Key)
  BY DEF IInv, TypeOK, Active
<1>2. Head(items[m]) = items[m][1] /\ 1 \in 1 .. Len(items[m]) /\ Head(items[m]) \in Key
  BY <1>1
<1>3. turn[m] \in DOMAIN Kinds /\ Kinds[turn[m]] \in Included
  BY DEF IInv, Composing, AtIncludedKind
<1>4. Kinds[turn[m]] \in KindSet
  BY <1>3, KindsCover
<1>5. Head(items[m]) \in KeysOf(reg[job[m].child][Kinds[turn[m]]])
  BY <1>2 DEF IInv, Composing, ItemsListed
<1>6. job[m].prefix \in Key
  BY <1>1 DEF Job
<1>7. Prefixed(m, Head(items[m])) \in Key
  BY <1>2, <1>6 DEF Prefixed, Key
<1>8. ItemComponent(m) \in Component
  BY <1>1, <1>2, <1>7 DEF ItemComponent, Component, Origin
<1> QED
  BY <1>1, <1>3, <1>4, <1>5, <1>7, <1>8 DEF ItemComponent, Origin

\* ComposeItem that neither fails nor skips.
Registers(m) ==
  LET kind == Kinds[turn[m]]
      name == Prefixed(m, Head(items[m]))
  IN /\ Clashes(m, kind, name) => job[m].policy = "overwrite"
     /\ items' = [items EXCEPT ![m] = Tail(@)]
     /\ taken' = [taken EXCEPT ![m][kind] = @ \cup {name}]
     /\ reg' = [reg EXCEPT ![job[m].parent][kind] = Registered(@, kind, ItemComponent(m))]
     /\ UNCHANGED <<phase, job, turn, had, late, call>>

LEMMA ComposeItemCases ==
  ASSUME NEW m \in Compositions, ComposeItem(m)
  PROVE  /\ phase[m] = "composing" /\ items[m] # << >>
         /\ \/ Return(m, "failed") /\ UNCHANGED <<reg, late, call>>
            \/ /\ items' = [items EXCEPT ![m] = Tail(@)]
               /\ UNCHANGED <<reg, late, phase, job, turn, taken, had, call>>
            \/ Registers(m)
BY DEF ComposeItem, Registers, ItemComponent

LEMMA ItemsShorten ==
  ASSUME IInv, NEW m \in Compositions, items[m] # << >>, items' = [items EXCEPT ![m] = Tail(@)]
  PROVE  /\ items' \in [Compositions -> Seq(Key)]
         /\ \A n \in Compositions : n # m => items'[n] = items[n]
         /\ \A i \in 1 .. Len(items'[m]) :
              \E n \in 1 .. Len(items[m]) : items'[m][i] = items[m][n]
<1>1. items \in [Compositions -> Seq(Key)]
  BY DEF IInv, TypeOK
<1>2. PICK old \in Seq(Key) : old = items[m]
  BY <1>1
<1>3. /\ Tail(old) \in Seq(Key) /\ Len(Tail(old)) = Len(old) - 1
      /\ \A i \in 1 .. Len(Tail(old)) : Tail(old)[i] = old[i + 1]
  BY <1>2
<1>4. \A i \in 1 .. Len(Tail(old)) : i + 1 \in 1 .. Len(old)
  BY <1>2, <1>3
<1>5. items'[m] = Tail(old)
  BY <1>1, <1>2
<1> QED
  BY <1>1, <1>2, <1>3, <1>4, <1>5

LEMMA ComposeItemKeeps ==
  ASSUME IInv, NEW m \in Compositions, ComposeItem(m)
  PROVE  IInv'
<1>1. phase[m] = "composing" /\ items[m] # << >>
  BY ComposeItemCases
<1>2. CASE Return(m, "failed") /\ UNCHANGED <<reg, late, call>>
  BY <1>2, ReturnKeeps
<1>3. CASE /\ items' = [items EXCEPT ![m] = Tail(@)]
           /\ UNCHANGED <<reg, late, phase, job, turn, taken, had, call>>
  <2>1. TypeOK /\ RegType' /\ Grows
    BY <1>3, UnchangedGrows DEF IInv
  <2>2. TypeOK'
    BY <1>1, <1>3, <2>1, ItemsShorten DEF TypeOK, Active
  <2>3. \A n \in Compositions \ {m} : Composing(n)'
    BY <1>1, <1>3, <2>1, ItemsShorten, OthersStay
  <2>4. Composing(m)'
    <3>1. \A i \in 1 .. Len(items'[m]) :
            \E n \in 1 .. Len(items[m]) : items'[m][i] = items[m][n]
      BY <1>1, <1>3, ItemsShorten
    <3> QED
      BY <1>3, <2>1, <3>1, ComposingStays DEF IInv
  <2>5. Rooted' /\ CallsAnswerable' /\ ListedIsServed'
    BY <1>3, <2>1, CallsStay DEF IInv, Rooted
  <2> QED
    BY <2>2, <2>3, <2>4, <2>5 DEF IInv
<1>4. CASE Registers(m)
  <2> DEFINE kind == Kinds[turn[m]]
             name == Prefixed(m, Head(items[m]))
  <2>1. /\ items' = [items EXCEPT ![m] = Tail(@)]
        /\ taken' = [taken EXCEPT ![m][kind] = @ \cup {name}]
        /\ reg' = [reg EXCEPT ![job[m].parent][kind] = Registered(@, kind, ItemComponent(m))]
        /\ UNCHANGED <<phase, job, turn, had, late, call>>
    BY <1>4 DEF Registers
  <2>2. /\ job[m].parent \in Servers /\ kind \in KindSet /\ name \in Key
        /\ ItemComponent(m) \in Component
        /\ ItemComponent(m).origin \in KeysOf(reg[ItemComponent(m).to][kind])
    BY <1>1, ItemIsBacked
  <2> HIDE DEF kind, name
  <2>3. TypeOK /\ RegType /\ Rooted
    BY DEF IInv, TypeOK, RegType
  <2>4. RegType' /\ Grows /\ Rooted'
    BY <2>1, <2>2, <2>3, RegistrationStep
  <2>5. /\ taken' \in [Compositions -> [KindSet -> SUBSET Key]]
        /\ \A n \in Compositions : n # m => taken'[n] = taken[n]
        /\ \A k \in KindSet : taken[m][k] \subseteq taken'[m][k]
    BY <2>1, <2>2, <2>3 DEF TypeOK
  <2>6. /\ items' \in [Compositions -> Seq(Key)]
        /\ \A n \in Compositions : n # m => items'[n] = items[n]
        /\ \A i \in 1 .. Len(items'[m]) :
             \E n \in 1 .. Len(items[m]) : items'[m][i] = items[m][n]
    BY <1>1, <2>1, ItemsShorten
  <2>7. TypeOK'
    BY <2>1, <2>3, <2>4, <2>5, <2>6 DEF TypeOK, RegType, Active
  <2>8. \A n \in Compositions \ {m} : Composing(n)'
    BY <2>1, <2>4, <2>5, <2>6, OthersStay
  <2>9. Composing(m)'
    BY <2>1, <2>3, <2>4, <2>5, <2>6, ComposingStays DEF IInv
  <2>10. CallsAnswerable' /\ ListedIsServed'
    BY <2>1, <2>3, <2>4, CallsStay DEF IInv
  <2> QED
    BY <2>4, <2>7, <2>8, <2>9, <2>10 DEF IInv
<1> QED
  BY <1>2, <1>3, <1>4, ComposeItemCases

LEMMA FinishKeeps ==
  ASSUME IInv, NEW m \in Compositions, Finish(m)
  PROVE  IInv'
BY ReturnKeeps DEF Finish

\* Steps of a call leave everything else alone.
LEMMA CallStepKeeps ==
  ASSUME IInv, UNCHANGED <<reg, late, composeVars>>,
         NEW c \in Callers, NEW new \in ClientCall, call' = [call EXCEPT ![c] = new],
         new.status = "open" => new.at \in Servers,
         new.listed => /\ new.status # "unknown"
                       /\ new.status = "open" => CanAnswer(new.at, new.kind, new.key)
  PROVE  IInv'
<1>1. TypeOK /\ RegType' /\ Grows /\ UNCHANGED <<phase, job, turn, taken, items, had>>
  BY UnchangedGrows DEF IInv, composeVars
<1>2. call'[c] = new /\ \A d \in Callers : d # c => call'[d] = call[d]
  BY <1>1 DEF TypeOK
<1>3. TypeOK'
  <2>1. call' \in [Callers -> ClientCall]
    BY <1>1 DEF TypeOK
  <2>2. \A d \in Callers : call'[d].status = "open" => call'[d].at \in Servers
    BY <1>1, <1>2 DEF TypeOK
  <2> QED
    BY <1>1, <2>1, <2>2 DEF TypeOK, Active
<1>4. \A m \in Compositions : Composing(m)'
  BY <1>1, OthersStay
<1>5. Rooted'
  BY DEF IInv, Rooted
<1>6. CallsAnswerable'
  <2>1. ASSUME NEW d \in Callers, call'[d].listed, call'[d].status = "open"
        PROVE  CanAnswer(call'[d].at, call'[d].kind, call'[d].key)
    BY <1>2, <2>1 DEF IInv, CallsAnswerable
  <2> QED
    BY <2>1 DEF CallsAnswerable, CanAnswer
<1>7. ListedIsServed'
  BY <1>2 DEF IInv, ListedIsServed
<1> QED
  BY <1>3, <1>4, <1>5, <1>6, <1>7 DEF IInv

LEMMA RequestKeeps ==
  ASSUME MountAssumption, IInv, NEW c \in Callers, NEW s \in Servers,
         NEW kind \in {"tool", "resource"}, NEW key \in Guesses,
         Request(c, s, kind, key, FALSE)
  PROVE  IInv'
<1> DEFINE new == [status |-> "open", listed |-> FALSE, at |-> s, kind |-> kind, key |-> key]
<1>1. new \in ClientCall
  BY DEF MountAssumption, ClientCall, KindSet
<1>2. call' = [call EXCEPT ![c] = new] /\ UNCHANGED <<reg, late, composeVars>>
  BY DEF Request
<1> QED
  BY <1>1, <1>2, CallStepKeeps

LEMMA CallKeeps ==
  ASSUME IInv, NEW c \in Callers, NEW s \in Servers, NEW kind \in KindSet,
         NEW i \in DOMAIN reg[s][kind], Call(c, s, kind, i)
  PROVE  IInv'
<1> DEFINE listed == reg[s][kind][i].key
           new(asked, key) ==
             [status |-> "open", listed |-> TRUE, at |-> s, kind |-> asked, key |-> key]
<1>1. reg[s][kind] \in Seq(Component) /\ listed \in KeysOf(reg[s][kind])
  BY DEF IInv, TypeOK, KeysOf
<1>2. listed \in Key
  BY <1>1, KeysAreKeys
<1> HIDE DEF listed
<1>3. SUFFICES ASSUME NEW asked \in KindSet \ {"template"}, NEW key \in Key,
                      Request(c, s, asked, key, TRUE), CanAnswer(s, asked, key)
               PROVE  IInv'
  <2>1. CASE kind # "template" /\ Request(c, s, kind, listed, TRUE)
    BY <1>1, <1>2, <1>3, <2>1 DEF CanAnswer
  <2>2. CASE /\ kind = "template"
             /\ \E values \in Valuations(listed, Values) :
                  Request(c, s, "resource", Expanded(listed, values), TRUE)
    <3>1. PICK values \in Valuations(listed, Values) :
            Request(c, s, "resource", Expanded(listed, values), TRUE)
      BY <2>2
    <3>2. values \in [Variables \cap Range(listed) -> Variables \cup Values]
      BY DEF Valuations
    <3>3. Expanded(listed, values) \in Key /\ Matches(listed, Expanded(listed, values))
      BY <1>2, <3>2, ExpandedIsKey, ExpandedMatches
    <3>4. CanAnswer(s, "resource", Expanded(listed, values))
      BY <1>1, <2>2, <3>3 DEF CanAnswer
    <3> QED
      BY <1>3, <3>1, <3>3, <3>4 DEF KindSet
  <2> QED
    BY <2>1, <2>2 DEF Call, listed
<1>4. new(asked, key) \in ClientCall
  BY DEF ClientCall
<1>5. call' = [call EXCEPT ![c] = new(asked, key)] /\ UNCHANGED <<reg, late, composeVars>>
  BY <1>3 DEF Request
<1> QED
  BY <1>3, <1>4, <1>5, CallStepKeeps

\* A component that delegates, and what its child is asked.
LEMMA HopKeeps ==
  ASSUME MountAssumption, IInv, NEW c \in Callers, Hop(c)
  PROVE  IInv'
<1> DEFINE at == call[c].at
           key == call[c].key
           kind == LookedUp(at, call[c].kind, key)
           list == reg[at][kind]
<1>1. /\ call[c] \in ClientCall /\ call[c].status = "open" /\ at \in Servers /\ key \in Key
      /\ call[c].kind \in KindSet \ {"template"} /\ kind \in KindSet
      /\ kind # "template" => kind = call[c].kind
      /\ kind = "template" => call[c].kind = "resource"
  <2>1. call[c] \in ClientCall /\ call[c].status = "open" /\ at \in Servers
    BY Zenon DEF IInv, TypeOK, Hop
  <2> QED
    BY <2>1 DEF ClientCall, LookedUp, KindSet
<1>2. list \in Seq(Component)
  BY <1>1 DEF IInv, TypeOK
<1>3. UNCHANGED <<reg, late, composeVars>>
  BY Zenon DEF Hop
<1>4. \/ /\ \A i \in DOMAIN list : ~ Answers(kind, list[i], key)
         /\ call' = [call EXCEPT ![c].status = "unknown"]
      \/ \E i \in DOMAIN list :
           /\ Answers(kind, list[i], key)
           /\ \/ call' = [call EXCEPT ![c] = NoCall]
              \/ /\ list[i].to # NoServer /\ kind # "template"
                 /\ call' = [call EXCEPT ![c].at = list[i].to, ![c].key = list[i].origin]
              \/ /\ list[i].to # NoServer /\ kind = "template"
                 /\ \E values \in Valuations(list[i].key, Range(key)) :
                      call' = [call EXCEPT ![c].at = list[i].to,
                                           ![c].key = Expanded(list[i].origin, values)]
  BY Zenon DEF Hop
<1>5. CASE /\ \A i \in DOMAIN list : ~ Answers(kind, list[i], key)
           /\ call' = [call EXCEPT ![c].status = "unknown"]
  <2>1. ~ call[c].listed
    <3>1. SUFFICES ASSUME CanAnswer(at, call[c].kind, key) PROVE FALSE
      BY <1>1, SMTT(30) DEF IInv, CallsAnswerable
    <3>2. CASE kind # "template"
      <4>1. key \in KeysOf(list)
        BY <1>1, <3>1, <3>2 DEF CanAnswer, LookedUp
      <4> QED
        BY <1>5, <3>2, <4>1 DEF KeysOf, Answers
    <3>3. CASE kind = "template"
      <4>1. key \notin KeysOf(reg[at].resource) /\ list = reg[at].template
        BY <1>1, <3>3 DEF LookedUp
      <4>2. PICK template \in KeysOf(list) : Matches(template, key)
        BY <1>1, <3>1, <3>3, <4>1 DEF CanAnswer
      <4> QED
        BY <1>5, <3>3, <4>2 DEF KeysOf, Answers
    <3> QED
      BY <3>2, <3>3
  <2> DEFINE new == [call[c] EXCEPT !.status = "unknown"]
  <2>2. new \in ClientCall /\ new.status = "unknown" /\ new.listed = call[c].listed
    BY <1>1 DEF ClientCall
  <2>3. call' = [call EXCEPT ![c] = new]
    BY <1>5
  <2> HIDE DEF new
  <2> QED
    BY <1>3, <2>1, <2>2, <2>3, CallStepKeeps
<1>6. CASE call' = [call EXCEPT ![c] = NoCall]
  <2>1. NoCall \in ClientCall /\ NoCall.status = "idle"
    BY DEF NoCall, ClientCall, KindSet, Key
  <2> QED
    BY <1>3, <1>6, <2>1, CallStepKeeps
<1>7. ASSUME NEW to \in Servers, NEW next \in Key, CanAnswer(to, call[c].kind, next),
             call' = [call EXCEPT ![c].at = to, ![c].key = next]
      PROVE  IInv'
  <2> DEFINE new == [call[c] EXCEPT !.at = to, !.key = next]
  <2>1. /\ new \in ClientCall /\ new.at = to /\ new.key = next /\ new.kind = call[c].kind
        /\ new.status = "open"
    BY <1>1 DEF ClientCall
  <2>2. call' = [call EXCEPT ![c] = new]
    BY <1>7 DEF IInv, TypeOK
  <2> HIDE DEF new
  <2> QED
    BY <1>3, <1>7, <2>1, <2>2, CallStepKeeps
<1>8. ASSUME NEW i \in DOMAIN list, list[i].to # NoServer
      PROVE  /\ list[i].to \in Servers /\ list[i].origin \in Key
             /\ list[i].origin \in KeysOf(reg[list[i].to][kind])
  <2>1. i \in 1 .. Len(list) /\ list[i] \in Component
    BY <1>2
  <2> QED
    BY <1>1, <1>8, <2>1, Zenon DEF IInv, Rooted, Component
<1>9. ASSUME NEW i \in DOMAIN list, list[i].to # NoServer, kind # "template",
             call' = [call EXCEPT ![c].at = list[i].to, ![c].key = list[i].origin]
      PROVE  IInv'
  <2>1. CanAnswer(list[i].to, call[c].kind, list[i].origin)
    BY <1>1, <1>8, <1>9, Zenon DEF CanAnswer
  <2> QED
    BY <1>7, <1>8, <1>9, <2>1, Zenon
<1>10. ASSUME NEW i \in DOMAIN list, list[i].to # NoServer, kind = "template",
              NEW values \in Valuations(list[i].key, Range(key)),
              call' = [call EXCEPT ![c].at = list[i].to,
                                   ![c].key = Expanded(list[i].origin, values)]
       PROVE  IInv'
  <2>1. Range(key) \subseteq Variables \cup Values
    BY <1>1 DEF Range, Key
  <2>2. values \in [Variables \cap Range(list[i].key) -> Variables \cup Values]
    BY <2>1, Zenon DEF Valuations
  <2>3. /\ Expanded(list[i].origin, values) \in Key
        /\ Matches(list[i].origin, Expanded(list[i].origin, values))
    BY <1>8, <1>10, <2>2, ExpandedIsKey, ExpandedMatches, Zenon
  <2>4. CanAnswer(list[i].to, call[c].kind, Expanded(list[i].origin, values))
    BY <1>1, <1>8, <1>10, <2>3, Zenon DEF CanAnswer
  <2> QED
    BY <1>7, <1>8, <1>10, <2>3, <2>4, Zenon
<1> QED
  BY <1>4, <1>5, <1>6, <1>9, <1>10, Zenon

LEMMA IInvKept == ASSUME MountAssumption, IInv, [Next]_vars PROVE IInv'
<1>1. ASSUME UNCHANGED vars PROVE IInv'
  <2>1. TypeOK'
    BY <1>1 DEF vars, IInv, TypeOK, Active
  <2>2. RegType' /\ Grows
    BY <1>1, UnchangedGrows DEF vars, IInv
  <2>3. \A m \in Compositions : Composing(m)'
    BY <1>1, <2>2, OthersStay DEF vars
  <2>4. Rooted' /\ CallsAnswerable' /\ ListedIsServed'
    BY <1>1, <2>2, CallsStay DEF vars, IInv, Rooted
  <2> QED
    BY <2>1, <2>3, <2>4 DEF IInv
<1>2. ASSUME NEW l \in late, RegisterLate(l) PROVE IInv'
  BY <1>2, RegisterLateKeeps
<1>3. ASSUME NEW m \in Compositions, NEW parent \in Servers, NEW child \in Servers,
             NEW prefix \in MountPrefixes, NEW policy \in Policies,
             Begin(m, parent, child, prefix, policy)
      PROVE  IInv'
  BY <1>3, BeginKeeps
<1>4. ASSUME NEW m \in Compositions, Compose(m) PROVE IInv'
  BY <1>4, TakeNamesKeeps, ListChildKeeps, ComposeItemKeeps, FinishKeeps DEF Compose
<1>5. ASSUME NEW c \in Callers, NEW s \in Servers, NEW kind \in KindSet,
             NEW i \in DOMAIN reg[s][kind], Call(c, s, kind, i)
      PROVE  IInv'
  BY <1>5, CallKeeps
<1>6. ASSUME NEW c \in Callers, NEW s \in Servers, NEW kind \in {"tool", "resource"},
             NEW key \in Guesses, Request(c, s, kind, key, FALSE)
      PROVE  IInv'
  BY <1>6, RequestKeeps
<1>7. ASSUME NEW c \in Callers, Hop(c) PROVE IInv'
  BY <1>7, HopKeeps
<1> QED
  BY <1>1, <1>2, <1>3, <1>4, <1>5, <1>6, <1>7 DEF Next

LEMMA Inductive == ASSUME MountAssumption PROVE Spec => []IInv
<1>1. Init => IInv
  BY InitHolds
<1>2. IInv /\ [Next]_vars => IInv'
  BY IInvKept
<1> QED
  BY <1>1, <1>2, PTL DEF Spec

-----------------------------------------------------------------------------
(* The theorems.                                                           *)

\* Variables keep their types, and a composition that is under way has two
\* different servers (mount.go:131-139).
THEOREM TypeCorrect == Spec => []TypeOK
<1>1. IInv => TypeOK
  BY DEF IInv
<1> QED
  BY <1>1, Inductive, MountAssumption, PTL

\* Whatever is composed, with whatever policy and in whatever order, a name or
\* URI found in a list is answered by a handler (delegate.go:38-71,
\* dispatch.go:207-251).
THEOREM WhatIsListedIsServed == Spec => []ListedIsServed
<1>1. IInv => ListedIsServed
  BY DEF IInv
<1> QED
  BY <1>1, Inductive, MountAssumption, PTL

\* A composition that is not told to overwrite touches nothing that the parent
\* had when it began, though others register and overwrite meanwhile
\* (mount.go:30-35, 223-236).
THEOREM ExistingComponentsStay == Spec => ExistingStays
<1>1. ASSUME IInv, NEW m \in Compositions, ComposeItem(m), job[m].policy # "overwrite",
             NEW k \in KindSet, NEW i \in 1 .. had[m][k]
      PROVE  reg'[job[m].parent][k][i] = reg[job[m].parent][k][i]
  <2>1. phase[m] = "composing" /\ items[m] # << >>
    BY <1>1, ComposeItemCases
  <2>2. CASE reg' = reg
    BY <2>2
  <2>3. CASE Registers(m)
    <3> DEFINE kind == Kinds[turn[m]]
               name == Prefixed(m, Head(items[m]))
               parent == job[m].parent
    <3>1. /\ parent \in Servers /\ kind \in KindSet /\ kind \in Included
          /\ ItemComponent(m) \in Component
      BY <1>1, <2>1, ItemIsBacked
    <3>2. /\ name \notin taken[m][kind]
          /\ reg' = [reg EXCEPT ![parent][kind] = Registered(@, kind, ItemComponent(m))]
          /\ ItemComponent(m).key = name
      BY <1>1, <2>3 DEF Registers, Clashes, ItemComponent
    <3> HIDE DEF kind, name, parent
    <3>3. reg \in [Servers -> [KindSet -> Seq(Component)]]
      BY <1>1 DEF IInv, TypeOK
    <3>4. CASE k # kind
      <4>1. reg'[parent][k] = reg[parent][k]
        BY <3>1, <3>2, <3>3, <3>4
      <4> QED
        BY <4>1 DEF parent
    <3>5. CASE k = kind
      <4>1. /\ had[m][k] <= Len(reg[parent][k])
            /\ \A n \in 1 .. had[m][k] : reg[parent][k][n].key \in taken[m][k]
        BY <1>1, <2>1, <3>1, <3>5 DEF IInv, Composing, FirstOnesTaken, Active, NamesTaken, parent
      <4>2. had[m][k] \in Nat
        BY <1>1 DEF IInv, TypeOK
      <4>3. reg[parent][k] \in Seq(Component)
        BY <3>1, <3>3
      <4>4. i \in 1 .. Len(reg[parent][k]) /\ reg[parent][k][i].key # name
        <5>1. Len(reg[parent][k]) \in Nat
          BY <4>3
        <5> QED
          BY <3>2, <3>5, <4>1, <4>2, <5>1
      <4>5. reg'[parent][k] = Registered(reg[parent][k], kind, ItemComponent(m))
        BY <3>1, <3>2, <3>3, <3>5
      <4>6. reg'[parent][k][i] = reg[parent][k][i]
        BY <3>1, <3>2, <4>3, <4>4, <4>5, RegisteredKeeps
      <4> QED
        BY <4>6 DEF parent
    <3> QED
      BY <3>4, <3>5
  <2> QED
    BY <1>1, <2>2, <2>3, ComposeItemCases
<1>2. IInv /\ [Next]_vars =>
        [\A m \in Compositions : ComposeItem(m) /\ job[m].policy # "overwrite" =>
           \A k \in KindSet : \A i \in 1 .. had[m][k] :
             reg'[job[m].parent][k][i] = reg[job[m].parent][k][i]]_vars
  BY <1>1
<1> QED
  BY <1>2, Inductive, MountAssumption, PTL DEF Spec, ExistingStays

-----------------------------------------------------------------------------
(* The entries of a registry, and those that are chosen of it.              *)

\* The entries of a key; the first of them is the one found.
Keyed(entries, key) == {i \in 1 .. Len(entries) : entries[i].key = key}

LEMMA FindIs ==
  ASSUME NEW entries, NEW key, Len(entries) \in Nat
  PROVE  /\ Known(entries, key) <=> Keyed(entries, key) # {}
         /\ Known(entries, key) => Find(entries, key) \in Keyed(entries, key)
         /\ \A i \in Keyed(entries, key) : Find(entries, key) <= i
<1> DEFINE H == Keyed(entries, key)
<1>1. Find(entries, key) = IF H # {} THEN Min(H) ELSE 0
  BY DEF Find, SelectInSeq, Keyed
<1>2. H \subseteq 1 .. Len(entries)
  BY DEF Keyed
<1> HIDE DEF H
<1>3. H # {} => Min(H) \in H /\ \A i \in H : Min(H) <= i
  BY <1>2, LeastIs
<1>4. H # {} => Min(H) # 0
  BY <1>2, <1>3
<1> QED
  BY <1>1, <1>3, <1>4 DEF Known, H

\* A key that one entry has finds that entry.
LEMMA FoundOnly ==
  ASSUME NEW entries, NEW key, Len(entries) \in Nat, NEW i \in 1 .. Len(entries), entries[i].key = key,
         \A j \in 1 .. Len(entries) : entries[j].key = key => j = i
  PROVE  Known(entries, key) /\ Find(entries, key) = i /\ Entry(entries, key) = entries[i]
<1>1. Keyed(entries, key) = {i}
  BY DEF Keyed
<1> QED
  BY <1>1, FindIs DEF Entry

LEMMA PutNew ==
  ASSUME NEW entries, NEW entry, Len(entries) \in Nat,
         \A j \in 1 .. Len(entries) : entries[j].key # entry.key
  PROVE  Put(entries, entry) = Append(entries, entry)
<1>1. Keyed(entries, entry.key) = {}
  BY DEF Keyed
<1>2. ~Known(entries, entry.key)
  BY <1>1, FindIs
<1> QED
  BY <1>2 DEF Put

\* The places of a subset in their order.
KeptAt(T, n) == [i \in 1 .. n |-> IF i \in T THEN <<i>> ELSE <<>>]
Kept(T, n) == FlattenSeq(KeptAt(T, n))
Chosen(E, T, n) == [j \in 1 .. Len(Kept(T, n)) |-> E[Kept(T, n)[j]]]

LEMMA KeptTyped ==
  ASSUME NEW T, NEW n \in Nat
  PROVE  Kept(T, n) \in Seq(1 .. n)
<1> DEFINE ss == KeptAt(T, n)
<1>1. PICK R : R = Seq(1 .. n)
  OBVIOUS
<1>2. \A i \in 1 .. n : <<i>> \in R /\ <<>> \in R
  <2>1. \A i \in 1 .. n : <<i>> \in Seq(1 .. n) /\ <<>> \in Seq(1 .. n)
    BY OneTyped
  <2> QED
    BY <1>1, <2>1
<1>3. ss = [i \in 1 .. n |-> ss[i]] /\ \A i \in 1 .. n : ss[i] \in R
  BY <1>2 DEF KeptAt
<1> HIDE DEF ss
<1>4. [i \in 1 .. n |-> ss[i]] \in Seq(R)
  BY <1>3
<1>5. ss \in Seq(Seq(1 .. n))
  BY <1>1, <1>3, <1>4
<1> QED
  BY <1>5, FlattenTyped DEF Kept, ss

LEMMA KeptNone == ASSUME NEW T PROVE Kept(T, 0) = <<>>
<1>1. KeptAt(T, 0) = <<>>
  BY DEF KeptAt
<1> QED
  BY <1>1, FlattenEmpty DEF Kept

KeptGrows(T, n) == Kept(T, n + 1) = IF n + 1 \in T THEN Append(Kept(T, n), n + 1) ELSE Kept(T, n)

LEMMA KeptOneMore ==
  ASSUME NEW T, NEW n \in Nat
  PROVE  KeptGrows(T, n)
<1> DEFINE X == KeptAt(T, n + 1)
           S == 1 .. (n + 1)
<1>1. \A i \in 1 .. (n + 1) : X[i] = IF i \in T THEN <<i>> ELSE <<>>
  BY DEF KeptAt
<1>2. \A i \in 1 .. (n + 1) : X[i] \in Seq(S)
  <2>1. \A i \in 1 .. (n + 1) : <<i>> \in Seq(S) /\ <<>> \in Seq(S)
    BY OneTyped
  <2> QED
    BY <1>1, <2>1
<1>3. Firsts(X, n + 1) = KeptAt(T, n + 1)
  BY <1>1 DEF Firsts, KeptAt
<1>4. Firsts(X, n) = KeptAt(T, n)
  <2>1. \A i \in 1 .. n : i \in 1 .. (n + 1)
    OBVIOUS
  <2> QED
    BY <1>1, <2>1 DEF Firsts, KeptAt
<1>5. n + 1 \in 1 .. (n + 1)
  OBVIOUS
<1> HIDE DEF X, S
<1>6. MadeGrows(X, n)
  BY <1>2, MadeOneMore
<1>7. Kept(T, n + 1) = Kept(T, n) \o X[n + 1]
  BY <1>3, <1>4, <1>6 DEF MadeGrows, Made, Kept
<1>8. Kept(T, n) \in Seq(1 .. n)
  BY KeptTyped
<1>9. CASE n + 1 \in T
  <2>1. Kept(T, n) \o <<n + 1>> = Append(Kept(T, n), n + 1)
    <3>1. Kept(T, n) \in Seq(S)
      <4>1. 1 .. n \subseteq S
        BY DEF S
      <4> QED
        BY <1>8, <4>1, SeqMonotonic
    <3> QED
      BY <3>1
  <2> QED
    BY <1>1, <1>5, <1>7, <1>9, <2>1 DEF KeptGrows
<1>10. CASE n + 1 \notin T
  <2>1. Kept(T, n) \o <<>> = Kept(T, n)
    BY <1>8, ConcatEmptySeq
  <2> QED
    BY <1>1, <1>5, <1>7, <1>10, <2>1 DEF KeptGrows
<1> QED
  BY <1>9, <1>10

KeptHolds(T, n) ==
  LET K == Kept(T, n) IN
  /\ Len(K) \in Nat
  /\ \A j \in 1 .. Len(K) : K[j] \in T /\ K[j] \in 1 .. n
  /\ \A i \in 1 .. n : i \in T => \E j \in 1 .. Len(K) : K[j] = i
  /\ \A j, k \in 1 .. Len(K) : K[j] = K[k] => j = k

LEMMA KeptHas ==
  ASSUME NEW T, NEW n \in Nat
  PROVE  KeptHolds(T, n)
<1> DEFINE G == {k \in Nat : KeptHolds(T, k)}
<1>1. 0 \in G
  <2>1. Kept(T, 0) = <<>> /\ Len(<<>>) = 0 /\ 1 .. 0 = {}
    BY KeptNone
  <2> QED
    BY <2>1 DEF KeptHolds
<1>2. ASSUME NEW k \in Nat, k \in G PROVE k + 1 \in G
  <2> DEFINE K == Kept(T, k)
             L == Kept(T, k + 1)
             m == Len(K)
  <2>1. KeptHolds(T, k)
    BY <1>2
  <2>2. L = IF k + 1 \in T THEN Append(K, k + 1) ELSE K
    BY KeptOneMore DEF KeptGrows
  <2>3. K \in Seq(1 .. k) /\ 1 .. k \subseteq 1 .. (k + 1)
    BY KeptTyped
  <2> HIDE DEF K, L
  <2>4. /\ m \in Nat
        /\ \A j \in 1 .. m : K[j] \in T /\ K[j] \in 1 .. k
        /\ \A i \in 1 .. k : i \in T => \E j \in 1 .. m : K[j] = i
        /\ \A j, l \in 1 .. m : K[j] = K[l] => j = l
    BY <2>1 DEF KeptHolds, K
  <2> HIDE DEF m
  <2>5. CASE k + 1 \in T
    <3>1. Append(K, k + 1) = [i \in 1 .. (m + 1) |-> IF i = m + 1 THEN k + 1 ELSE K[i]]
      <4>1. K \in Seq(1 .. (k + 1)) /\ k + 1 \in 1 .. (k + 1)
        BY <2>3, SeqMonotonic
      <4> QED
        BY <4>1, AppendIs DEF m
    <3>2. Len(L) = m + 1 /\ L[m + 1] = k + 1 /\ \A j \in 1 .. m : L[j] = K[j]
      <4>1. m + 1 \in 1 .. (m + 1) /\ \A j \in 1 .. m : j \in 1 .. (m + 1) /\ j # m + 1
        BY <2>4
      <4> QED
        BY <2>2, <2>4, <2>5, <3>1, <4>1
    <3>3. \A j \in 1 .. (m + 1) : j \in 1 .. m \/ j = m + 1
      BY <2>4
    <3>4. \A j \in 1 .. m : K[j] # k + 1
      BY <2>4
    <3>5. \A j \in 1 .. (m + 1) : L[j] \in T /\ L[j] \in 1 .. (k + 1)
      <4>1. \A j \in 1 .. m : K[j] \in T /\ K[j] \in 1 .. (k + 1)
        BY <2>3, <2>4
      <4>2. k + 1 \in 1 .. (k + 1)
        OBVIOUS
      <4> QED
        BY <2>5, <3>2, <3>3, <4>1, <4>2
    <3>6. \A i \in 1 .. (k + 1) : i \in T => \E j \in 1 .. (m + 1) : L[j] = i
      <4>1. \A i \in 1 .. (k + 1) : i \in 1 .. k \/ i = k + 1
        OBVIOUS
      <4>2. m + 1 \in 1 .. (m + 1) /\ \A j \in 1 .. m : j \in 1 .. (m + 1)
        BY <2>4
      <4> QED
        BY <2>4, <3>2, <4>1, <4>2
    <3>7. \A j, l \in 1 .. (m + 1) : L[j] = L[l] => j = l
      BY <2>4, <3>2, <3>3, <3>4
    <3> QED
      BY <2>4, <3>2, <3>5, <3>6, <3>7 DEF KeptHolds, L
  <2>6. CASE k + 1 \notin T
    <3>1. L = K
      BY <2>2, <2>6
    <3>2. \A i \in 1 .. (k + 1) : i \in T => i \in 1 .. k
      <4>1. \A i \in 1 .. (k + 1) : i \in 1 .. k \/ i = k + 1
        OBVIOUS
      <4> QED
        BY <2>6, <4>1
    <3> QED
      BY <2>3, <2>4, <3>1, <3>2 DEF KeptHolds, L, m
  <2> QED
    BY <2>5, <2>6
<1>3. Nat \subseteq G
  <2> HIDE DEF G
  <2> QED
    BY <1>1, <1>2, Counting
<1> QED
  BY <1>3

ChosenGrows(E, T, n) ==
  Chosen(E, T, n + 1) = IF n + 1 \in T THEN Append(Chosen(E, T, n), E[n + 1]) ELSE Chosen(E, T, n)

LEMMA ChosenOneMore ==
  ASSUME NEW E, NEW T, NEW n \in Nat
  PROVE  /\ ChosenGrows(E, T, n)
         /\ Len(Chosen(E, T, n)) = Len(Kept(T, n)) /\ Len(Kept(T, n)) \in Nat
         /\ \A j \in 1 .. Len(Kept(T, n)) : Chosen(E, T, n)[j] = E[Kept(T, n)[j]]
<1> DEFINE K == Kept(T, n)
           L == Kept(T, n + 1)
           m == Len(K)
           C == Chosen(E, T, n)
           S == {E[i] : i \in 1 .. (n + 1)}
<1>1. L = IF n + 1 \in T THEN Append(K, n + 1) ELSE K
  BY KeptOneMore DEF KeptGrows
<1>2. K \in Seq(1 .. n) /\ m \in Nat /\ \A j \in 1 .. m : K[j] \in 1 .. n
  BY KeptTyped, LenProperties, ElementOfSeq
<1>3. C = [j \in 1 .. m |-> E[K[j]]]
  BY DEF Chosen
<1>4. Chosen(E, T, n + 1) = [j \in 1 .. Len(L) |-> E[L[j]]]
  BY DEF Chosen
<1> HIDE DEF K, L, m, C
<1>5. Len(C) = m /\ \A j \in 1 .. m : C[j] = E[K[j]]
  BY <1>2, <1>3
<1>6. CASE n + 1 \in T
  <2>1. 1 .. n \subseteq 1 .. (n + 1) /\ n + 1 \in 1 .. (n + 1)
    OBVIOUS
  <2>2. Append(K, n + 1) = [i \in 1 .. (m + 1) |-> IF i = m + 1 THEN n + 1 ELSE K[i]]
    <3>1. K \in Seq(1 .. (n + 1))
      BY <1>2, <2>1, SeqMonotonic
    <3> QED
      BY <2>1, <3>1, AppendIs DEF m
  <2>3. C \in Seq(S) /\ E[n + 1] \in S
    <3>1. \A j \in 1 .. m : E[K[j]] \in S
      BY <1>2, <2>1
    <3> HIDE DEF S
    <3>2. [j \in 1 .. m |-> E[K[j]]] \in Seq(S)
      BY <1>2, <3>1
    <3> QED
      BY <1>3, <2>1, <3>2 DEF S
  <2> HIDE DEF S
  <2>4. Append(C, E[n + 1]) = [i \in 1 .. (m + 1) |-> IF i = m + 1 THEN E[n + 1] ELSE C[i]]
    BY <1>5, <2>3, AppendIs
  <2>5. Len(L) = m + 1 /\ \A i \in 1 .. (m + 1) : L[i] = IF i = m + 1 THEN n + 1 ELSE K[i]
    BY <1>1, <1>2, <1>6, <2>2
  <2>6. \A i \in 1 .. (m + 1) : E[L[i]] = IF i = m + 1 THEN E[n + 1] ELSE C[i]
    <3>1. \A i \in 1 .. (m + 1) : i = m + 1 \/ i \in 1 .. m
      BY <1>2
    <3> QED
      BY <1>5, <2>5, <3>1
  <2> QED
    BY <1>2, <1>4, <1>5, <1>6, <2>4, <2>5, <2>6 DEF ChosenGrows, C, K, m
<1>7. CASE n + 1 \notin T
  <2>1. L = K
    BY <1>1, <1>7
  <2> QED
    BY <1>2, <1>3, <1>4, <1>5, <1>7, <2>1 DEF ChosenGrows, C, K, m
<1> QED
  BY <1>6, <1>7

LEMMA ChosenNone == ASSUME NEW E, NEW T PROVE Chosen(E, T, 0) = <<>>
<1>1. Kept(T, 0) = <<>> /\ Len(<<>>) = 0 /\ 1 .. 0 = {}
  BY KeptNone
<1> QED
  BY <1>1 DEF Chosen

\* A filter of a sequence keeps the places where it holds.
LEMMA FilterIs ==
  ASSUME NEW E, NEW T, NEW n \in Nat
  PROVE  FlattenSeq([i \in 1 .. n |-> IF i \in T THEN <<E[i]>> ELSE <<>>]) = Chosen(E, T, n)
<1> DEFINE X == [i \in 1 .. n |-> IF i \in T THEN <<E[i]>> ELSE <<>>]
           S == {E[i] : i \in 1 .. n}
           G == {k \in Nat : k <= n => Made(X, k) = Chosen(E, T, k)}
<1>1. \A i \in 1 .. n : X[i] = IF i \in T THEN <<E[i]>> ELSE <<>>
  OBVIOUS
<1>1a. X = [i \in 1 .. n |-> X[i]]
  OBVIOUS
<1>2. \A i \in 1 .. n : X[i] \in Seq(S)
  <2>1. \A i \in 1 .. n : E[i] \in S
    OBVIOUS
  <2> HIDE DEF S, X
  <2>2. \A i \in 1 .. n : <<E[i]>> \in Seq(S) /\ <<>> \in Seq(S)
    BY <2>1, OneTyped
  <2> QED
    BY <1>1, <2>2
<1> HIDE DEF X, S
<1>3. 0 \in G
  BY MadeNone, ChosenNone
<1>4. ASSUME NEW k \in Nat, k \in G PROVE k + 1 \in G
  <2>1. ASSUME k + 1 <= n PROVE Made(X, k + 1) = Chosen(E, T, k + 1)
    <3>1. k + 1 \in 1 .. n /\ k <= n /\ \A i \in 1 .. (k + 1) : i \in 1 .. n
      BY <2>1
    <3>2. Made(X, k + 1) = Made(X, k) \o X[k + 1]
      <4>1. \A i \in 1 .. (k + 1) : X[i] \in Seq(S)
        BY <1>2, <3>1
      <4> QED
        BY <4>1, MadeOneMore DEF MadeGrows
    <3>3. Made(X, k) = Chosen(E, T, k)
      BY <1>4, <3>1
    <3>4. Made(X, k) \in Seq(S)
      <4>1. \A i \in 1 .. k : X[i] \in Seq(S)
        BY <1>2, <3>1
      <4> QED
        BY <4>1, MadeTyped
    <3>5. Chosen(E, T, k + 1) = IF k + 1 \in T THEN Append(Chosen(E, T, k), E[k + 1]) ELSE Chosen(E, T, k)
      BY ChosenOneMore DEF ChosenGrows
    <3>6. CASE k + 1 \in T
      <4>1. E[k + 1] \in S
        BY <3>1 DEF S
      <4>2. Made(X, k) \o <<E[k + 1]>> = Append(Made(X, k), E[k + 1])
        BY <3>4, <4>1
      <4> QED
        BY <1>1, <3>1, <3>2, <3>3, <3>5, <3>6, <4>2
    <3>7. CASE k + 1 \notin T
      <4>1. Made(X, k) \o <<>> = Made(X, k)
        BY <3>4, ConcatEmptySeq
      <4> QED
        BY <1>1, <3>1, <3>2, <3>3, <3>5, <3>7, <4>1
    <3> QED
      BY <3>6, <3>7
  <2> QED
    BY <2>1
<1>5. Nat \subseteq G
  <2> HIDE DEF G
  <2> QED
    BY <1>3, <1>4, Counting
<1>6. Made(X, n) = FlattenSeq(X)
  BY <1>1a DEF Made, Firsts
<1> QED
  BY <1>5, <1>6 DEF X

-----------------------------------------------------------------------------
(* What New registers: tools.                                               *)

\* What two sequences of turns agree on from turn to turn they end with.
LEMMA Agreeing ==
  ASSUME NEW n \in Nat, NEW g, NEW w, g[0] = w[0], \A k \in 1 .. n : g[k - 1] = w[k - 1] => g[k] = w[k]
  PROVE  g[n] = w[n]
<1> DEFINE G == {k \in Nat : k <= n => g[k] = w[k]}
<1>1. 0 \in G
  OBVIOUS
<1>2. ASSUME NEW k \in Nat, k \in G PROVE k + 1 \in G
  <2>1. ASSUME k + 1 <= n PROVE g[k + 1] = w[k + 1]
    <3>1. k + 1 \in 1 .. n /\ (k + 1) - 1 = k /\ k <= n
      BY <2>1
    <3>2. g[(k + 1) - 1] = w[(k + 1) - 1]
      BY <1>2, <3>1
    <3> QED
      BY <3>1, <3>2
  <2> QED
    BY <2>1
<1>3. Nat \subseteq G
  <2> HIDE DEF G
  <2> QED
    BY <1>1, <1>2, Counting
<1> QED
  BY <1>3

\* A proxy with these registries.
ServerOf(h, tools, resources, templates, prompts) ==
  [name |-> h[1], version |-> h[2], instructions |-> h[3], up |-> TRUE,
   tools |-> tools, resources |-> resources, templates |-> templates, prompts |-> prompts]

LEMMA SetTools ==
  ASSUME NEW h, NEW a, NEW b, NEW c, NEW d, NEW x, NEW s, s = ServerOf(h, a, b, c, d)
  PROVE  [s EXCEPT !.tools = x] = ServerOf(h, x, b, c, d)
<1>1. PICK n, v, i, u : n = h[1] /\ v = h[2] /\ i = h[3] /\ u = TRUE
  OBVIOUS
<1>2. s = [name |-> n, version |-> v, instructions |-> i, up |-> u,
    tools |-> a, resources |-> b, templates |-> c, prompts |-> d]
  BY <1>1 DEF ServerOf
<1>3. [s EXCEPT !.tools = x] = [name |-> n, version |-> v, instructions |-> i, up |-> u,
    tools |-> x, resources |-> b, templates |-> c, prompts |-> d]
  BY <1>2
<1> QED
  BY <1>1, <1>3 DEF ServerOf

LEMMA SetResources ==
  ASSUME NEW h, NEW a, NEW b, NEW c, NEW d, NEW x, NEW s, s = ServerOf(h, a, b, c, d)
  PROVE  [s EXCEPT !.resources = x] = ServerOf(h, a, x, c, d)
<1>1. PICK n, v, i, u : n = h[1] /\ v = h[2] /\ i = h[3] /\ u = TRUE
  OBVIOUS
<1>2. s = [name |-> n, version |-> v, instructions |-> i, up |-> u,
    tools |-> a, resources |-> b, templates |-> c, prompts |-> d]
  BY <1>1 DEF ServerOf
<1>3. [s EXCEPT !.resources = x] = [name |-> n, version |-> v, instructions |-> i, up |-> u,
    tools |-> a, resources |-> x, templates |-> c, prompts |-> d]
  BY <1>2
<1> QED
  BY <1>1, <1>3 DEF ServerOf

LEMMA SetTemplates ==
  ASSUME NEW h, NEW a, NEW b, NEW c, NEW d, NEW x, NEW s, s = ServerOf(h, a, b, c, d)
  PROVE  [s EXCEPT !.templates = x] = ServerOf(h, a, b, x, d)
<1>1. PICK n, v, i, u : n = h[1] /\ v = h[2] /\ i = h[3] /\ u = TRUE
  OBVIOUS
<1>2. s = [name |-> n, version |-> v, instructions |-> i, up |-> u,
    tools |-> a, resources |-> b, templates |-> c, prompts |-> d]
  BY <1>1 DEF ServerOf
<1>3. [s EXCEPT !.templates = x] = [name |-> n, version |-> v, instructions |-> i, up |-> u,
    tools |-> a, resources |-> b, templates |-> x, prompts |-> d]
  BY <1>2
<1> QED
  BY <1>1, <1>3 DEF ServerOf

LEMMA SetPrompts ==
  ASSUME NEW h, NEW a, NEW b, NEW c, NEW d, NEW x, NEW s, s = ServerOf(h, a, b, c, d)
  PROVE  [s EXCEPT !.prompts = x] = ServerOf(h, a, b, c, x)
<1>1. PICK n, v, i, u : n = h[1] /\ v = h[2] /\ i = h[3] /\ u = TRUE
  OBVIOUS
<1>2. s = [name |-> n, version |-> v, instructions |-> i, up |-> u,
    tools |-> a, resources |-> b, templates |-> c, prompts |-> d]
  BY <1>1 DEF ServerOf
<1>3. [s EXCEPT !.prompts = x] = [name |-> n, version |-> v, instructions |-> i, up |-> u,
    tools |-> a, resources |-> b, templates |-> c, prompts |-> x]
  BY <1>2
<1> QED
  BY <1>1, <1>3 DEF ServerOf


\* What is registered under a key of its own comes last.
LEMMA PutChosen ==
  ASSUME NEW E, NEW T, NEW n \in Nat, n + 1 \in T,
         \A i \in 1 .. n : i \in T => E[i].key # E[n + 1].key
  PROVE  Put(Chosen(E, T, n), E[n + 1]) = Chosen(E, T, n + 1)
<1> DEFINE C == Chosen(E, T, n)
<1>1. /\ Len(C) = Len(Kept(T, n)) /\ Len(C) \in Nat
      /\ \A j \in 1 .. Len(C) : C[j] = E[Kept(T, n)[j]] /\ Kept(T, n)[j] \in T /\ Kept(T, n)[j] \in 1 .. n
  BY ChosenOneMore, KeptHas DEF KeptHolds
<1>2. Chosen(E, T, n + 1) = Append(C, E[n + 1])
  BY ChosenOneMore DEF ChosenGrows
<1> HIDE DEF C
<1>3. \A j \in 1 .. Len(C) : C[j].key # E[n + 1].key
  BY <1>1
<1>4. Put(C, E[n + 1]) = Append(C, E[n + 1])
  BY <1>1, <1>3, PutNew
<1> QED
  BY <1>2, <1>4 DEF C

\* A prefix tells two names apart.
LEMMA PrefixIsOwn ==
  ASSUME NEW p \in Words, NEW m \in Words, NEW n \in Words, p \o m = p \o n
  PROVE  m = n
<1>1. \A s, u, v \in Seq(STRING) : s \o u = s \o v => u = v
  BY ConcatSimplifications
<1> QED
  BY <1>1 DEF Words

Allowed(entries, keys) == {i \in 1 .. Len(entries) : entries[i].key \in keys}
Listing(entries) ==
  /\ Len(entries) \in Nat
  /\ \A i, j \in 1 .. Len(entries) : entries[i].key = entries[j].key => i = j

-----------------------------------------------------------------------------
ToolEntries(cfg, tools) ==
  [i \in 1 .. Len(tools) |-> [key |-> cfg.prefix \o tools[i].key, description |-> tools[i].description,
                              structured |-> FALSE, handler |-> forward(tools[i].key)]]
ToolTurns(srv, cfg, tools, g) ==
  g = [n \in 0 .. Len(tools) |->
        IF n = 0 THEN srv
        ELSE IF tools[n].key \notin cfg.tools THEN g[n - 1]
        ELSE Tool(g[n - 1], cfg.prefix \o tools[n].key, tools[n].description, FALSE, forward(tools[n].key))]

LEMMA ToolsRegistered ==
  ASSUME NEW h, NEW b, NEW c, NEW d, NEW cfg, NEW tools, cfg.prefix \in Words, Listing(tools),
         \A i \in 1 .. Len(tools) : tools[i].key \in Words
  PROVE  registerTools(ServerOf(h, <<>>, b, c, d), cfg, tools) =
           ServerOf(h, Chosen(ToolEntries(cfg, tools), Allowed(tools, cfg.tools), Len(tools)), b, c, d)
<1> DEFINE E == ToolEntries(cfg, tools)
           T == Allowed(tools, cfg.tools)
           m == Len(tools)
           srv == ServerOf(h, <<>>, b, c, d)
           w == [n \in 0 .. m |-> ServerOf(h, Chosen(E, T, n), b, c, d)]
           step(s, n) == IF tools[n].key \notin cfg.tools THEN s
                         ELSE Tool(s, cfg.prefix \o tools[n].key, tools[n].description, FALSE, forward(tools[n].key))
           g == CHOOSE g : ToolTurns(srv, cfg, tools, g)
<1>1. m \in Nat
  BY DEF Listing
<1>2. w[0] = srv
  BY <1>1, ChosenNone
<1>3. ASSUME NEW n \in 1 .. m PROVE w[n] = step(w[n - 1], n)
  <2>1. n - 1 \in Nat /\ (n - 1) + 1 = n /\ n \in 0 .. m /\ n - 1 \in 0 .. m
    BY <1>1
  <2>2. w[n] = ServerOf(h, Chosen(E, T, n), b, c, d) /\ w[n - 1] = ServerOf(h, Chosen(E, T, n - 1), b, c, d)
    BY <2>1
  <2>3. CASE tools[n].key \notin cfg.tools
    <3>1. n \notin T
      BY <2>3 DEF Allowed
    <3>2. Chosen(E, T, (n - 1) + 1) = Chosen(E, T, n - 1)
      BY <2>1, <3>1, ChosenOneMore DEF ChosenGrows
    <3> QED
      BY <2>1, <2>2, <2>3, <3>2
  <2>4. CASE tools[n].key \in cfg.tools
    <3>1. n \in T
      BY <2>4 DEF Allowed
    <3>2. E[n] = [key |-> cfg.prefix \o tools[n].key, description |-> tools[n].description,
                  structured |-> FALSE, handler |-> forward(tools[n].key)]
      BY DEF ToolEntries
    <3>3. ASSUME NEW i \in 1 .. (n - 1) PROVE E[i].key # E[n].key
      <4>1. i \in 1 .. m /\ i # n
        BY <1>1
      <4>2. E[i].key = cfg.prefix \o tools[i].key /\ E[n].key = cfg.prefix \o tools[n].key
        BY <4>1 DEF ToolEntries
      <4>3. tools[i].key # tools[n].key /\ tools[i].key \in Words /\ tools[n].key \in Words
        BY <4>1 DEF Listing
      <4> QED
        BY <4>2, <4>3, PrefixIsOwn
    <3> HIDE DEF E, T
    <3>4. Put(Chosen(E, T, n - 1), E[(n - 1) + 1]) = Chosen(E, T, (n - 1) + 1)
      BY <2>1, <3>1, <3>3, PutChosen
    <3>5. step(w[n - 1], n) = [w[n - 1] EXCEPT !.tools = Put(@, E[n])]
      BY <2>4, <3>2 DEF Tool
    <3>6. w[n - 1].tools = Chosen(E, T, n - 1)
      BY <2>2 DEF ServerOf
    <3>7. step(w[n - 1], n) = [w[n - 1] EXCEPT !.tools = Chosen(E, T, n)]
      BY <2>1, <3>4, <3>5, <3>6
    <3>8. [w[n - 1] EXCEPT !.tools = Chosen(E, T, n)] = ServerOf(h, Chosen(E, T, n), b, c, d)
      BY <2>2, SetTools
    <3> QED
      BY <2>2, <3>7, <3>8
  <2> QED
    BY <2>3, <2>4
<1> HIDE DEF E, T, w
<1>4. ToolTurns(srv, cfg, tools, w)
  <2>1. w = [n \in 0 .. m |-> w[n]]
    BY DEF w
  <2>2. \A n \in 0 .. m : w[n] = IF n = 0 THEN srv ELSE step(w[n - 1], n)
    <3>1. \A n \in 0 .. m : n # 0 => n \in 1 .. m
      BY <1>1
    <3> QED
      BY <1>2, <1>3, <3>1
  <2> QED
    BY <2>1, <2>2 DEF ToolTurns
<1>5. ToolTurns(srv, cfg, tools, g)
  BY <1>4
<1>6. registerTools(srv, cfg, tools) = g[m]
  BY DEF registerTools, ToolTurns
<1> HIDE DEF g
<1>7. g[0] = srv /\ \A n \in 1 .. m : g[n] = step(g[n - 1], n)
  <2>1. 0 \in 0 .. m /\ \A n \in 1 .. m : n \in 0 .. m /\ n # 0
    BY <1>1
  <2>2. \A n \in 0 .. m : g[n] = IF n = 0 THEN srv ELSE step(g[n - 1], n)
    BY <1>5 DEF ToolTurns
  <2> QED
    BY <2>1, <2>2
<1> HIDE DEF step, srv
<1>8. g[m] = w[m]
  <2>1. \A k \in 1 .. m : g[k - 1] = w[k - 1] => g[k] = w[k]
    BY <1>3, <1>7
  <2>2. g[0] = w[0]
    BY <1>2, <1>7
  <2> QED
    BY <1>1, <2>1, <2>2, Agreeing
<1>9. w[m] = ServerOf(h, Chosen(E, T, m), b, c, d)
  BY <1>1 DEF w
<1> QED
  BY <1>6, <1>8, <1>9 DEF E, T, srv

-----------------------------------------------------------------------------
(* What New registers: resources.                                           *)

ResourceEntries(resources) ==
  [i \in 1 .. Len(resources) |-> [key |-> resources[i].key, about |-> resources[i].about,
                                   blob |-> FALSE, handler |-> forward(resources[i].key)]]
ResourceTurns(srv, cfg, resources, g) ==
  g = [n \in 0 .. Len(resources) |->
        IF n = 0 THEN srv
        ELSE IF resources[n].key \notin cfg.resources THEN g[n - 1]
        ELSE Resource(g[n - 1], resources[n].key, resources[n].about, FALSE, forward(resources[n].key))]

LEMMA ResourcesRegistered ==
  ASSUME NEW h, NEW a, NEW c, NEW d, NEW cfg, NEW resources, Listing(resources)
  PROVE  registerResources(ServerOf(h, a, <<>>, c, d), cfg, resources) =
           ServerOf(h, a, Chosen(ResourceEntries(resources), Allowed(resources, cfg.resources), Len(resources)), c, d)
<1> DEFINE E == ResourceEntries(resources)
           T == Allowed(resources, cfg.resources)
           m == Len(resources)
           srv == ServerOf(h, a, <<>>, c, d)
           w == [n \in 0 .. m |-> ServerOf(h, a, Chosen(E, T, n), c, d)]
           step(s, n) == IF resources[n].key \notin cfg.resources THEN s
                         ELSE Resource(s, resources[n].key, resources[n].about, FALSE, forward(resources[n].key))
           g == CHOOSE g : ResourceTurns(srv, cfg, resources, g)
<1>1. m \in Nat
  BY DEF Listing
<1>2. w[0] = srv
  BY <1>1, ChosenNone
<1>3. ASSUME NEW n \in 1 .. m PROVE w[n] = step(w[n - 1], n)
  <2>1. n - 1 \in Nat /\ (n - 1) + 1 = n /\ n \in 0 .. m /\ n - 1 \in 0 .. m
    BY <1>1
  <2>2. w[n] = ServerOf(h, a, Chosen(E, T, n), c, d) /\ w[n - 1] = ServerOf(h, a, Chosen(E, T, n - 1), c, d)
    BY <2>1
  <2>3. CASE resources[n].key \notin cfg.resources
    <3>1. n \notin T
      BY <2>3 DEF Allowed
    <3>2. Chosen(E, T, (n - 1) + 1) = Chosen(E, T, n - 1)
      BY <2>1, <3>1, ChosenOneMore DEF ChosenGrows
    <3> QED
      BY <2>1, <2>2, <2>3, <3>2
  <2>4. CASE resources[n].key \in cfg.resources
    <3>1. n \in T
      BY <2>4 DEF Allowed
    <3>2. E[n] = [key |-> resources[n].key, about |-> resources[n].about,
                  blob |-> FALSE, handler |-> forward(resources[n].key)]
      BY DEF ResourceEntries
    <3>3. ASSUME NEW i \in 1 .. (n - 1) PROVE E[i].key # E[n].key
      <4>1. i \in 1 .. m /\ i # n
        BY <1>1
      <4>2. E[i].key = resources[i].key /\ E[n].key = resources[n].key
        BY <4>1 DEF ResourceEntries
      <4>3. resources[i].key # resources[n].key
        BY <4>1 DEF Listing
      <4> QED
        BY <4>2, <4>3
    <3> HIDE DEF E, T
    <3>4. Put(Chosen(E, T, n - 1), E[(n - 1) + 1]) = Chosen(E, T, (n - 1) + 1)
      BY <2>1, <3>1, <3>3, PutChosen
    <3>5. step(w[n - 1], n) = [w[n - 1] EXCEPT !.resources = Put(@, E[n])]
      BY <2>4, <3>2 DEF Resource
    <3>6. w[n - 1].resources = Chosen(E, T, n - 1)
      BY <2>2 DEF ServerOf
    <3>7. step(w[n - 1], n) = [w[n - 1] EXCEPT !.resources = Chosen(E, T, n)]
      BY <2>1, <3>4, <3>5, <3>6
    <3>8. [w[n - 1] EXCEPT !.resources = Chosen(E, T, n)] = ServerOf(h, a, Chosen(E, T, n), c, d)
      BY <2>2, SetResources
    <3> QED
      BY <2>2, <3>7, <3>8
  <2> QED
    BY <2>3, <2>4
<1> HIDE DEF E, T, w
<1>4. ResourceTurns(srv, cfg, resources, w)
  <2>1. w = [n \in 0 .. m |-> w[n]]
    BY DEF w
  <2>2. \A n \in 0 .. m : w[n] = IF n = 0 THEN srv ELSE step(w[n - 1], n)
    <3>1. \A n \in 0 .. m : n # 0 => n \in 1 .. m
      BY <1>1
    <3> QED
      BY <1>2, <1>3, <3>1
  <2> QED
    BY <2>1, <2>2 DEF ResourceTurns
<1>5. ResourceTurns(srv, cfg, resources, g)
  BY <1>4
<1>6. registerResources(srv, cfg, resources) = g[m]
  BY DEF registerResources, ResourceTurns
<1> HIDE DEF g
<1>7. g[0] = srv /\ \A n \in 1 .. m : g[n] = step(g[n - 1], n)
  <2>1. 0 \in 0 .. m /\ \A n \in 1 .. m : n \in 0 .. m /\ n # 0
    BY <1>1
  <2>2. \A n \in 0 .. m : g[n] = IF n = 0 THEN srv ELSE step(g[n - 1], n)
    BY <1>5 DEF ResourceTurns
  <2> QED
    BY <2>1, <2>2
<1> HIDE DEF step, srv
<1>8. g[m] = w[m]
  <2>1. \A k \in 1 .. m : g[k - 1] = w[k - 1] => g[k] = w[k]
    BY <1>3, <1>7
  <2>2. g[0] = w[0]
    BY <1>2, <1>7
  <2> QED
    BY <1>1, <2>1, <2>2, Agreeing
<1>9. w[m] = ServerOf(h, a, Chosen(E, T, m), c, d)
  BY <1>1 DEF w
<1> QED
  BY <1>6, <1>8, <1>9 DEF E, T, srv

-----------------------------------------------------------------------------
(* What New registers: prompts.                                             *)

PromptEntry(k, d, a, h, c) ==
  [key |-> k, description |-> d, arguments |-> a, handler |-> h, completer |-> c]
WithCompleter(e, to) == [e EXCEPT !.completer = to]
SetsLast(entries, e, k, to) == SetCompleter(Append(entries, e), k, to) = Append(entries, WithCompleter(e, to))

LEMMA PromptEntryIs ==
  ASSUME NEW k, NEW d, NEW a, NEW h, NEW c
  PROVE  /\ PromptEntry(k, d, a, h, c).key = k /\ PromptEntry(k, d, a, h, c).handler = h
         /\ PromptEntry(k, d, a, h, c).completer = c /\ PromptEntry(k, d, a, h, c).description = d
         /\ PromptEntry(k, d, a, h, c).arguments = a
BY DEF PromptEntry

LEMMA CompleterSet ==
  ASSUME NEW k, NEW d, NEW a, NEW h, NEW c, NEW to
  PROVE  WithCompleter(PromptEntry(k, d, a, h, c), to) = PromptEntry(k, d, a, h, to)
<1>1. PICK r : r = [key |-> k, description |-> d, arguments |-> a, handler |-> h, completer |-> c]
  OBVIOUS
<1>2. [r EXCEPT !.completer = to] = [key |-> k, description |-> d, arguments |-> a, handler |-> h, completer |-> to]
  BY <1>1
<1> QED
  BY <1>1, <1>2 DEF PromptEntry, WithCompleter

\* A completer is attached to what has just been put at the end.
LEMMA CompleterLast ==
  ASSUME NEW S, NEW entries \in Seq(S), NEW e, NEW k, NEW to, e.key = k,
         \A j \in 1 .. Len(entries) : entries[j].key # k
  PROVE  SetsLast(entries, e, k, to)
<1> DEFINE m == Len(entries)
           f == [e EXCEPT !.completer = to]
           A == Append(entries, e)
           R == S \cup {e, f}
<1>1. entries \in Seq(R) /\ e \in R /\ f \in R
  <2>1. S \subseteq R
    OBVIOUS
  <2> HIDE DEF R
  <2>2. entries \in Seq(R)
    BY <2>1, SeqMonotonic
  <2> QED
    BY <2>2 DEF R
<1> HIDE DEF R
<1>2. m \in Nat
  BY LenProperties
<1>3. A = [i \in 1 .. (m + 1) |-> IF i = m + 1 THEN e ELSE entries[i]]
  BY <1>1, AppendIs
<1>4. Append(entries, f) = [i \in 1 .. (m + 1) |-> IF i = m + 1 THEN f ELSE entries[i]]
  BY <1>1, AppendIs
<1> HIDE DEF A, f
<1>5. Len(A) = m + 1 /\ m + 1 \in 1 .. (m + 1) /\ A[m + 1] = e
  BY <1>2, <1>3
<1>6. \A j \in 1 .. (m + 1) : j # m + 1 => A[j] = entries[j] /\ j \in 1 .. m
  BY <1>2, <1>3
<1>7. Known(A, k) /\ Find(A, k) = m + 1
  <2>1. Len(A) \in Nat /\ m + 1 \in 1 .. Len(A) /\ A[m + 1].key = k
    BY <1>2, <1>5
  <2>2. \A j \in 1 .. Len(A) : A[j].key = k => j = m + 1
    BY <1>5, <1>6
  <2> QED
    BY <2>1, <2>2, FoundOnly
<1>8. SetCompleter(A, k, to) = [A EXCEPT ![m + 1] = [A[m + 1] EXCEPT !.completer = to]]
  BY <1>7 DEF SetCompleter
<1>9. SetCompleter(A, k, to) = [A EXCEPT ![m + 1] = f]
  BY <1>5, <1>8 DEF f
<1>10. [A EXCEPT ![m + 1] = f] = [i \in 1 .. (m + 1) |-> IF i = m + 1 THEN f ELSE entries[i]]
  BY <1>2, <1>3, <1>5
<1> QED
  BY <1>4, <1>9, <1>10 DEF A, f, SetsLast, WithCompleter

PromptEntries(cfg, prompts) ==
  [i \in 1 .. Len(prompts) |->
    PromptEntry(cfg.prefix \o prompts[i].key, prompts[i].description, prompts[i].arguments,
                forward(prompts[i].key), forward(prompts[i].key))]
Behind(cfg, name) == cfg.prefix \o name
LEMMA PromptEntriesAre ==
  ASSUME NEW cfg, NEW prompts, NEW i \in 1 .. Len(prompts)
  PROVE  LET e == PromptEntries(cfg, prompts)[i]
         IN /\ e.key = Behind(cfg, prompts[i].key) /\ e.description = prompts[i].description
            /\ e.arguments = prompts[i].arguments
            /\ e.handler = forward(prompts[i].key) /\ e.completer = forward(prompts[i].key)
<1>1. PICK k, d, a, to : /\ k = Behind(cfg, prompts[i].key) /\ d = prompts[i].description
                         /\ a = prompts[i].arguments /\ to = forward(prompts[i].key)
  OBVIOUS
<1>2. PromptEntries(cfg, prompts)[i] = PromptEntry(k, d, a, to, to)
  BY <1>1 DEF PromptEntries, Behind
<1>3. PICK e : e = PromptEntries(cfg, prompts)[i]
  OBVIOUS
<1>4. e.key = k /\ e.description = d /\ e.arguments = a /\ e.handler = to /\ e.completer = to
  BY <1>2, <1>3, PromptEntryIs
<1> QED
  BY <1>1, <1>3, <1>4

PromptTurns(srv, cfg, prompts, g) ==
  g = [n \in 0 .. Len(prompts) |->
        IF n = 0 THEN srv
        ELSE IF prompts[n].key \notin cfg.prompts THEN g[n - 1]
        ELSE CompletePrompt(
               Prompt(g[n - 1], cfg.prefix \o prompts[n].key, prompts[n].description,
                      prompts[n].arguments, forward(prompts[n].key)),
               cfg.prefix \o prompts[n].key, forward(prompts[n].key))]

LEMMA PromptsRegistered ==
  ASSUME NEW h, NEW a, NEW b, NEW c, NEW cfg, NEW prompts, cfg.prefix \in Words, Listing(prompts),
         \A i \in 1 .. Len(prompts) : prompts[i].key \in Words
  PROVE  registerPrompts(ServerOf(h, a, b, c, <<>>), cfg, prompts) =
           ServerOf(h, a, b, c, Chosen(PromptEntries(cfg, prompts), Allowed(prompts, cfg.prompts), Len(prompts)))
<1> DEFINE E == PromptEntries(cfg, prompts)
           T == Allowed(prompts, cfg.prompts)
           m == Len(prompts)
           srv == ServerOf(h, a, b, c, <<>>)
           w == [n \in 0 .. m |-> ServerOf(h, a, b, c, Chosen(E, T, n))]
           step(s, n) == IF prompts[n].key \notin cfg.prompts THEN s
                         ELSE CompletePrompt(
                                Prompt(s, cfg.prefix \o prompts[n].key, prompts[n].description,
                                       prompts[n].arguments, forward(prompts[n].key)),
                                cfg.prefix \o prompts[n].key, forward(prompts[n].key))
           g == CHOOSE g : PromptTurns(srv, cfg, prompts, g)
<1>1. m \in Nat
  BY DEF Listing
<1>2. w[0] = srv
  BY <1>1, ChosenNone
<1>3. ASSUME NEW n \in 1 .. m PROVE w[n] = step(w[n - 1], n)
  <2>1. n - 1 \in Nat /\ (n - 1) + 1 = n /\ n \in 0 .. m /\ n - 1 \in 0 .. m
    BY <1>1
  <2>2. w[n] = ServerOf(h, a, b, c, Chosen(E, T, n)) /\ w[n - 1] = ServerOf(h, a, b, c, Chosen(E, T, n - 1))
    BY <2>1
  <2>3. CASE prompts[n].key \notin cfg.prompts
    <3>1. n \notin T
      BY <2>3 DEF Allowed
    <3>2. Chosen(E, T, (n - 1) + 1) = Chosen(E, T, n - 1)
      BY <2>1, <3>1, ChosenOneMore DEF ChosenGrows
    <3> QED
      BY <2>1, <2>2, <2>3, <3>2
  <2>4. CASE prompts[n].key \in cfg.prompts
    <3>1. n \in T
      BY <2>4 DEF Allowed
    <3>2. E[n] = PromptEntry(cfg.prefix \o prompts[n].key, prompts[n].description, prompts[n].arguments,
                             forward(prompts[n].key), forward(prompts[n].key))
      BY DEF PromptEntries
    <3>3. ASSUME NEW i \in 1 .. (n - 1) PROVE E[i].key # E[n].key
      <4>1. i \in 1 .. m /\ i # n
        BY <1>1
      <4>2. E[i].key = Behind(cfg, prompts[i].key) /\ E[n].key = Behind(cfg, prompts[n].key)
        BY <4>1, PromptEntriesAre
      <4>3. prompts[i].key # prompts[n].key /\ prompts[i].key \in Words /\ prompts[n].key \in Words
        BY <4>1 DEF Listing
      <4> QED
        BY <4>2, <4>3, PrefixIsOwn DEF Behind
    <3> DEFINE k == cfg.prefix \o prompts[n].key
               to == forward(prompts[n].key)
               e == PromptEntry(k, prompts[n].description, prompts[n].arguments, to, NoCompleter)
               C == Chosen(E, T, n - 1)
    <3>2a. E[n] = PromptEntry(k, prompts[n].description, prompts[n].arguments, to, to)
      BY <3>2
    <3> HIDE DEF E, T, k, to
    <3>4. SetCompleter(Put(C, e), k, to) = Chosen(E, T, n)
      <4>1. Chosen(E, T, (n - 1) + 1) = Append(C, E[n])
        <5>1. ChosenGrows(E, T, n - 1)
          BY <2>1, ChosenOneMore
        <5> QED
          BY <2>1, <3>1, <5>1 DEF ChosenGrows
      <4>2. C \in Seq({E[i] : i \in 1 .. n}) /\ \A j \in 1 .. Len(C) : C[j].key # k
        <5>1. /\ Len(C) = Len(Kept(T, n - 1)) /\ Len(C) \in Nat /\ C = [j \in 1 .. Len(C) |-> C[j]]
              /\ \A j \in 1 .. Len(C) : C[j] = E[Kept(T, n - 1)[j]] /\ Kept(T, n - 1)[j] \in 1 .. (n - 1)
          BY <2>1, ChosenOneMore, KeptHas DEF KeptHolds, Chosen
        <5> HIDE DEF C
        <5>2. \A i \in 1 .. (n - 1) : i \in 1 .. n
          BY <2>1
        <5>3. PICK R : R = {E[i] : i \in 1 .. n}
          OBVIOUS
        <5>4. \A j \in 1 .. Len(C) : C[j] \in R
          BY <5>1, <5>2, <5>3
        <5>5. [j \in 1 .. Len(C) |-> C[j]] \in Seq(R)
          BY <5>1, <5>4
        <5>6. E[n].key = k
          BY <3>2a, PromptEntryIs
        <5> QED
          BY <3>3, <5>1, <5>3, <5>5, <5>6
      <4>3. e.key = k /\ E[n] = WithCompleter(e, to)
        BY <3>2a, PromptEntryIs, CompleterSet
      <4> HIDE DEF C, e
      <4>4. Len(C) \in Nat
        BY <4>2, LenProperties
      <4>5. Put(C, e) = Append(C, e)
        BY <4>2, <4>3, <4>4, PutNew
      <4>6. SetCompleter(Append(C, e), k, to) = Append(C, E[n])
        <5>1. SetsLast(C, e, k, to)
          BY <4>2, <4>3, CompleterLast
        <5> QED
          BY <4>3, <5>1 DEF SetsLast
      <4> QED
        BY <2>1, <4>1, <4>5, <4>6
    <3>5. step(w[n - 1], n) = CompletePrompt([w[n - 1] EXCEPT !.prompts = Put(@, e)], k, to)
      BY <2>4 DEF Prompt, PromptEntry, k, to
    <3> HIDE DEF e
    <3>6. w[n - 1].prompts = C
      BY <2>2 DEF ServerOf
    <3> HIDE DEF C
    <3>7. [w[n - 1] EXCEPT !.prompts = Put(@, e)] = ServerOf(h, a, b, c, Put(C, e))
      <4>1. [w[n - 1] EXCEPT !.prompts = Put(C, e)] = ServerOf(h, a, b, c, Put(C, e))
        <5>1. w[n - 1] = ServerOf(h, a, b, c, C)
          BY <2>2 DEF C
        <5> QED
          BY <5>1, SetPrompts
      <4> QED
        BY <3>6, <4>1
    <3>8. CompletePrompt(ServerOf(h, a, b, c, Put(C, e)), k, to) = ServerOf(h, a, b, c, Chosen(E, T, n))
      <4> DEFINE s == ServerOf(h, a, b, c, Put(C, e))
      <4>1. s.prompts = Put(C, e)
        BY DEF ServerOf
      <4>2. [s EXCEPT !.prompts = Chosen(E, T, n)] = ServerOf(h, a, b, c, Chosen(E, T, n))
        BY SetPrompts
      <4> HIDE DEF s
      <4>3. CompletePrompt(s, k, to) = [s EXCEPT !.prompts = SetCompleter(s.prompts, k, to)]
        BY DEF CompletePrompt
      <4> QED
        BY <3>4, <4>1, <4>2, <4>3 DEF s
    <3> QED
      BY <2>2, <3>5, <3>7, <3>8
  <2> QED
    BY <2>3, <2>4
<1> HIDE DEF E, T, w
<1>4. PromptTurns(srv, cfg, prompts, w)
  <2>1. w = [n \in 0 .. m |-> w[n]]
    BY DEF w
  <2>2. \A n \in 0 .. m : w[n] = IF n = 0 THEN srv ELSE step(w[n - 1], n)
    <3>1. \A n \in 0 .. m : n # 0 => n \in 1 .. m
      BY <1>1
    <3> QED
      BY <1>2, <1>3, <3>1
  <2> QED
    BY <2>1, <2>2 DEF PromptTurns
<1>5. PromptTurns(srv, cfg, prompts, g)
  BY <1>4
<1>6. registerPrompts(srv, cfg, prompts) = g[m]
  BY DEF registerPrompts, PromptTurns
<1> HIDE DEF g
<1>7. g[0] = srv /\ \A n \in 1 .. m : g[n] = step(g[n - 1], n)
  <2>1. 0 \in 0 .. m /\ \A n \in 1 .. m : n \in 0 .. m /\ n # 0
    BY <1>1
  <2>2. \A n \in 0 .. m : g[n] = IF n = 0 THEN srv ELSE step(g[n - 1], n)
    BY <1>5 DEF PromptTurns
  <2> QED
    BY <2>1, <2>2
<1> HIDE DEF step, srv
<1>8. g[m] = w[m]
  <2>1. \A k \in 1 .. m : g[k - 1] = w[k - 1] => g[k] = w[k]
    BY <1>3, <1>7
  <2>2. g[0] = w[0]
    BY <1>2, <1>7
  <2> QED
    BY <1>1, <2>1, <2>2, Agreeing
<1>9. w[m] = ServerOf(h, a, b, c, Chosen(E, T, m))
  BY <1>1 DEF w
<1> QED
  BY <1>6, <1>8, <1>9 DEF E, T, srv

-----------------------------------------------------------------------------
(* What New registers: resource templates.                                  *)

\* No earlier template has the text of this one.
Fresh(spec, i) == \A j \in 1 .. (i - 1) : spec[j].key # spec[i].key
TemplateEntry(k, about, c) ==
  [key |-> k, about |-> about, blob |-> FALSE, handler |-> forward(k), completer |-> c]
TemplateEntries(spec) ==
  [i \in 1 .. Len(spec) |->
    TemplateEntry(spec[i].key, spec[i].about,
                  IF Fresh(spec, i) THEN forward(spec[i].key) ELSE NoCompleter)]

LEMMA TemplateEntryIs ==
  ASSUME NEW k, NEW about, NEW c
  PROVE  /\ TemplateEntry(k, about, c).key = k /\ TemplateEntry(k, about, c).about = about
         /\ TemplateEntry(k, about, c).completer = c
BY DEF TemplateEntry

LEMMA TemplateEntryForwards ==
  ASSUME NEW k, NEW about, NEW c
  PROVE  TemplateEntry(k, about, c).handler = forward(k)
BY DEF TemplateEntry

LEMMA TemplateEntryText ==
  ASSUME NEW k, NEW about, NEW c
  PROVE  TemplateEntry(k, about, c).blob = FALSE
BY DEF TemplateEntry

LEMMA TemplateEntrySet ==
  ASSUME NEW k, NEW about, NEW c, NEW to
  PROVE  WithCompleter(TemplateEntry(k, about, c), to) = TemplateEntry(k, about, to)
<1>1. PICK f, b : f = forward(k) /\ b = FALSE
  OBVIOUS
<1>2. PICK r : r = [key |-> k, about |-> about, blob |-> b, handler |-> f, completer |-> c]
  OBVIOUS
<1>3. [r EXCEPT !.completer = to] = [key |-> k, about |-> about, blob |-> b, handler |-> f, completer |-> to]
  BY <1>2
<1> QED
  BY <1>1, <1>2, <1>3 DEF TemplateEntry, WithCompleter

LEMMA TemplateEntriesAre ==
  ASSUME NEW spec, NEW i \in 1 .. Len(spec)
  PROVE  LET e == TemplateEntries(spec)[i]
             to == forward(spec[i].key)
         IN /\ e.key = spec[i].key /\ e.about = spec[i].about /\ e.blob = FALSE /\ e.handler = to
            /\ e.completer = (IF Fresh(spec, i) THEN to ELSE NoCompleter)
            /\ WithCompleter(e, to).key = spec[i].key
            /\ Fresh(spec, i) => WithCompleter(e, to) = e
<1>1. PICK k, about, to, c : /\ k = spec[i].key /\ about = spec[i].about /\ to = forward(k)
                             /\ c = IF Fresh(spec, i) THEN to ELSE NoCompleter
  OBVIOUS
<1>2. TemplateEntries(spec)[i] = TemplateEntry(k, about, c)
  BY <1>1 DEF TemplateEntries
<1>3. PICK e : e = TemplateEntry(k, about, c)
  OBVIOUS
<1>4. e.key = k /\ e.about = about /\ e.completer = c /\ e.handler = to /\ e.blob = FALSE
  <2>1. e.key = k /\ e.about = about /\ e.completer = c
    BY <1>3, TemplateEntryIs
  <2>2. e.handler = to
    BY <1>1, <1>3, TemplateEntryForwards
  <2>3. e.blob = FALSE
    BY <1>3, TemplateEntryText
  <2> QED
    BY <2>1, <2>2, <2>3
<1>5. WithCompleter(e, to) = TemplateEntry(k, about, to)
  BY <1>3, TemplateEntrySet
<1>6. WithCompleter(e, to).key = k
  BY <1>5, TemplateEntryIs
<1>7. Fresh(spec, i) => WithCompleter(e, to) = e
  BY <1>1, <1>3, <1>5
<1> QED
  BY <1>1, <1>2, <1>3, <1>4, <1>6, <1>7

TemplateTurns(srv, cfg, g) ==
  g = [n \in 0 .. Len(cfg.templates) |->
        IF n = 0 THEN srv
        ELSE CompleteResourceTemplate(
               ResourceTemplate(g[n - 1], cfg.templates[n].key, cfg.templates[n].about, FALSE,
                                forward(cfg.templates[n].key)),
               cfg.templates[n].key, forward(cfg.templates[n].key))]

LEMMA FirstsNone == ASSUME NEW E PROVE Firsts(E, 0) = <<>>
<1>1. 1 .. 0 = {}
  OBVIOUS
<1> QED
  BY <1>1 DEF Firsts

LEMMA TemplatesRegistered ==
  ASSUME NEW h, NEW a, NEW b, NEW d, NEW cfg, Len(cfg.templates) \in Nat
  PROVE  registerTemplates(ServerOf(h, a, b, <<>>, d), cfg) =
           ServerOf(h, a, b, Firsts(TemplateEntries(cfg.templates), Len(cfg.templates)), d)
<1> DEFINE spec == cfg.templates
           E == TemplateEntries(spec)
           m == Len(spec)
           srv == ServerOf(h, a, b, <<>>, d)
           w == [n \in 0 .. m |-> ServerOf(h, a, b, Firsts(E, n), d)]
           step(s, n) == CompleteResourceTemplate(
                           ResourceTemplate(s, spec[n].key, spec[n].about, FALSE, forward(spec[n].key)),
                           spec[n].key, forward(spec[n].key))
           g == CHOOSE g : TemplateTurns(srv, cfg, g)
<1>1. m \in Nat
  OBVIOUS
<1>2. w[0] = srv
  BY <1>1, FirstsNone
<1>3. ASSUME NEW n \in 1 .. m PROVE w[n] = step(w[n - 1], n)
  <2>1. n - 1 \in Nat /\ (n - 1) + 1 = n /\ n \in 0 .. m /\ n - 1 \in 0 .. m
    BY <1>1
  <2>2. w[n] = ServerOf(h, a, b, Firsts(E, n), d) /\ w[n - 1] = ServerOf(h, a, b, Firsts(E, n - 1), d)
    BY <2>1
  <2> DEFINE k == spec[n].key
             to == forward(k)
             e == TemplateEntry(k, spec[n].about, NoCompleter)
             F == Firsts(E, n - 1)
             s == ServerOf(h, a, b, Append(F, e), d)
  <2>3. /\ F \in Seq({E[i] : i \in 1 .. m}) /\ Len(F) = n - 1 /\ \A i \in 1 .. (n - 1) : F[i] = E[i]
        /\ Firsts(E, n) = Append(F, E[n])
    <3>1. PICK R : R = {E[i] : i \in 1 .. m}
      OBVIOUS
    <3>2. \A i \in 1 .. n : E[i] \in R
      BY <1>1, <3>1
    <3>3. \A i \in 1 .. (n - 1) : i \in 1 .. n
      BY <1>1
    <3> HIDE DEF E
    <3>4. Firsts(E, n - 1) \in Seq(R) /\ Len(Firsts(E, n - 1)) = n - 1 /\ \A i \in 1 .. (n - 1) : Firsts(E, n - 1)[i] = E[i]
      <4>1. \A i \in 1 .. (n - 1) : E[i] \in R
        BY <3>2, <3>3
      <4> QED
        <5>1. PICK x, P : x = n - 1 /\ P = R /\ x \in Nat /\ \A i \in 1 .. x : E[i] \in P
          BY <2>1, <4>1
        <5>2. Firsts(E, x) \in Seq(P) /\ Len(Firsts(E, x)) = x /\ \A i \in 1 .. x : Firsts(E, x)[i] = E[i]
          BY <5>1, FirstsTyped
        <5> QED
          BY <5>1, <5>2
    <3>5. Firsts(E, (n - 1) + 1) = Append(Firsts(E, n - 1), E[(n - 1) + 1])
      BY <2>1, <3>2, FirstsAppend
    <3> QED
      BY <2>1, <3>1, <3>4, <3>5
  <2>4. \A i \in 1 .. m : /\ E[i].key = spec[i].key /\ WithCompleter(E[i], forward(spec[i].key)).key = spec[i].key
                          /\ Fresh(spec, i) => WithCompleter(E[i], forward(spec[i].key)) = E[i]
    BY TemplateEntriesAre
  <2>5. E[n] = IF Fresh(spec, n) THEN WithCompleter(e, to) ELSE e
    BY TemplateEntrySet DEF TemplateEntries
  <2> HIDE DEF E, F, k, to
  <2>6. e.key = k
    <3>1. PICK x, c : x = spec[n].about /\ c = NoCompleter
      OBVIOUS
    <3>2. e = TemplateEntry(k, x, c)
      BY <3>1
    <3> HIDE DEF e
    <3> QED
      BY <3>2, TemplateEntryIs
  <2> HIDE DEF e
  <2>7. SetCompleter(Append(F, e), k, to) = Append(F, E[n])
    <3>1. CASE Fresh(spec, n)
      <4>1. \A j \in 1 .. Len(F) : F[j].key # k
        <5>1. \A j \in 1 .. (n - 1) : j \in 1 .. m
          BY <1>1
        <5>2. \A j \in 1 .. (n - 1) : E[j].key # k
          BY <2>4, <3>1, <5>1 DEF Fresh, k
        <5> QED
          BY <2>3, <5>2
      <4>2. SetsLast(F, e, k, to)
        BY <2>3, <2>6, <4>1, CompleterLast
      <4> QED
        BY <2>5, <3>1, <4>2 DEF SetsLast
    <3>2. CASE ~Fresh(spec, n)
      <4> DEFINE A == Append(F, e)
                 f == Find(A, k)
      <4>1. A = [i \in 1 .. n |-> IF i = n THEN e ELSE F[i]]
        <5>1. PICK R : R = {E[i] : i \in 1 .. m}
          OBVIOUS
        <5>2. F \in Seq(R) /\ e \in R
          BY <2>3, <2>5, <3>2, <5>1
        <5>3. Append(F, e) = [i \in 1 .. (Len(F) + 1) |-> IF i = Len(F) + 1 THEN e ELSE F[i]]
          BY <5>2, AppendIs
        <5>4. Len(F) + 1 = n
          BY <1>1, <2>3
        <5> QED
          BY <5>3, <5>4
      <4> HIDE DEF A
      <4>2. Len(A) = n /\ \A i \in 1 .. n : A[i] = E[i]
        <5>1. \A i \in 1 .. n : i # n => i \in 1 .. (n - 1)
          BY <1>1
        <5> QED
          BY <1>1, <2>3, <2>5, <3>2, <4>1, <5>1
      <4>3. PICK j \in 1 .. (n - 1) : spec[j].key = k
        BY <3>2 DEF Fresh, k
      <4>4. j \in Keyed(A, k)
        <5>1. j \in 1 .. n /\ j \in 1 .. m
          BY <1>1
        <5> QED
          BY <2>4, <4>2, <4>3, <5>1 DEF Keyed
      <4>5. Known(A, k) /\ f \in Keyed(A, k) /\ \A i \in Keyed(A, k) : f <= i
        BY <2>1, <4>2, <4>4, FindIs
      <4> HIDE DEF f
      <4>6. f \in 1 .. n /\ f \in 1 .. m /\ E[f].key = k /\ spec[f].key = k
        <5>1. f \in 1 .. n /\ A[f].key = k
          BY <4>2, <4>5 DEF Keyed
        <5>2. f \in 1 .. m
          BY <1>1, <5>1
        <5> QED
          BY <2>4, <4>2, <5>1, <5>2
      <4>7. Fresh(spec, f)
        <5>1. ASSUME NEW i \in 1 .. (f - 1), spec[i].key = spec[f].key PROVE FALSE
          <6>1. i \in 1 .. n /\ i \in 1 .. m /\ ~(f <= i)
            BY <1>1, <4>6
          <6>2. i \in Keyed(A, k)
            BY <2>4, <4>2, <4>6, <5>1, <6>1 DEF Keyed
          <6> QED
            BY <4>5, <6>1, <6>2
        <5> QED
          BY <5>1 DEF Fresh
      <4>8. WithCompleter(A[f], to) = A[f]
        BY <2>4, <4>2, <4>6, <4>7 DEF to
      <4>9. SetCompleter(A, k, to) = [A EXCEPT ![f] = WithCompleter(A[f], to)]
        BY <4>5 DEF SetCompleter, WithCompleter, f
      <4>10. [A EXCEPT ![f] = A[f]] = A
        BY <4>1
      <4> QED
        BY <2>5, <3>2, <4>8, <4>9, <4>10 DEF A
    <3> QED
      BY <3>1, <3>2
  <2>8. [w[n - 1] EXCEPT !.templates = Append(@, e)] = s
    <3>1. w[n - 1].templates = F
      BY <2>2 DEF ServerOf, F
    <3>2. w[n - 1] = ServerOf(h, a, b, F, d)
      BY <2>2 DEF F
    <3>3. [w[n - 1] EXCEPT !.templates = Append(F, e)] = s
      <4>1. PICK x : x = Append(F, e)
        OBVIOUS
      <4>2. [w[n - 1] EXCEPT !.templates = x] = ServerOf(h, a, b, x, d)
        BY <3>2, SetTemplates
      <4> QED
        BY <4>1, <4>2
    <3> HIDE DEF s
    <3> QED
      BY <3>1, <3>3
  <2>9. CompleteResourceTemplate(s, k, to) = ServerOf(h, a, b, Append(F, E[n]), d)
    <3>1. s.templates = Append(F, e)
      BY DEF ServerOf
    <3>2. [s EXCEPT !.templates = Append(F, E[n])] = ServerOf(h, a, b, Append(F, E[n]), d)
      <4>1. PICK x, y : x = Append(F, e) /\ y = Append(F, E[n])
        OBVIOUS
      <4>2. PICK r : r = ServerOf(h, a, b, x, d)
        OBVIOUS
      <4>3. [r EXCEPT !.templates = y] = ServerOf(h, a, b, y, d)
        BY <4>2, SetTemplates
      <4> QED
        BY <4>1, <4>2, <4>3
    <3> HIDE DEF s
    <3>3. CompleteResourceTemplate(s, k, to) = [s EXCEPT !.templates = SetCompleter(s.templates, k, to)]
      BY DEF CompleteResourceTemplate
    <3> QED
      BY <2>7, <3>1, <3>2, <3>3
  <2>10. step(w[n - 1], n) = CompleteResourceTemplate([w[n - 1] EXCEPT !.templates = Append(@, e)], k, to)
    BY DEF ResourceTemplate, TemplateEntry, e, k, to
  <2> HIDE DEF s
  <2> QED
    BY <2>2, <2>3, <2>8, <2>9, <2>10
<1> HIDE DEF E, w
<1>4. TemplateTurns(srv, cfg, w)
  <2>1. w = [n \in 0 .. m |-> w[n]]
    BY DEF w
  <2>2. \A n \in 0 .. m : w[n] = IF n = 0 THEN srv ELSE step(w[n - 1], n)
    <3>1. \A n \in 0 .. m : n # 0 => n \in 1 .. m
      BY <1>1
    <3> QED
      BY <1>2, <1>3, <3>1
  <2> QED
    BY <2>1, <2>2 DEF TemplateTurns
<1>5. TemplateTurns(srv, cfg, g)
  BY <1>4
<1>6. registerTemplates(srv, cfg) = g[m]
  BY DEF registerTemplates, TemplateTurns
<1> HIDE DEF g
<1>7. g[0] = srv /\ \A n \in 1 .. m : g[n] = step(g[n - 1], n)
  <2>1. 0 \in 0 .. m /\ \A n \in 1 .. m : n \in 0 .. m /\ n # 0
    BY <1>1
  <2>2. \A n \in 0 .. m : g[n] = IF n = 0 THEN srv ELSE step(g[n - 1], n)
    BY <1>5 DEF TemplateTurns
  <2> QED
    BY <2>1, <2>2
<1> HIDE DEF step, srv
<1>8. g[m] = w[m]
  <2>1. \A k \in 1 .. m : g[k - 1] = w[k - 1] => g[k] = w[k]
    BY <1>3, <1>7
  <2>2. g[0] = w[0]
    BY <1>2, <1>7
  <2> QED
    BY <1>1, <2>1, <2>2, Agreeing
<1>9. w[m] = ServerOf(h, a, b, Firsts(E, m), d)
  BY <1>1 DEF w
<1> QED
  BY <1>6, <1>8, <1>9 DEF E, srv

-----------------------------------------------------------------------------
(* What New makes of a backend.                                             *)

\* What New made of the lists of the backend it was given.
Fronts(p, before, cfg) ==
  /\ p.tools = Chosen(ToolEntries(cfg, before.tools), Allowed(before.tools, cfg.tools), Len(before.tools))
  /\ p.resources = Chosen(ResourceEntries(before.resources), Allowed(before.resources, cfg.resources),
                          Len(before.resources))
  /\ p.templates = Firsts(TemplateEntries(cfg.templates), Len(cfg.templates))
  /\ p.prompts = Chosen(PromptEntries(cfg, before.prompts), Allowed(before.prompts, cfg.prompts),
                        Len(before.prompts))

LEMMA ToolsListed ==
  ASSUME NEW s, NEW cfg, WellFormedTools(s.tools)
  PROVE  LET list == handleToolsList(s)
         IN /\ Len(list) = Len(s.tools) /\ Listing(list)
            /\ \A i \in 1 .. Len(list) : list[i].key \in Words
            /\ ToolEntries(cfg, list) = ToolEntries(cfg, s.tools)
            /\ Allowed(list, cfg.tools) = Allowed(s.tools, cfg.tools)
<1> DEFINE list == handleToolsList(s)
           m == Len(s.tools)
<1>1. m \in Nat /\ DOMAIN s.tools = 1 .. m /\ \A i \in 1 .. m : s.tools[i].key \in Words
  BY DEF WellFormedTools, Registry
<1>2. list = [i \in 1 .. m |-> ToolInfo(s.tools[i])]
  BY <1>1 DEF handleToolsList
<1>3. Len(list) = m
  BY <1>1, <1>2
<1>4. \A e : ToolInfo(e).key = e.key /\ ToolInfo(e).description = e.description
  BY DEF ToolInfo
<1>5. \A i \in 1 .. m : list[i].key = s.tools[i].key /\ list[i].description = s.tools[i].description
  BY <1>2, <1>4
<1> HIDE DEF list
<1>6. Listing(list)
  BY <1>1, <1>3, <1>5 DEF Listing, WellFormedTools, Distinct
<1>7. ToolEntries(cfg, list) = ToolEntries(cfg, s.tools)
  BY <1>3, <1>5 DEF ToolEntries
<1>8. Allowed(list, cfg.tools) = Allowed(s.tools, cfg.tools)
  BY <1>3, <1>5 DEF Allowed
<1> QED
  BY <1>1, <1>3, <1>5, <1>6, <1>7, <1>8 DEF list

LEMMA ResourcesListed ==
  ASSUME NEW s, NEW cfg, WellFormedResources(s.resources)
  PROVE  LET list == handleResourcesList(s)
         IN /\ Len(list) = Len(s.resources) /\ Listing(list)
            /\ ResourceEntries(list) = ResourceEntries(s.resources)
            /\ Allowed(list, cfg.resources) = Allowed(s.resources, cfg.resources)
<1> DEFINE list == handleResourcesList(s)
           m == Len(s.resources)
<1>1. m \in Nat /\ DOMAIN s.resources = 1 .. m
  BY DEF WellFormedResources, Registry
<1>2. list = [i \in 1 .. m |-> ResourceInfo(s.resources[i])]
  BY <1>1 DEF handleResourcesList
<1>3. Len(list) = m
  BY <1>1, <1>2
<1>4. \A e : ResourceInfo(e).key = e.key /\ ResourceInfo(e).about = e.about
  BY DEF ResourceInfo
<1>5. \A i \in 1 .. m : list[i].key = s.resources[i].key /\ list[i].about = s.resources[i].about
  BY <1>2, <1>4
<1> HIDE DEF list
<1>6. Listing(list)
  BY <1>1, <1>3, <1>5 DEF Listing, WellFormedResources, Distinct
<1>7. ResourceEntries(list) = ResourceEntries(s.resources)
  BY <1>3, <1>5 DEF ResourceEntries
<1>8. Allowed(list, cfg.resources) = Allowed(s.resources, cfg.resources)
  BY <1>3, <1>5 DEF Allowed
<1> QED
  BY <1>3, <1>6, <1>7, <1>8 DEF list

LEMMA PromptsListed ==
  ASSUME NEW s, NEW cfg, WellFormedPrompts(s.prompts)
  PROVE  LET list == handlePromptsList(s)
         IN /\ Len(list) = Len(s.prompts) /\ Listing(list)
            /\ \A i \in 1 .. Len(list) : list[i].key \in Words
            /\ PromptEntries(cfg, list) = PromptEntries(cfg, s.prompts)
            /\ Allowed(list, cfg.prompts) = Allowed(s.prompts, cfg.prompts)
<1> DEFINE list == handlePromptsList(s)
           m == Len(s.prompts)
<1>1. m \in Nat /\ DOMAIN s.prompts = 1 .. m /\ \A i \in 1 .. m : s.prompts[i].key \in Words
  BY DEF WellFormedPrompts, Registry
<1>2. list = [i \in 1 .. m |-> PromptInfo(s.prompts[i])]
  BY <1>1 DEF handlePromptsList
<1>3. Len(list) = m
  BY <1>1, <1>2
<1>4. \A e : PromptInfo(e).key = e.key /\ PromptInfo(e).description = e.description
             /\ PromptInfo(e).arguments = e.arguments
  BY DEF PromptInfo
<1>5. \A i \in 1 .. m : /\ list[i].key = s.prompts[i].key /\ list[i].description = s.prompts[i].description
                        /\ list[i].arguments = s.prompts[i].arguments
  BY <1>2, <1>4
<1> HIDE DEF list
<1>6. Listing(list)
  BY <1>1, <1>3, <1>5 DEF Listing, WellFormedPrompts, Distinct
<1>7. PromptEntries(cfg, list) = PromptEntries(cfg, s.prompts)
  BY <1>3, <1>5 DEF PromptEntries
<1>8. Allowed(list, cfg.prompts) = Allowed(s.prompts, cfg.prompts)
  BY <1>3, <1>5 DEF Allowed
<1> QED
  BY <1>1, <1>3, <1>5, <1>6, <1>7, <1>8 DEF list

LEMMA ServerParts ==
  ASSUME NEW h, NEW a, NEW b, NEW c, NEW d
  PROVE  LET s == ServerOf(h, a, b, c, d)
         IN s.tools = a /\ s.resources = b /\ s.templates = c /\ s.prompts = d
BY DEF ServerOf

\* proxy.go:116: New registers of the backend's tools, resources and prompts those
\* the filters let through, in the backend's order and under the prefix, and all of
\* the configured templates; each entry forwards under the backend's own name.
THEOREM NewChooses ==
  ASSUME NEW before, NEW cfg, WellFormedServer(before), cfg.prefix \in Words,
         Len(cfg.templates) \in Nat, New(before, cfg).ok
  PROVE  Fronts(New(before, cfg).result, before, cfg)
<1>1. PICK name, version, instructions :
        New(before, cfg).result =
          registerPrompts(
            registerTemplates(
              registerResources(
                registerTools(NewServer(name, version, instructions), cfg, handleToolsList(before)),
                cfg, handleResourcesList(before)), cfg), cfg, handlePromptsList(before))
  <2>1. before.up = TRUE
    BY DEF New, Failed, WellFormedServer
  <2> QED
    BY <2>1 DEF New, Done
<1>2. PICK h : h = <<name, version, instructions>>
  OBVIOUS
<1>3. NewServer(name, version, instructions) = ServerOf(h, <<>>, <<>>, <<>>, <<>>)
  BY <1>2 DEF NewServer, ServerOf
<1>4. PICK tools, resources, prompts : /\ tools = handleToolsList(before)
                                       /\ resources = handleResourcesList(before)
                                       /\ prompts = handlePromptsList(before)
  OBVIOUS
<1>5. PICK T, R, P, M :
        /\ T = Chosen(ToolEntries(cfg, tools), Allowed(tools, cfg.tools), Len(tools))
        /\ R = Chosen(ResourceEntries(resources), Allowed(resources, cfg.resources), Len(resources))
        /\ P = Chosen(PromptEntries(cfg, prompts), Allowed(prompts, cfg.prompts), Len(prompts))
        /\ M = Firsts(TemplateEntries(cfg.templates), Len(cfg.templates))
  OBVIOUS
<1>6. registerTools(ServerOf(h, <<>>, <<>>, <<>>, <<>>), cfg, tools) = ServerOf(h, T, <<>>, <<>>, <<>>)
  <2>1. Listing(tools) /\ \A i \in 1 .. Len(tools) : tools[i].key \in Words
    BY <1>4, ToolsListed DEF WellFormedServer
  <2> QED
    BY <1>5, <2>1, ToolsRegistered
<1>7. registerResources(ServerOf(h, T, <<>>, <<>>, <<>>), cfg, resources) = ServerOf(h, T, R, <<>>, <<>>)
  <2>1. Listing(resources)
    BY <1>4, ResourcesListed DEF WellFormedServer
  <2> QED
    BY <1>5, <2>1, ResourcesRegistered
<1>8. registerTemplates(ServerOf(h, T, R, <<>>, <<>>), cfg) = ServerOf(h, T, R, M, <<>>)
  BY <1>5, TemplatesRegistered
<1>9. registerPrompts(ServerOf(h, T, R, M, <<>>), cfg, prompts) = ServerOf(h, T, R, M, P)
  <2>1. Listing(prompts) /\ \A i \in 1 .. Len(prompts) : prompts[i].key \in Words
    BY <1>4, PromptsListed DEF WellFormedServer
  <2> QED
    BY <1>5, <2>1, PromptsRegistered
<1>10. New(before, cfg).result = ServerOf(h, T, R, M, P)
  BY <1>1, <1>3, <1>4, <1>6, <1>7, <1>8, <1>9
<1>11. /\ T = Chosen(ToolEntries(cfg, before.tools), Allowed(before.tools, cfg.tools), Len(before.tools))
       /\ R = Chosen(ResourceEntries(before.resources), Allowed(before.resources, cfg.resources),
                     Len(before.resources))
       /\ P = Chosen(PromptEntries(cfg, before.prompts), Allowed(before.prompts, cfg.prompts),
                     Len(before.prompts))
  BY <1>4, <1>5, ToolsListed, ResourcesListed, PromptsListed DEF WellFormedServer
<1> QED
  BY <1>5, <1>10, <1>11, ServerParts DEF Fronts

-----------------------------------------------------------------------------
(* What is shown of a backend.                                              *)

\* What is found in a registry of chosen entries.
LEMMA ChosenFound ==
  ASSUME NEW E, NEW T, NEW n \in Nat, NEW key, NEW i \in 1 .. n, i \in T, E[i].key = key,
         \A j \in 1 .. n : j \in T /\ E[j].key = key => j = i
  PROVE  Known(Chosen(E, T, n), key) /\ Entry(Chosen(E, T, n), key) = E[i]
<1> DEFINE C == Chosen(E, T, n)
           K == Kept(T, n)
<1>1. /\ Len(C) = Len(K) /\ Len(K) \in Nat /\ \A j \in 1 .. Len(K) : C[j] = E[K[j]]
  BY ChosenOneMore
<1>2. /\ \A j \in 1 .. Len(K) : K[j] \in T /\ K[j] \in 1 .. n
      /\ \A a \in 1 .. n : a \in T => \E j \in 1 .. Len(K) : K[j] = a
      /\ \A j, k \in 1 .. Len(K) : K[j] = K[k] => j = k
  BY KeptHas DEF KeptHolds
<1> HIDE DEF C, K
<1>3. PICK j \in 1 .. Len(K) : K[j] = i
  BY <1>2
<1>4. C[j].key = key /\ C[j] = E[i]
  BY <1>1, <1>3
<1>5. \A k \in 1 .. Len(C) : C[k].key = key => k = j
  BY <1>1, <1>2, <1>3
<1>6. j \in 1 .. Len(C) /\ Len(C) \in Nat
  BY <1>1
<1> QED
  BY <1>4, <1>5, <1>6, FoundOnly DEF C

LEMMA ChosenMissing ==
  ASSUME NEW E, NEW T, NEW n \in Nat, NEW key, \A j \in 1 .. n : j \in T => E[j].key # key
  PROVE  ~Known(Chosen(E, T, n), key)
<1> DEFINE C == Chosen(E, T, n)
           K == Kept(T, n)
<1>1. /\ Len(C) = Len(K) /\ Len(K) \in Nat /\ \A j \in 1 .. Len(K) : C[j] = E[K[j]]
  BY ChosenOneMore
<1>2. \A j \in 1 .. Len(K) : K[j] \in T /\ K[j] \in 1 .. n
  BY KeptHas DEF KeptHolds
<1> HIDE DEF C, K
<1>3. Keyed(C, key) = {}
  BY <1>1, <1>2 DEF Keyed
<1>4. Len(C) \in Nat
  BY <1>1
<1> QED
  BY <1>3, <1>4, FindIs DEF C

\* What a proxy shows of a registry is what New chose of it.
LEMMA ShownIs ==
  ASSUME NEW entries, NEW keys, Registry(entries)
  PROVE  Shown(entries, keys) = Chosen(entries, Allowed(entries, keys), Len(entries))
<1> DEFINE T == Allowed(entries, keys)
           n == Len(entries)
<1>1. n \in Nat /\ DOMAIN entries = 1 .. n
  BY DEF Registry
<1>2. \A i \in 1 .. n : entries[i].key \in keys <=> i \in T
  BY DEF Allowed
<1> HIDE DEF T
<1>3. [i \in DOMAIN entries |-> IF entries[i].key \in keys THEN <<entries[i]>> ELSE <<>>] =
      [i \in 1 .. n |-> IF i \in T THEN <<entries[i]>> ELSE <<>>]
  BY <1>1, <1>2
<1>4. FlattenSeq([i \in 1 .. n |-> IF i \in T THEN <<entries[i]>> ELSE <<>>]) = Chosen(entries, T, n)
  BY <1>1, FilterIs
<1> QED
  BY <1>3, <1>4 DEF Shown, T

\* An entry that is shown under a prefix.
ShownAs(entries, keys, prefix, name, i) ==
  i \in 1 .. Len(entries) /\ entries[i].key \in keys /\ name = prefix \o entries[i].key

LEMMA AmongIs ==
  ASSUME NEW entries, NEW keys, NEW name, Registry(entries)
  PROVE  Among(Shown(entries, keys), name) <=> \E i : ShownAs(entries, keys, t.cfg.prefix, name, i)
<1> DEFINE T == Allowed(entries, keys)
           n == Len(entries)
           C == Shown(entries, keys)
           K == Kept(T, n)
<1>1. n \in Nat
  BY DEF Registry
<1>2. C = Chosen(entries, T, n)
  BY ShownIs
<1>3. DOMAIN C = 1 .. Len(K) /\ \A j \in 1 .. Len(K) : C[j] = entries[K[j]]
  BY <1>2 DEF Chosen
<1>4. /\ \A j \in 1 .. Len(K) : K[j] \in T /\ K[j] \in 1 .. n
      /\ \A a \in 1 .. n : a \in T => \E j \in 1 .. Len(K) : K[j] = a
  BY <1>1, KeptHas DEF KeptHolds
<1> HIDE DEF C, K
<1>5. ASSUME NEW j \in DOMAIN C, name = t.cfg.prefix \o C[j].key
      PROVE  \E i : ShownAs(entries, keys, t.cfg.prefix, name, i)
  <2>1. ShownAs(entries, keys, t.cfg.prefix, name, K[j])
    BY <1>3, <1>4, <1>5 DEF ShownAs, Allowed, T
  <2> QED
    BY <2>1
<1>6. ASSUME NEW i, ShownAs(entries, keys, t.cfg.prefix, name, i)
      PROVE  \E j \in DOMAIN C : name = t.cfg.prefix \o C[j].key
  <2>1. i \in 1 .. n /\ i \in T /\ name = t.cfg.prefix \o entries[i].key
    BY <1>6 DEF ShownAs, Allowed
  <2>2. PICK j \in 1 .. Len(K) : K[j] = i
    BY <1>4, <2>1
  <2> QED
    BY <1>3, <2>1, <2>2
<1> QED
  BY <1>5, <1>6 DEF Among, C

LEMMA UnprefixedIs ==
  ASSUME NEW name, NEW key \in Words, t.cfg.prefix \in Words, name = t.cfg.prefix \o key
  PROVE  Unprefixed(name) = key
<1> DEFINE p == t.cfg.prefix
<1>1. SubSeq(p \o key, Len(p) + 1, Len(p \o key)) = key
  <2> HIDE DEF p
  <2>1. p \in Words
    BY DEF p
  <2> QED
    BY <2>1 DEF Words
<1> QED
  BY <1>1 DEF Unprefixed, From

-----------------------------------------------------------------------------
(* A tool call answered by a backend.                                       *)

\* Some words.
Wording(w) == \E S : w \in Seq(S)

\* A text of one block is that text, or the words for none.
LEMMA JoinOne ==
  ASSUME NEW w, Wording(w)
  PROVE  joinTextContent(<<NewTextContent(w)>>) = IF w # <<>> THEN w ELSE <<"tool error">>
<1> DEFINE content == <<NewTextContent(w)>>
           texts == FlattenSeq([i \in DOMAIN content |->
                      IF content[i].text # <<>> THEN <<content[i].text>> ELSE <<>>])
<1>1. content[1].text = w /\ DOMAIN content = 1 .. 1
  BY DEF NewTextContent
<1> HIDE DEF content
<1>2. CASE w # <<>>
  <2>1. [i \in DOMAIN content |-> IF content[i].text # <<>> THEN <<content[i].text>> ELSE <<>>] = <<<<w>>>>
    BY <1>1, <1>2
  <2>2. PICK R : R = {w}
    OBVIOUS
  <2>3. <<w>> \in Seq(R)
    BY <2>2
  <2>4. texts = <<w>>
    BY <2>1, <2>3, FlattenOne
  <2>5. joinTextContent(content) = Join(texts, <<"\n">>)
    <3>1. texts # <<>>
      BY <2>4
    <3> QED
      BY <3>1 DEF joinTextContent
  <2> HIDE DEF texts
  <2>6. Join(<<w>>, <<"\n">>) = FlattenSeq([i \in DOMAIN <<w>> |-> IF i = 1 THEN <<w>>[i] ELSE <<"\n">> \o <<w>>[i]])
    BY DEF Join
  <2>7. [i \in DOMAIN <<w>> |-> IF i = 1 THEN <<w>>[i] ELSE <<"\n">> \o <<w>>[i]] = <<w>>
    OBVIOUS
  <2>8. FlattenSeq(<<w>>) = w
    BY FlattenOne DEF Wording
  <2> QED
    BY <1>2, <2>4, <2>5, <2>6, <2>7, <2>8 DEF content
<1>3. CASE w = <<>>
  <2>1. [i \in DOMAIN content |-> IF content[i].text # <<>> THEN <<content[i].text>> ELSE <<>>] = <<<<>>>>
    BY <1>1, <1>3
  <2>2. <<>> \in Seq({})
    OBVIOUS
  <2>3. texts = <<>>
    BY <2>1, <2>2, FlattenOne
  <2> QED
    BY <1>3, <2>3 DEF joinTextContent, content
<1> QED
  BY <1>2, <1>3

LEMMA FailedIs ==
  ASSUME NEW code, NEW text
  PROVE  Failed(code, text).ok = FALSE /\ Failed(code, text).code = code /\ Failed(code, text).text = text
BY DEF Failed

LEMMA OneWord == ASSUME NEW w PROVE Wording(<<w>>)
BY OneTyped DEF Wording

ToolAsk(key, args) == [name |-> key, args |-> args]
\* The two ways a tool may end: with an error that is one text, or with a result.
ErrorText(a, w) == a.ok = TRUE /\ a.result.isError = TRUE /\ a.result.content = <<NewTextContent(w)>>
ToolEnds(a) ==
  \/ a.ok = FALSE
  \/ \E w : Wording(w) /\ ErrorText(a, w)
  \/ a.ok = TRUE /\ a.result.isError = FALSE

LEMMA EntryPlace ==
  ASSUME NEW entries, NEW key, Len(entries) \in Nat, Known(entries, key)
  PROVE  \E i \in 1 .. Len(entries) : Entry(entries, key) = entries[i] /\ entries[i].key = key
BY FindIs DEF Entry, Keyed

LEMMA ResultIs ==
  ASSUME NEW tool, NEW out
  PROVE  LET r == Done(ToolResult(tool, out))
         IN /\ r.ok = TRUE
            /\ ~out.ok => r.result.isError = TRUE /\ r.result.content = <<NewTextContent(out.text)>>
            /\ out.ok => r.result.isError = FALSE /\ r.result.content = toContent(out.value)
<1>1. Done(ToolResult(tool, out)).ok = TRUE /\ Done(ToolResult(tool, out)).result = ToolResult(tool, out)
  BY DEF Done
<1>2. ~out.ok => ToolResult(tool, out).isError = TRUE /\ ToolResult(tool, out).content = <<NewTextContent(out.text)>>
  BY DEF ToolResult
<1>3. out.ok => ToolResult(tool, out).isError = FALSE /\ ToolResult(tool, out).content = toContent(out.value)
  <2>1. PICK c, f, x : /\ c = toContent(out.value) /\ f = FALSE
                       /\ x = IF tool.structured /\ out.value # NilValue THEN out.value.text ELSE <<>>
    OBVIOUS
  <2>2. out.ok => ToolResult(tool, out) = [content |-> c, isError |-> f, structured |-> x]
    BY <2>1 DEF ToolResult
  <2> QED
    BY <2>1, <2>2
<1> QED
  BY <1>1, <1>2, <1>3

LEMMA ErrorIs ==
  ASSUME NEW tool, NEW out, ~out.ok, NEW a, a = Done(ToolResult(tool, out))
  PROVE  ErrorText(a, out.text)
<1>1. a.ok = TRUE
  BY DEF Done
<1>2. a.result = ToolResult(tool, out)
  BY DEF Done
<1>3. PICK c, f, x : c = <<NewTextContent(out.text)>> /\ f = TRUE /\ x = <<>>
  OBVIOUS
<1>4. ToolResult(tool, out) = [content |-> c, structured |-> x, isError |-> f]
  BY <1>3 DEF ToolResult
<1> QED
  BY <1>1, <1>2, <1>3, <1>4 DEF ErrorText

LEMMA BackendTool ==
  ASSUME NEW s, WellFormedServer(s), NEW key, NEW args, NEW a \in Backed(s, "tools/call", ToolAsk(key, args))
  PROVE  ToolEnds(a) /\ (args = "not an object" => a.ok = FALSE \/ ErrorText(a, <<"invalid arguments">>))
<1>1. CASE ~s.up
  <2>1. a = Failed("transport", <<"closed">>)
    BY <1>1 DEF Backed, callServer
  <2> QED
    BY <2>1, FailedIs DEF ToolEnds
<1>2. CASE s.up
  <2>1. a \in route(Nobody, s, "tools/call", ToolAsk(key, args))
    BY <1>2 DEF Backed, callServer
  <2>2. ToolAsk(key, args).name = key /\ ToolAsk(key, args).args = args
    BY DEF ToolAsk
  <2>3. CASE ~Known(s.tools, key)
    <3>1. a = Failed("invalid params", <<"unknown tool">>)
      BY <2>1, <2>2, <2>3 DEF route, handleToolsCall
    <3> QED
      BY <3>1, FailedIs DEF ToolEnds
  <2>4. CASE Known(s.tools, key)
    <3>1. PICK e : e = Entry(s.tools, key)
      OBVIOUS
    <3>2. WellFormedTools(s.tools) /\ Registry(s.tools)
      BY DEF WellFormedServer, WellFormedTools
    <3>3. PICK i \in 1 .. Len(s.tools) : e = s.tools[i]
      BY <2>4, <3>1, <3>2, EntryPlace DEF Registry
    <3>4. e.handler.kind = "own" /\ "not an object" \notin DOMAIN e.handler.does
      BY <3>2, <3>3 DEF WellFormedTools, Registry
    <3>5. \A x \in DOMAIN e.handler.does : ~e.handler.does[x].ok => Wording(e.handler.does[x].text)
      BY <3>2, <3>3 DEF WellFormedTools, Registry, Words, Wording
    <3>6. PICK out : /\ out = IF args \in DOMAIN e.handler.does THEN e.handler.does[args]
                              ELSE ToolFailed(<<"invalid arguments">>)
                     /\ a = Done(ToolResult(e, out))
      BY <2>1, <2>2, <2>4, <3>1, <3>4 DEF route, handleToolsCall, CallHandler
    <3>7. Wording(<<"invalid arguments">>)
      BY OneWord
    <3>8. ToolFailed(<<"invalid arguments">>).ok = FALSE
          /\ ToolFailed(<<"invalid arguments">>).text = <<"invalid arguments">>
      BY DEF ToolFailed
    <3>9. CASE args \in DOMAIN e.handler.does
      <4>1. out = e.handler.does[args] /\ args # "not an object"
        BY <3>4, <3>6, <3>9
      <4>2. ~out.ok => Wording(out.text)
        BY <3>5, <3>9, <4>1
      <4> HIDE DEF ToolEnds
      <4>3. CASE out.ok
        BY <3>6, <4>1, <4>3, ResultIs DEF ToolEnds
      <4>4. CASE ~out.ok
        <5>1. ErrorText(a, out.text)
          BY <3>6, <4>4, ErrorIs
        <5> QED
          BY <4>1, <4>2, <4>4, <5>1 DEF ToolEnds
      <4> QED
        BY <4>3, <4>4
    <3>10. CASE args \notin DOMAIN e.handler.does
      <4>1. out = ToolFailed(<<"invalid arguments">>)
        BY <3>6, <3>10
      <4>2. ErrorText(a, <<"invalid arguments">>)
        <5>1. out.ok = FALSE /\ out.text = <<"invalid arguments">> /\ a = Done(ToolResult(e, out))
          BY <3>6, <3>8, <4>1
        <5>2. ErrorText(a, out.text)
          BY <5>1, ErrorIs
        <5> QED
          BY <5>1, <5>2
      <4> QED
        BY <3>7, <4>2 DEF ToolEnds
    <3> QED
      BY <3>9, <3>10
  <2> QED
    BY <2>3, <2>4
<1> QED
  BY <1>1, <1>2

\* A client of the backend is always answered.
LEMMA BackendAnswersTool ==
  ASSUME NEW s, WellFormedServer(s), NEW key, NEW args
  PROVE  \E a : a \in Backed(s, "tools/call", ToolAsk(key, args))
<1>1. ToolAsk(key, args).name = key /\ ToolAsk(key, args).args = args
  BY DEF ToolAsk
<1>2. CASE ~s.up
  BY <1>2 DEF Backed, callServer
<1>3. CASE s.up /\ ~Known(s.tools, key)
  BY <1>1, <1>3 DEF Backed, callServer, route, handleToolsCall
<1>4. CASE s.up /\ Known(s.tools, key)
  <2>1. PICK e : e = Entry(s.tools, key)
    OBVIOUS
  <2>2. PICK i \in 1 .. Len(s.tools) : e = s.tools[i]
    <3>1. Len(s.tools) \in Nat
      BY DEF WellFormedServer, WellFormedTools, Registry
    <3> QED
      BY <1>4, <2>1, <3>1, EntryPlace
  <2>3. e.handler.kind = "own"
    BY <2>2 DEF WellFormedServer, WellFormedTools, Registry
  <2> QED
    BY <1>1, <1>4, <2>1, <2>3 DEF Backed, callServer, route, handleToolsCall, CallHandler
<1> QED
  BY <1>2, <1>3, <1>4

-----------------------------------------------------------------------------
(* A tool call through the proxy.                                           *)

\* The one kind of handler a proxy has.
LEMMA ForwardIs == ASSUME NEW k PROVE forward(k).kind = "forward" /\ forward(k).name = k
BY DEF forward

\* Where a name leads, if entries are kept under a prefix.
BehindPrefix(E, entries, prefix) ==
  \A i \in 1 .. Len(entries) : E[i].key = prefix \o entries[i].key /\ E[i].handler = forward(entries[i].key)

LEMMA PrefixedFound ==
  ASSUME NEW E, NEW entries, NEW keys, NEW prefix \in Words, NEW name, NEW i, Len(entries) \in Nat,
         \A j \in 1 .. Len(entries) : entries[j].key \in Words,
         \A j, k \in 1 .. Len(entries) : entries[j].key = entries[k].key => j = k,
         BehindPrefix(E, entries, prefix), ShownAs(entries, keys, prefix, name, i)
  PROVE  LET C == Chosen(E, Allowed(entries, keys), Len(entries))
         IN Known(C, name) /\ Entry(C, name) = E[i]
<1> DEFINE T == Allowed(entries, keys)
           n == Len(entries)
<1>1. i \in 1 .. n /\ i \in T /\ E[i].key = name
  BY DEF BehindPrefix, ShownAs, Allowed
<1>2. \A j \in 1 .. n : j \in T /\ E[j].key = name => j = i
  <2>1. ASSUME NEW j \in 1 .. n, E[j].key = name PROVE j = i
    <3>1. prefix \o entries[j].key = prefix \o entries[i].key
      BY <1>1, <2>1 DEF BehindPrefix
    <3>2. entries[j].key = entries[i].key
      BY <1>1, <3>1, PrefixIsOwn
    <3> QED
      BY <1>1, <3>2
  <2> QED
    BY <2>1
<1> HIDE DEF T
<1> QED
  BY <1>1, <1>2, ChosenFound DEF T

LEMMA PrefixedMissing ==
  ASSUME NEW E, NEW entries, NEW keys, NEW prefix, NEW name, Len(entries) \in Nat,
         BehindPrefix(E, entries, prefix), ~\E i : ShownAs(entries, keys, prefix, name, i)
  PROVE  ~Known(Chosen(E, Allowed(entries, keys), Len(entries)), name)
<1> DEFINE T == Allowed(entries, keys)
<1>1. \A i \in 1 .. Len(entries) : i \in T => E[i].key # name
  BY DEF BehindPrefix, ShownAs, Allowed
<1> HIDE DEF T
<1> QED
  BY <1>1, ChosenMissing DEF T

LEMMA ToolEntriesAre ==
  ASSUME NEW cfg, NEW tools
  PROVE  /\ BehindPrefix(ToolEntries(cfg, tools), tools, cfg.prefix)
         /\ \A i \in 1 .. Len(tools) : ToolEntries(cfg, tools)[i].structured = FALSE
<1>1. ASSUME NEW i \in 1 .. Len(tools)
      PROVE  /\ ToolEntries(cfg, tools)[i].key = cfg.prefix \o tools[i].key
             /\ ToolEntries(cfg, tools)[i].handler = forward(tools[i].key)
             /\ ToolEntries(cfg, tools)[i].structured = FALSE
  <2>1. PICK k, d, f, to : /\ k = cfg.prefix \o tools[i].key /\ d = tools[i].description
                           /\ f = FALSE /\ to = forward(tools[i].key)
    OBVIOUS
  <2>2. PICK e : e = ToolEntries(cfg, tools)[i]
    OBVIOUS
  <2>3. e = [key |-> k, description |-> d, structured |-> f, handler |-> to]
    BY <2>1, <2>2 DEF ToolEntries
  <2>4. e.key = k /\ e.handler = to /\ e.structured = f
    BY <2>3
  <2> QED
    BY <2>1, <2>2, <2>4
<1> QED
  BY <1>1 DEF BehindPrefix

\* A tool call through the proxy.
ToolRelayed(after, key, args, answer) ==
  \E e, out : /\ e.structured = FALSE /\ answer = Done(ToolResult(e, out))
              /\ IF args = "not an object" THEN out = ToolFailed(<<"invalid arguments">>)
                 ELSE \E a \in Backed(after, "tools/call", ToolAsk(key, args)) : out = forwardTool(a)

LEMMA ProxiedTool ==
  ASSUME NEW before, NEW after, NEW cfg, NEW p, NEW name, NEW args, NEW i, NEW answer,
         WellFormedServer(before), cfg.prefix \in Words, Fronts(p, before, cfg),
         ShownAs(before.tools, cfg.tools, cfg.prefix, name, i),
         answer \in Proxied(after, p, "tools/call", ToolAsk(name, args))
  PROVE  ToolRelayed(after, before.tools[i].key, args, answer)
<1> DEFINE tools == before.tools
           E == ToolEntries(cfg, tools)
<1>1. /\ Len(tools) \in Nat
      /\ \A j \in 1 .. Len(tools) : tools[j].key \in Words
      /\ \A j, k \in 1 .. Len(tools) : tools[j].key = tools[k].key => j = k
  BY DEF WellFormedServer, WellFormedTools, Registry, Distinct
<1>2. BehindPrefix(E, tools, cfg.prefix) /\ i \in 1 .. Len(tools)
  BY ToolEntriesAre DEF ShownAs
<1>3. PICK e : e = E[i]
  OBVIOUS
<1>4. e.structured = FALSE /\ e.handler = forward(tools[i].key)
  <2>1. E[i].structured = FALSE
    BY <1>2, ToolEntriesAre
  <2>2. E[i].handler = forward(tools[i].key)
    <3> HIDE DEF E
    <3> QED
      BY <1>2 DEF BehindPrefix
  <2> QED
    BY <1>3, <2>1, <2>2
<1> HIDE DEF E
<1>5. Known(p.tools, name) /\ Entry(p.tools, name) = e
  BY <1>1, <1>2, <1>3, PrefixedFound DEF Fronts, E
<1>6. ToolAsk(name, args).name = name /\ ToolAsk(name, args).args = args
  BY DEF ToolAsk
<1>7. e.handler.kind = "forward" /\ e.handler.name = tools[i].key
  BY <1>4, ForwardIs
<1>8. CASE args = "not an object"
  <2>1. answer = Done(ToolResult(e, ToolFailed(<<"invalid arguments">>)))
    BY <1>5, <1>6, <1>7, <1>8 DEF Proxied, route, handleToolsCall, CallHandler
  <2> QED
    BY <1>4, <1>8, <2>1 DEF ToolRelayed
<1>9. CASE args # "not an object"
  <2>1. \E a \in Backed(after, "tools/call", [name |-> tools[i].key, args |-> args]) :
          answer = Done(ToolResult(e, forwardTool(a)))
    BY <1>5, <1>6, <1>7, <1>9 DEF Proxied, route, handleToolsCall, CallHandler
  <2>2. \E a \in Backed(after, "tools/call", ToolAsk(tools[i].key, args)) :
          answer = Done(ToolResult(e, forwardTool(a)))
    BY <2>1 DEF ToolAsk
  <2> QED
    BY <1>4, <1>9, <2>2 DEF ToolRelayed
<1> QED
  BY <1>8, <1>9

LEMMA UnknownTool ==
  ASSUME NEW before, NEW after, NEW cfg, NEW p, NEW name, NEW args, NEW answer,
         WellFormedServer(before), Fronts(p, before, cfg),
         ~\E i : ShownAs(before.tools, cfg.tools, cfg.prefix, name, i),
         answer \in Proxied(after, p, "tools/call", ToolAsk(name, args))
  PROVE  Unknown(answer)
<1> DEFINE tools == before.tools
<1>1. Len(tools) \in Nat
  BY DEF WellFormedServer, WellFormedTools, Registry
<1>2. BehindPrefix(ToolEntries(cfg, tools), tools, cfg.prefix)
  BY ToolEntriesAre
<1>3. ~Known(p.tools, name)
  BY <1>1, <1>2, PrefixedMissing DEF Fronts
<1>4. ToolAsk(name, args).name = name
  BY DEF ToolAsk
<1>5. answer = Failed("invalid params", <<"unknown tool">>)
  BY <1>3, <1>4 DEF Proxied, route, handleToolsCall
<1> QED
  BY <1>5, FailedIs DEF Unknown

\* Two tool errors of which one has the other's words.
LEMMA SameError ==
  ASSUME NEW a, NEW b, NEW w, NEW v, ErrorText(a, w), ErrorText(b, v), ToSet(w) \subseteq ToSet(v)
  PROVE  SameTool(a, b)
<1>1. /\ a.ok = TRUE /\ a.result.isError = TRUE /\ a.result.content = <<NewTextContent(w)>>
      /\ b.ok = TRUE /\ b.result.isError = TRUE /\ b.result.content = <<NewTextContent(v)>>
  BY DEF ErrorText
<1>2. \A x : NewTextContent(x).text = x
  BY DEF NewTextContent
<1>3. \A i \in DOMAIN a.result.content :
        ToSet(a.result.content[i].text) \subseteq ToSet(b.result.content[1].text)
  BY <1>1, <1>2
<1> QED
  BY <1>1, <1>3 DEF SameTool

\* However the backend's tool ends, the proxy's ends as it did.
LEMMA RelayedTool ==
  ASSUME NEW a, NEW e, NEW out, NEW answer, ToolEnds(a), out = forwardTool(a),
         answer = Done(ToolResult(e, out))
  PROVE  SameTool(a, answer)
<1>1. answer.ok = TRUE
  BY ResultIs
<1>2. ASSUME NEW text PROVE ToolFailed(text).ok = FALSE /\ ToolFailed(text).text = text
  BY DEF ToolFailed
<1>3. CASE a.ok = FALSE
  <2>1. out.ok = FALSE
    BY <1>2, <1>3 DEF forwardTool
  <2>2. ErrorText(answer, out.text)
    BY <2>1, ErrorIs
  <2> QED
    BY <1>1, <1>3, <2>2 DEF ErrorText, SameTool
<1>4. ASSUME NEW w, Wording(w), ErrorText(a, w) PROVE SameTool(a, answer)
  <2>1. out = ToolFailed(joinTextContent(<<NewTextContent(w)>>))
    BY <1>4 DEF ErrorText, forwardTool
  <2>2. PICK text : text = joinTextContent(<<NewTextContent(w)>>)
    OBVIOUS
  <2>3. out.ok = FALSE /\ out.text = text
    BY <1>2, <2>1, <2>2
  <2>4. ErrorText(answer, text)
    BY <2>3, ErrorIs
  <2>5. ToSet(w) \subseteq ToSet(text)
    <3>1. CASE w # <<>>
      BY <1>4, <2>2, <3>1, JoinOne
    <3>2. CASE w = <<>>
      BY <3>2 DEF ToSet
    <3> QED
      BY <3>1, <3>2
  <2> QED
    BY <1>4, <2>4, <2>5, SameError
<1>5. CASE a.ok = TRUE /\ a.result.isError = FALSE
  <2>1. PICK b : out = Returned([kind |-> "content", blocks |-> b])
                 /\ (b = a.result.content \/ (a.result.content = <<>> /\ b = <<NewTextContent(a.result.structured)>>))
    <3>1. CASE a.result.content = <<>> /\ a.result.structured # <<>>
      BY <1>5, <3>1 DEF forwardTool
    <3>2. CASE ~(a.result.content = <<>> /\ a.result.structured # <<>>)
      BY <1>5, <3>2 DEF forwardTool
    <3> QED
      BY <3>1, <3>2
  <2>2. out.ok = TRUE /\ out.value = [kind |-> "content", blocks |-> b]
    BY <2>1 DEF Returned
  <2>3. toContent(out.value) = b
    BY <2>2 DEF toContent
  <2>4. answer.result.isError = FALSE /\ answer.result.content = b
    BY <2>2, <2>3, ResultIs
  <2> QED
    BY <1>1, <1>5, <2>1, <2>4 DEF SameTool
<1> QED
  BY <1>3, <1>4, <1>5 DEF ToolEnds

\* A call with arguments no tool decodes.
LEMMA RefusedTool ==
  ASSUME NEW a, NEW e, NEW answer, a.ok = FALSE \/ ErrorText(a, <<"invalid arguments">>),
         answer = Done(ToolResult(e, ToolFailed(<<"invalid arguments">>)))
  PROVE  SameTool(a, answer)
<1>1. PICK w : w = <<"invalid arguments">>
  OBVIOUS
<1>2. ToolFailed(w).ok = FALSE /\ ToolFailed(w).text = w
  BY DEF ToolFailed
<1>3. ErrorText(answer, w)
  <2>1. PICK out : out = ToolFailed(w)
    OBVIOUS
  <2> QED
    BY <1>1, <1>2, <2>1, ErrorIs
<1>4. NewTextContent(w).text = w
  BY DEF NewTextContent
<1>5. CASE a.ok = FALSE
  BY <1>3, <1>5 DEF ErrorText, SameTool
<1>6. CASE ErrorText(a, w)
  BY <1>3, <1>6, SameError
<1> QED
  BY <1>1, <1>5, <1>6

-----------------------------------------------------------------------------
(* Prompts.                                                                 *)

LEMMA DoneIs == ASSUME NEW result PROVE Done(result).ok = TRUE /\ Done(result).result = result
BY DEF Done

LEMMA PromptEntriesBehind ==
  ASSUME NEW cfg, NEW prompts
  PROVE  BehindPrefix(PromptEntries(cfg, prompts), prompts, cfg.prefix)
<1>1. ASSUME NEW i \in 1 .. Len(prompts)
      PROVE  /\ PromptEntries(cfg, prompts)[i].key = cfg.prefix \o prompts[i].key
             /\ PromptEntries(cfg, prompts)[i].handler = forward(prompts[i].key)
  <2>1. PICK e, k, to : e = PromptEntries(cfg, prompts)[i] /\ k = Behind(cfg, prompts[i].key)
                        /\ to = forward(prompts[i].key)
    OBVIOUS
  <2>2. e.key = k /\ e.handler = to
    BY <2>1, PromptEntriesAre
  <2> QED
    BY <2>1, <2>2 DEF Behind
<1> QED
  BY <1>1 DEF BehindPrefix

\* An answer that says whether it is one.
Decided(a) == a.ok \in BOOLEAN

LEMMA DecidedEither ==
  ASSUME NEW a, (\E r : a = Done(r)) \/ (\E code, text : a = Failed(code, text))
  PROVE  Decided(a)
<1>1. CASE \E r : a = Done(r)
  BY <1>1, DoneIs DEF Decided
<1>2. CASE \E code, text : a = Failed(code, text)
  <2>1. PICK code, text : a = Failed(code, text)
    BY <1>2
  <2>2. a = [ok |-> FALSE, code |-> code, text |-> text]
    BY <2>1 DEF Failed
  <2> QED
    BY <2>2 DEF Decided
<1> QED
  BY <1>1, <1>2

LEMMA BackendPrompt ==
  ASSUME NEW s, WellFormedServer(s), NEW key, NEW args, NEW a \in Backed(s, "prompts/get", ToolAsk(key, args))
  PROVE  Decided(a)
<1>1. ToolAsk(key, args).name = key /\ ToolAsk(key, args).args = args
  BY DEF ToolAsk
<1>2. CASE ~s.up
  <2>1. a = Failed("transport", <<"closed">>)
    BY <1>2 DEF Backed, callServer
  <2> QED
    BY <2>1, DecidedEither
<1>3. CASE s.up /\ ~Known(s.prompts, key)
  <2>1. a = Failed("invalid params", <<"unknown prompt">>)
    BY <1>1, <1>3 DEF Backed, callServer, route, handlePromptsGet
  <2> QED
    BY <2>1, DecidedEither
<1>4. CASE s.up /\ Known(s.prompts, key)
  <2>1. PICK e : e = Entry(s.prompts, key)
    OBVIOUS
  <2>2. PICK i \in 1 .. Len(s.prompts) : e = s.prompts[i]
    <3>1. Len(s.prompts) \in Nat
      BY DEF WellFormedServer, WellFormedPrompts, Registry
    <3> QED
      BY <1>4, <2>1, <3>1, EntryPlace
  <2>3. e.handler.kind = "own"
    BY <2>2 DEF WellFormedServer, WellFormedPrompts, Registry
  <2>4. PICK out : a = PromptAnswer(e, out)
    BY <1>1, <1>4, <2>1, <2>3 DEF Backed, callServer, route, handlePromptsGet
  <2>5. PICK r : a = Done(r) \/ a = Failed("internal", r)
    BY <2>4 DEF PromptAnswer
  <2> QED
    BY <2>5, DecidedEither
<1> QED
  BY <1>2, <1>3, <1>4

LEMMA PromptFound ==
  ASSUME NEW before, NEW cfg, NEW p, NEW name, NEW i,
         WellFormedServer(before), cfg.prefix \in Words, Fronts(p, before, cfg),
         ShownAs(before.prompts, cfg.prompts, cfg.prefix, name, i)
  PROVE  /\ Known(p.prompts, name)
         /\ Entry(p.prompts, name).handler = forward(before.prompts[i].key)
         /\ Entry(p.prompts, name).completer = forward(before.prompts[i].key)
<1> DEFINE prompts == before.prompts
           E == PromptEntries(cfg, prompts)
<1>1. /\ Len(prompts) \in Nat
      /\ \A j \in 1 .. Len(prompts) : prompts[j].key \in Words
      /\ \A j, k \in 1 .. Len(prompts) : prompts[j].key = prompts[k].key => j = k
  BY DEF WellFormedServer, WellFormedPrompts, Registry, Distinct
<1>2. BehindPrefix(E, prompts, cfg.prefix) /\ i \in 1 .. Len(prompts)
  BY PromptEntriesBehind DEF ShownAs
<1>3. PICK e : e = E[i]
  OBVIOUS
<1>4. e.handler = forward(prompts[i].key) /\ e.completer = forward(prompts[i].key)
  BY <1>2, <1>3, PromptEntriesAre
<1> HIDE DEF E
<1>5. Known(p.prompts, name) /\ Entry(p.prompts, name) = e
  BY <1>1, <1>2, <1>3, PrefixedFound DEF Fronts, E
<1> QED
  BY <1>4, <1>5

LEMMA ProxiedPrompt ==
  ASSUME NEW before, NEW after, NEW cfg, NEW p, NEW name, NEW args, NEW i, NEW answer,
         WellFormedServer(before), WellFormedServer(after), cfg.prefix \in Words, Fronts(p, before, cfg),
         ShownAs(before.prompts, cfg.prompts, cfg.prefix, name, i),
         answer \in Proxied(after, p, "prompts/get", ToolAsk(name, args))
  PROVE  \E a \in Backed(after, "prompts/get", ToolAsk(before.prompts[i].key, args)) : SamePrompt(a, answer)
<1>1. PICK e, key : e = Entry(p.prompts, name) /\ key = before.prompts[i].key
  OBVIOUS
<1>2. Known(p.prompts, name) /\ e.handler = forward(key)
  BY <1>1, PromptFound
<1>3. e.handler.kind = "forward" /\ e.handler.name = key
  BY <1>2, ForwardIs
<1>4. ToolAsk(name, args).name = name /\ ToolAsk(name, args).args = args
  BY DEF ToolAsk
<1>5. \E a \in Backed(after, "prompts/get", [name |-> key, args |-> args]) :
        answer = PromptAnswer(e, forwardPrompt(a))
  BY <1>1, <1>2, <1>3, <1>4 DEF Proxied, route, handlePromptsGet
<1>6. PICK a \in Backed(after, "prompts/get", ToolAsk(key, args)) : answer = PromptAnswer(e, forwardPrompt(a))
  BY <1>5 DEF ToolAsk
<1>7. a.ok \in BOOLEAN
  BY BackendPrompt DEF Decided
<1>8. CASE a.ok
  <2>1. PICK m : m = a.result.messages
    OBVIOUS
  <2>2. PICK out : out = forwardPrompt(a)
    OBVIOUS
  <2>3. out.ok = TRUE /\ out.messages = m
    BY <1>8, <2>1, <2>2 DEF forwardPrompt
  <2>4. PICK d : d = e.description
    OBVIOUS
  <2>5. answer = Done([description |-> d, messages |-> m])
    BY <1>6, <2>2, <2>3, <2>4 DEF PromptAnswer
  <2>6. answer.ok = TRUE /\ answer.result = [description |-> d, messages |-> m]
    BY <2>5, DoneIs
  <2>7. answer.result.messages = m
    BY <2>6
  <2> QED
    BY <1>1, <1>7, <1>8, <2>1, <2>6, <2>7 DEF SamePrompt
<1>9. CASE ~a.ok
  <2>1. PICK out, text : out = forwardPrompt(a) /\ text = a.text
    OBVIOUS
  <2>2. out.ok = FALSE /\ out.text = text
    BY <1>9, <2>1 DEF forwardPrompt
  <2>3. answer = Failed("internal", text)
    BY <1>6, <2>1, <2>2 DEF PromptAnswer
  <2>4. answer.ok = FALSE /\ answer.text = text
    BY <2>3, FailedIs
  <2> QED
    BY <1>1, <1>7, <1>9, <2>1, <2>4 DEF SamePrompt
<1> QED
  BY <1>8, <1>9

LEMMA UnknownPrompt ==
  ASSUME NEW before, NEW after, NEW cfg, NEW p, NEW name, NEW args, NEW answer,
         WellFormedServer(before), Fronts(p, before, cfg),
         ~\E i : ShownAs(before.prompts, cfg.prompts, cfg.prefix, name, i),
         answer \in Proxied(after, p, "prompts/get", ToolAsk(name, args))
  PROVE  Unknown(answer)
<1> DEFINE prompts == before.prompts
<1>1. Len(prompts) \in Nat
  BY DEF WellFormedServer, WellFormedPrompts, Registry
<1>2. BehindPrefix(PromptEntries(cfg, prompts), prompts, cfg.prefix)
  BY PromptEntriesBehind
<1>3. ~Known(p.prompts, name)
  BY <1>1, <1>2, PrefixedMissing DEF Fronts
<1>4. ToolAsk(name, args).name = name
  BY DEF ToolAsk
<1>5. answer = Failed("invalid params", <<"unknown prompt">>)
  BY <1>3, <1>4 DEF Proxied, route, handlePromptsGet
<1> QED
  BY <1>5, FailedIs DEF Unknown

-----------------------------------------------------------------------------
(* Completion.                                                              *)

CompleteAsk(y, n, argument, value) ==
  [ref |-> [type |-> y, name |-> n], argument |-> argument, value |-> value]

LEMMA CompleteAskIs ==
  ASSUME NEW y, NEW n, NEW argument, NEW value, NEW k
  PROVE  /\ CompleteAsk(y, n, argument, value).ref.type = y
         /\ CompleteAsk(y, n, argument, value).ref.name = n
         /\ [CompleteAsk(y, n, argument, value) EXCEPT !.ref.name = k] = CompleteAsk(y, k, argument, value)
<1>1. PICK r, q : r = [type |-> y, name |-> n] /\ q = [r EXCEPT !.name = k]
  OBVIOUS
<1>2. r.type = y /\ r.name = n /\ q = [type |-> y, name |-> k]
  BY <1>1
<1>3. PICK x : x = [ref |-> r, argument |-> argument, value |-> value]
  OBVIOUS
<1>4. x.ref = r /\ [x EXCEPT !.ref.name = k] = [ref |-> q, argument |-> argument, value |-> value]
  BY <1>1, <1>3
<1>5. x = CompleteAsk(y, n, argument, value)
  BY <1>1, <1>3 DEF CompleteAsk
<1>6. CompleteAsk(y, k, argument, value) = [ref |-> q, argument |-> argument, value |-> value]
  BY <1>2 DEF CompleteAsk
<1> QED
  BY <1>2, <1>4, <1>5, <1>6

\* As many suggestions as an answer may carry.
Within(v) == Wording(v) /\ Len(v) <= completionLimit

LEMMA CappedIs ==
  ASSUME NEW v, Wording(v)
  PROVE  Within(Capped(v).values) /\ (Len(v) <= completionLimit => Capped(v).values = v)
<1> DEFINE m == IF Len(v) > completionLimit THEN completionLimit ELSE Len(v)
<1>1. PICK S : v \in Seq(S)
  BY DEF Wording
<1>2. Len(v) \in Nat /\ completionLimit \in Nat
  BY <1>1, CompletionLimitAssumption
<1>3. m \in 0 .. Len(v) /\ m <= completionLimit /\ (Len(v) <= completionLimit => m = Len(v))
  BY <1>2
<1> HIDE DEF m
<1>4. PICK w, total, more : w = SubSeq(v, 1, m) /\ total = Len(v) /\ more = (Len(v) > completionLimit)
  OBVIOUS
<1>5. Capped(v) = [values |-> w, total |-> total, hasMore |-> more]
  BY <1>4 DEF Capped, m
<1>6. Capped(v).values = w
  BY <1>5
<1>7. w \in Seq(S) /\ Len(w) = m
  <2>1. \A i \in 1 .. m : v[i] \in S
    BY <1>1, <1>2, <1>3
  <2>2. SubSeq(v, 1, m) = [i \in 1 .. m |-> v[i]]
    BY <1>1, <1>2, <1>3
  <2> QED
    BY <1>3, <1>4, <2>1, <2>2
<1>8. m = Len(v) => w = v
  BY <1>1, <1>4
<1> QED
  BY <1>3, <1>6, <1>7, <1>8 DEF Within, Wording

\* What a client of the backend is suggested.
Suggested(a) == a.ok = FALSE \/ (a.ok = TRUE /\ Within(a.result.values))

LEMMA OwnCompleter ==
  ASSUME NEW s, NEW ref, WellFormedServer(s)
  PROVE  WellFormedCompleter(CompleterOf(s, ref))
<1>1. WellFormedCompleter(NoCompleter)
  BY DEF WellFormedCompleter, NoCompleter
<1>2. ASSUME NEW entries, NEW key, Len(entries) \in Nat, Known(entries, key),
             \A i \in 1 .. Len(entries) : WellFormedCompleter(entries[i].completer)
      PROVE  WellFormedCompleter(Entry(entries, key).completer)
  BY <1>2, EntryPlace
<1>3. Len(s.prompts) \in Nat /\ \A i \in 1 .. Len(s.prompts) : WellFormedCompleter(s.prompts[i].completer)
  BY DEF WellFormedServer, WellFormedPrompts, Registry
<1>4. Len(s.templates) \in Nat /\ \A i \in 1 .. Len(s.templates) : WellFormedCompleter(s.templates[i].completer)
  BY DEF WellFormedServer, WellFormedTemplates, Registry
<1>5. CASE ref.type = "ref/prompt"
  BY <1>1, <1>2, <1>3, <1>5 DEF CompleterOf
<1>6. CASE ref.type = "ref/resource"
  BY <1>1, <1>2, <1>4, <1>6 DEF CompleterOf
<1>7. CASE ref.type # "ref/prompt" /\ ref.type # "ref/resource"
  <2>1. CompleterOf(s, ref) = IF Known(<<>>, ref.name) THEN Entry(<<>>, ref.name).completer ELSE NoCompleter
    BY <1>7 DEF CompleterOf
  <2>2. Keyed(<<>>, ref.name) = {}
    BY DEF Keyed
  <2>3. ~Known(<<>>, ref.name)
    BY <2>2, FindIs
  <2> QED
    BY <1>1, <2>1, <2>3
<1> QED
  BY <1>5, <1>6, <1>7

LEMMA BackendSuggests ==
  ASSUME NEW s, WellFormedServer(s), NEW params, NEW a \in Backed(s, "completion/complete", params)
  PROVE  Suggested(a)
<1>1. CASE ~s.up
  <2>1. a = Failed("transport", <<"closed">>)
    BY <1>1 DEF Backed, callServer
  <2> QED
    BY <2>1, FailedIs DEF Suggested
<1>2. CASE s.up
  <2>1. PICK c : c = CompleterOf(s, params.ref)
    OBVIOUS
  <2>2. c.kind \in {"none", "own"} /\ (c.kind = "own" => c.does \in Words)
    BY <2>1, OwnCompleter DEF WellFormedCompleter
  <2>3. PICK v : a = Done(Capped(v)) /\ ((c.kind = "none" /\ v = <<>>) \/ (c.kind = "own" /\ v = c.does))
    <3>1. CASE c.kind = "none"
      BY <1>2, <2>1, <3>1 DEF Backed, callServer, route, handleComplete, Suggestions
    <3>2. CASE c.kind = "own"
      BY <1>2, <2>1, <3>2 DEF Backed, callServer, route, handleComplete, Suggestions
    <3> QED
      BY <2>2, <3>1, <3>2
  <2>4. Wording(v)
    <3>1. <<>> \in Seq({})
      OBVIOUS
    <3> QED
      BY <2>2, <2>3, <3>1 DEF Wording, Words
  <2>5. a.ok = TRUE /\ a.result = Capped(v)
    BY <2>3, DoneIs
  <2> QED
    BY <2>4, <2>5, CappedIs DEF Suggested
<1> QED
  BY <1>1, <1>2

\* What the proxy makes of them.
LEMMA RelayedValues ==
  ASSUME NEW a, Suggested(a), NEW answer, answer = Done(Capped(IF a.ok THEN a.result.values ELSE <<>>))
  PROVE  SameValues(a, answer)
<1>1. PICK v : v = IF a.ok THEN a.result.values ELSE <<>>
  OBVIOUS
<1>2. answer.ok = TRUE /\ answer.result = Capped(v)
  BY <1>1, DoneIs
<1>3. Within(v)
  <2>1. CASE a.ok
    BY <1>1, <2>1 DEF Suggested
  <2>2. CASE ~a.ok
    <3>1. v = <<>> /\ <<>> \in Seq({}) /\ Len(<<>>) = 0
      BY <1>1, <2>2
    <3> QED
      BY <3>1, CompletionLimitAssumption DEF Within, Wording
  <2> QED
    BY <2>1, <2>2
<1>4. Capped(v).values = v
  BY <1>3, CappedIs DEF Within
<1> QED
  BY <1>1, <1>2, <1>4 DEF SameValues

LEMMA TemplateCompleter ==
  ASSUME NEW before, NEW cfg, NEW p, Fronts(p, before, cfg), Len(cfg.templates) \in Nat, NEW key,
         Known(cfg.templates, key)
  PROVE  Known(p.templates, key) /\ Entry(p.templates, key).completer = forward(key)
<1> DEFINE spec == cfg.templates
           n == Len(spec)
           E == TemplateEntries(spec)
           C == p.templates
           f == Find(C, key)
<1>1. C = [i \in 1 .. n |-> E[i]]
  BY DEF Fronts, Firsts
<1>2. \A i \in 1 .. n : E[i].key = spec[i].key
  BY TemplateEntriesAre
<1> HIDE DEF E, C
<1>3. Len(C) = n /\ \A i \in 1 .. n : C[i] = E[i] /\ C[i].key = spec[i].key
  BY <1>1, <1>2
<1>4. Keyed(C, key) = Keyed(spec, key)
  BY <1>3 DEF Keyed
<1>5. Keyed(C, key) # {}
  BY <1>4, FindIs
<1>6. Known(C, key) /\ f \in Keyed(C, key) /\ \A i \in Keyed(C, key) : f <= i
  <2>1. Len(C) \in Nat
    BY <1>3
  <2> QED
    BY <1>5, <2>1, FindIs
<1> HIDE DEF f
<1>7. f \in 1 .. n /\ spec[f].key = key
  BY <1>3, <1>6 DEF Keyed
<1>8. Fresh(spec, f)
  <2>1. ASSUME NEW j \in 1 .. (f - 1), spec[j].key = spec[f].key PROVE FALSE
    <3>1. j \in 1 .. n /\ ~(f <= j)
      BY <1>7
    <3>2. j \in Keyed(C, key)
      BY <1>3, <1>7, <2>1, <3>1 DEF Keyed
    <3> QED
      BY <1>6, <3>1, <3>2
  <2> QED
    BY <2>1 DEF Fresh
<1>9. E[f].completer = forward(key)
  <2>1. PICK e, to : e = E[f] /\ to = forward(spec[f].key)
    OBVIOUS
  <2>2. e.completer = IF Fresh(spec, f) THEN to ELSE NoCompleter
    BY <1>7, <2>1, TemplateEntriesAre DEF E
  <2> QED
    BY <1>7, <1>8, <2>1, <2>2
<1>10. Entry(C, key) = E[f]
  BY <1>3, <1>7 DEF Entry, f
<1> QED
  BY <1>6, <1>9, <1>10 DEF C

\* A completion that a completer of the proxy forwards.
LEMMA ProxiedComplete ==
  ASSUME NEW after, WellFormedServer(after), NEW p, NEW y, NEW n, NEW argument, NEW value, NEW key, NEW answer,
         CompleterOf(p, CompleteAsk(y, n, argument, value).ref) = forward(key),
         answer \in Proxied(after, p, "completion/complete", CompleteAsk(y, n, argument, value))
  PROVE  \E a \in Backed(after, "completion/complete", CompleteAsk(y, key, argument, value)) :
           SameValues(a, answer)
<1>1. PICK c, params, asked : /\ c = forward(key) /\ params = CompleteAsk(y, n, argument, value)
                              /\ asked = [params EXCEPT !.ref.name = key]
  OBVIOUS
<1>2. c.kind = "forward" /\ c.name = key
  BY <1>1, ForwardIs
<1>3. asked = CompleteAsk(y, key, argument, value)
  BY <1>1, CompleteAskIs
<1>4. CompleterOf(p, params.ref) = c
  BY <1>1
<1>5. PICK a \in Backed(after, "completion/complete", asked) :
        answer = Done(Capped(IF a.ok THEN a.result.values ELSE <<>>))
  BY <1>1, <1>2, <1>4 DEF Proxied, route, handleComplete, Suggestions
<1>6. Suggested(a)
  BY BackendSuggests
<1>7. SameValues(a, answer)
  BY <1>5, <1>6, RelayedValues
<1> QED
  BY <1>3, <1>7

-----------------------------------------------------------------------------
(* Reads.                                                                   *)

\* The variables of a match are parts of the URI.
LEMMA VarsTyped ==
  ASSUME NEW tmpl \in Seq(Char), NEW uri \in Seq(Char), match(tmpl, uri).matched
  PROVE  LET re == compileURITemplate(tmpl)
         IN \A i \in Captured(re) : match(tmpl, uri).vars[re[i].name] \in Seq(Char)
<1> DEFINE re == compileURITemplate(tmpl)
           at == Best(re, uri, FALSE)
           found == match(tmpl, uri).vars
           m == Len(re)
<1>1. re \in Seq(Items) /\ Placement(re, uri, at) /\ found = MatchedVars(re, uri, at)
  BY MatchIs
<1> HIDE DEF re, at, found
<1>2. m \in Nat /\ DOMAIN re = 1 .. m /\ Len(uri) \in Nat
  BY <1>1, LenProperties
<1>3. /\ at[1] = 1 /\ at[m + 1] = Len(uri) + 1
      /\ \A i \in 1 .. (m + 1) : at[i] \in Nat /\ at[1] <= at[i] /\ at[i] <= at[m + 1]
  <2>1. Divides(uri, at, m)
    BY <1>1, <1>2, PlacedDivides
  <2> QED
    BY <1>2, <2>1 DEF Divides
<1>4. ASSUME NEW i \in Captured(re) PROVE found[re[i].name] \in Seq(Char)
  <2> DEFINE L == {k \in Captured(re) : re[k].name = re[i].name}
             l == Max(L)
  <2>1. L \subseteq 1 .. m /\ i \in L
    BY <1>2 DEF Captured
  <2> HIDE DEF L
  <2>2. l \in 1 .. m
    BY <1>2, <2>1, GreatestIs
  <2>3. found[re[i].name] = SubSeq(uri, at[l], at[l + 1] - 1)
    BY <1>1 DEF MatchedVars, L
  <2> HIDE DEF l
  <2>4. at[l] \in Nat /\ at[l] >= 1 /\ at[l + 1] \in Nat /\ at[l + 1] - 1 <= Len(uri)
    <3>1. l \in 1 .. (m + 1) /\ l + 1 \in 1 .. (m + 1)
      BY <1>2, <2>2
    <3> QED
      BY <1>2, <1>3, <3>1
  <2>5. SubSeq(uri, at[l], at[l + 1] - 1) \in Seq(Char)
    BY <1>2, <2>4
  <2> QED
    BY <2>3, <2>5
<1> QED
  BY <1>4 DEF re, found

\* What an application's template answers.
LEMMA OwnReadIs ==
  ASSUME NEW e, NEW uri \in Seq(Char), e.key \in Seq(Char), e.handler.does \in [ok : BOOLEAN, text : Words],
         match(e.key, uri).matched
  PROVE  LET out == OwnRead(e, match(e.key, uri).vars)
         IN out.ok \in BOOLEAN /\ (out.ok => Wording(out.text))
<1> DEFINE re == compileURITemplate(e.key)
           found == match(e.key, uri).vars
           parts == [i \in DOMAIN re |-> IF IsCapture(re[i]) THEN found[re[i].name] ELSE <<>>]
           said == FlattenSeq(parts)
           does == e.handler.does
<1>1. re \in Seq(Items)
  BY Compiled
<1>2. \A i \in Captured(re) : found[re[i].name] \in Seq(Char)
  BY VarsTyped
<1>3. OwnRead(e, found) = IF does.ok THEN [does EXCEPT !.text = @ \o said] ELSE does
  BY DEF OwnRead
<1> HIDE DEF re, found
<1>4. Len(re) \in Nat /\ DOMAIN re = 1 .. Len(re)
  BY <1>1, LenProperties
<1>5. \A i \in DOMAIN re : parts[i] \in Seq(Char)
  BY <1>2 DEF Captured
<1>6. parts \in Seq(Seq(Char))
  <2>1. PICK R : R = Seq(Char)
    OBVIOUS
  <2>2. parts = [i \in 1 .. Len(re) |-> parts[i]] /\ \A i \in 1 .. Len(re) : parts[i] \in R
    BY <1>4, <1>5, <2>1
  <2> HIDE DEF parts
  <2>3. [i \in 1 .. Len(re) |-> parts[i]] \in Seq(R)
    BY <1>4, <2>2
  <2> QED
    BY <2>1, <2>2, <2>3
<1>7. said \in Seq(Char)
  BY <1>6, FlattenTyped
<1> HIDE DEF said
<1>8. does.ok \in BOOLEAN /\ does.text \in Words
  OBVIOUS
<1>9. Wording(does.text \o said)
  <2>1. PICK S : S = STRING \cup Char
    OBVIOUS
  <2>2. STRING \subseteq S /\ Char \subseteq S
    BY <2>1
  <2>3. does.text \in Seq(S) /\ said \in Seq(S)
    BY <1>7, <1>8, <2>2, SeqMonotonic DEF Words
  <2>4. does.text \o said \in Seq(S)
    BY <2>3
  <2> QED
    BY <2>4 DEF Wording
<1>10. CASE does.ok
  <2>1. PICK y : y = does.text \o said
    OBVIOUS
  <2>2. PICK d : d = does
    OBVIOUS
  <2>3. d \in [ok : BOOLEAN, text : Words]
    BY <2>2
  <2>4. [d EXCEPT !.text = y].ok = d.ok /\ [d EXCEPT !.text = y].text = y
    BY <2>3
  <2>5. OwnRead(e, found) = [d EXCEPT !.text = y]
    BY <1>3, <1>10, <2>1, <2>2
  <2> HIDE DEF does
  <2> QED
    BY <1>8, <1>9, <2>1, <2>2, <2>4, <2>5 DEF found
<1>11. CASE ~does.ok
  BY <1>3, <1>8, <1>11 DEF found
<1> QED
  BY <1>10, <1>11

\* The contents of a read: one text, or one blob.
OneContent(contents, v, w) ==
  /\ contents = <<contents[1]>> /\ contents[1].text = v /\ contents[1].blob = w
  /\ Wording(v) /\ Wording(w) /\ (v = <<>> \/ w = <<>>)
ReadEnds(a) == a.ok = FALSE \/ (a.ok = TRUE /\ \E v, w : OneContent(a.result.contents, v, w))

LEMMA ContentIs ==
  ASSUME NEW uri, NEW entry, NEW text, Wording(text)
  PROVE  OneContent(Content(uri, entry, text).contents,
                    IF entry.blob THEN <<>> ELSE text, IF entry.blob THEN text ELSE <<>>)
<1>1. PICK about, v, w : /\ about = entry.about /\ v = (IF entry.blob THEN <<>> ELSE text)
                         /\ w = IF entry.blob THEN text ELSE <<>>
  OBVIOUS
<1>2. Wording(<<>>)
  <2>1. <<>> \in Seq({})
    OBVIOUS
  <2> QED
    BY <2>1 DEF Wording
<1>3. PICK c : c = [uri |-> uri, about |-> about, text |-> v, blob |-> w]
  OBVIOUS
<1>4. c.text = v /\ c.blob = w
  BY <1>3
<1>5. Content(uri, entry, text).contents = <<c>>
  BY <1>1, <1>3 DEF Content
<1> QED
  BY <1>1, <1>2, <1>4, <1>5 DEF OneContent

LEMMA ReadAnswerIs ==
  ASSUME NEW uri, NEW entry, NEW out, NEW a, a = ReadAnswer(uri, entry, out), out.ok => Wording(out.text)
  PROVE  ReadEnds(a)
<1>1. CASE out.ok
  <2>1. PICK c : c = Content(uri, entry, out.text)
    OBVIOUS
  <2>2. a.ok = TRUE /\ a.result = c
    BY <1>1, <2>1, DoneIs DEF ReadAnswer
  <2>3. \E v, w : OneContent(c.contents, v, w)
    BY <1>1, <2>1, ContentIs
  <2> QED
    BY <2>2, <2>3 DEF ReadEnds
<1>2. CASE ~out.ok
  <2>1. PICK text : text = out.text
    OBVIOUS
  <2>2. a = Failed("internal", text)
    BY <1>2, <2>1 DEF ReadAnswer
  <2> QED
    <3>1. a.ok = FALSE
      BY <2>2 DEF Failed
    <3> QED
      BY <3>1 DEF ReadEnds
<1> QED
  BY <1>1, <1>2

\* The first template that matches.
LEMMA MatchingIs ==
  ASSUME NEW templates, NEW uri, Len(templates) \in Nat, NEW i, i = Matching(templates, uri), i # 0
  PROVE  i \in 1 .. Len(templates) /\ match(templates[i].key, uri).matched
<1> DEFINE H == {k \in 1 .. Len(templates) : match(templates[k].key, uri).matched}
<1>1. i = IF H # {} THEN Min(H) ELSE 0
  BY DEF Matching, SelectInSeq
<1>2. H \subseteq 1 .. Len(templates)
  OBVIOUS
<1>3. i \in H
  <2> HIDE DEF H
  <2> QED
    BY <1>1, <1>2, LeastIs
<1> QED
  BY <1>3

LEMMA BackendRead ==
  ASSUME NEW s, WellFormedServer(s), NEW uri \in Seq(Char), NEW a \in Backed(s, "resources/read", [uri |-> uri])
  PROVE  ReadEnds(a)
<1>1. PICK params : params = [uri |-> uri]
  OBVIOUS
<1>2. params.uri = uri
  BY <1>1
<1>3. CASE ~s.up
  <2>1. a = Failed("transport", <<"closed">>)
    BY <1>3 DEF Backed, callServer
  <2> QED
    BY <2>1, FailedIs DEF ReadEnds
<1>4. CASE s.up /\ Known(s.resources, uri)
  <2>1. PICK e : e = Entry(s.resources, uri)
    OBVIOUS
  <2>2. PICK i \in 1 .. Len(s.resources) : e = s.resources[i]
    <3>1. Len(s.resources) \in Nat
      BY DEF WellFormedServer, WellFormedResources, Registry
    <3> QED
      BY <1>4, <2>1, <3>1, EntryPlace
  <2>3. e.handler.kind = "own" /\ Wording(e.handler.does.text)
    BY <2>2 DEF WellFormedServer, WellFormedResources, Registry, Words, Wording
  <2>4. a = ReadAnswer(uri, e, e.handler.does)
    BY <1>1, <1>2, <1>4, <2>1, <2>3 DEF Backed, callServer, route, handleResourcesRead, ReadStatic
  <2> QED
    BY <2>3, <2>4, ReadAnswerIs
<1>5. CASE s.up /\ ~Known(s.resources, uri) /\ Matching(s.templates, uri) # 0
  <2>1. PICK i : i = Matching(s.templates, uri)
    OBVIOUS
  <2>2. PICK e : e = s.templates[i]
    OBVIOUS
  <2>3. i \in 1 .. Len(s.templates) /\ match(e.key, uri).matched
    <3>1. Len(s.templates) \in Nat
      BY DEF WellFormedServer, WellFormedTemplates, Registry
    <3> QED
      BY <1>5, <2>1, <2>2, <3>1, MatchingIs
  <2>4. /\ e.handler.kind = "own" /\ e.key \in Seq(Char)
        /\ e.handler.does \in [ok : BOOLEAN, text : Words]
    BY <2>2, <2>3 DEF WellFormedServer, WellFormedTemplates, Registry
  <2>5. a = ReadAnswer(uri, e, OwnRead(e, match(e.key, uri).vars))
    BY <1>1, <1>2, <1>5, <2>1, <2>2, <2>4 DEF Backed, callServer, route, handleResourcesRead, ReadTemplate
  <2>6. PICK out : out = OwnRead(e, match(e.key, uri).vars)
    OBVIOUS
  <2>7. out.ok => Wording(out.text)
    BY <2>3, <2>4, <2>6, OwnReadIs
  <2> QED
    BY <2>5, <2>6, <2>7, ReadAnswerIs
<1>6. CASE s.up /\ ~Known(s.resources, uri) /\ Matching(s.templates, uri) = 0
  <2>1. a = Failed("invalid params", <<"unknown resource">>)
    BY <1>1, <1>2, <1>6 DEF Backed, callServer, route, handleResourcesRead
  <2>2. a.ok = FALSE
    BY <2>1 DEF Failed
  <2> QED
    BY <2>2 DEF ReadEnds
<1> QED
  BY <1>3, <1>4, <1>5, <1>6

\* One read, relayed.
LEMMA RelayedRead ==
  ASSUME NEW a, ReadEnds(a), NEW uri, NEW entry, entry.blob = FALSE, NEW answer,
         answer = ReadAnswer(uri, entry, forwardRead(a))
  PROVE  SameRead(a, answer)
<1>1. CASE a.ok = FALSE
  <2>1. PICK out, text : out = forwardRead(a) /\ text = a.text
    OBVIOUS
  <2>2. out.ok = FALSE /\ out.text = text
    BY <1>1, <2>1 DEF forwardRead
  <2>3. answer = Failed("internal", text)
    BY <2>1, <2>2 DEF ReadAnswer
  <2>4. answer.ok = FALSE /\ answer.text = text
    BY <2>3 DEF Failed
  <2> QED
    BY <1>1, <2>1, <2>4 DEF SameRead
<1>2. ASSUME a.ok = TRUE, NEW v, NEW w, OneContent(a.result.contents, v, w) PROVE SameRead(a, answer)
  <2>1. PICK contents, c : contents = a.result.contents /\ c = contents[1]
    OBVIOUS
  <2>2. PICK text : text = IF v # <<>> THEN v ELSE w
    OBVIOUS
  <2>3. contents = <<c>> /\ c.text = v /\ c.blob = w /\ Wording(v) /\ Wording(w) /\ (v = <<>> \/ w = <<>>)
    BY <1>2, <2>1 DEF OneContent
  <2>4. text = v \o w /\ Wording(text)
    BY <2>2, <2>3, ConcatEmptySeq DEF Wording
  <2>5. joinResourceContents(contents) = text
    <3>1. [i \in DOMAIN contents |-> IF contents[i].text # <<>> THEN contents[i].text ELSE contents[i].blob] = <<text>>
      BY <2>2, <2>3
    <3>2. FlattenSeq(<<text>>) = text
      BY <2>4, FlattenOne DEF Wording
    <3> QED
      BY <3>1, <3>2 DEF joinResourceContents
  <2>6. PICK out : out = forwardRead(a)
    OBVIOUS
  <2>7. out.ok = TRUE /\ out.text = text
    BY <1>2, <2>1, <2>5, <2>6 DEF forwardRead
  <2>8. answer = Done(Content(uri, entry, text))
    BY <2>6, <2>7 DEF ReadAnswer
  <2>9. answer.ok = TRUE /\ answer.result = Content(uri, entry, text)
    BY <2>8, DoneIs
  <2>10. OneContent(answer.result.contents, text, <<>>)
    BY <2>4, <2>9, ContentIs
  <2> QED
    BY <1>2, <2>1, <2>3, <2>4, <2>9, <2>10 DEF OneContent, SameRead
<1> QED
  BY <1>1, <1>2 DEF ReadEnds

-----------------------------------------------------------------------------
(* What a URI leads to on the proxy.                                        *)

LEMMA ResourceEntriesAre ==
  ASSUME NEW resources, NEW i \in 1 .. Len(resources)
  PROVE  LET e == ResourceEntries(resources)[i]
         IN e.key = resources[i].key /\ e.blob = FALSE /\ e.handler = forward(resources[i].key)
<1>1. PICK k, x, f, to : k = resources[i].key /\ x = resources[i].about /\ f = FALSE /\ to = forward(k)
  OBVIOUS
<1>2. PICK e : e = ResourceEntries(resources)[i]
  OBVIOUS
<1>3. e = [key |-> k, about |-> x, blob |-> f, handler |-> to]
  BY <1>1, <1>2 DEF ResourceEntries
<1>4. e.key = k /\ e.handler = to /\ e.blob = f
  BY <1>3
<1> QED
  BY <1>1, <1>2, <1>4

\* A key of one choice of entries is one of the other, if the entries have the same keys.
LEMMA ChosenEntry ==
  ASSUME NEW E, NEW T, NEW n \in Nat, NEW key, Known(Chosen(E, T, n), key)
  PROVE  \E i \in 1 .. n : i \in T /\ E[i].key = key /\ Entry(Chosen(E, T, n), key) = E[i]
<1> DEFINE C == Chosen(E, T, n)
           K == Kept(T, n)
<1>1. Len(C) = Len(K) /\ Len(K) \in Nat /\ \A j \in 1 .. Len(K) : C[j] = E[K[j]]
  BY ChosenOneMore
<1>2. \A j \in 1 .. Len(K) : K[j] \in T /\ K[j] \in 1 .. n
  BY KeptHas DEF KeptHolds
<1> HIDE DEF C, K
<1>3. PICK j \in 1 .. Len(C) : Entry(C, key) = C[j] /\ C[j].key = key
  <2>1. Len(C) \in Nat /\ Known(C, key)
    BY <1>1 DEF C
  <2> QED
    BY <2>1, EntryPlace
<1>4. K[j] \in 1 .. n /\ K[j] \in T /\ C[j] = E[K[j]]
  BY <1>1, <1>2, <1>3
<1> QED
  BY <1>3, <1>4 DEF C

AmongFirst(E, T, n, key) == \E i \in 1 .. n : i \in T /\ E[i].key = key

LEMMA RegisteredKnown ==
  ASSUME NEW E, NEW T, NEW n \in Nat, NEW key, AmongFirst(E, T, n, key)
  PROVE  Known(Chosen(E, T, n), key)
<1> DEFINE C == Chosen(E, T, n)
           K == Kept(T, n)
<1>1. Len(C) = Len(K) /\ Len(K) \in Nat /\ \A j \in 1 .. Len(K) : C[j] = E[K[j]]
  BY ChosenOneMore
<1>2. \A a \in 1 .. n : a \in T => \E j \in 1 .. Len(K) : K[j] = a
  BY KeptHas DEF KeptHolds
<1> HIDE DEF C, K
<1>3. PICK i \in 1 .. n : i \in T /\ E[i].key = key
  BY DEF AmongFirst
<1>4. PICK j \in 1 .. Len(K) : K[j] = i
  BY <1>2, <1>3
<1>5. j \in Keyed(C, key) /\ Len(C) \in Nat
  BY <1>1, <1>3, <1>4 DEF Keyed
<1> QED
  BY <1>5, FindIs DEF C

LEMMA ResourceFound ==
  ASSUME NEW before, NEW cfg, NEW p, NEW uri, WellFormedServer(before), Fronts(p, before, cfg)
  PROVE  /\ Known(Shown(before.resources, cfg.resources), uri) <=> Known(p.resources, uri)
         /\ Known(p.resources, uri) => /\ Entry(p.resources, uri).handler = forward(uri)
                                       /\ Entry(p.resources, uri).blob = FALSE
<1> DEFINE R == before.resources
           E == ResourceEntries(R)
           T == Allowed(R, cfg.resources)
           n == Len(R)
<1>1. n \in Nat /\ Registry(R)
  BY DEF WellFormedServer, WellFormedResources, Registry
<1>2. Shown(R, cfg.resources) = Chosen(R, T, n) /\ p.resources = Chosen(E, T, n)
  BY <1>1, ShownIs DEF Fronts
<1>3. \A i \in 1 .. n : E[i].key = R[i].key /\ E[i].blob = FALSE /\ E[i].handler = forward(R[i].key)
  <2> TAKE i \in 1 .. n
  <2>1. PICK e, to : e = E[i] /\ to = forward(R[i].key)
    OBVIOUS
  <2>2. e.key = R[i].key /\ e.blob = FALSE /\ e.handler = to
    BY <2>1, ResourceEntriesAre
  <2> QED
    BY <2>1, <2>2
<1> HIDE DEF E, T
<1>4. Known(Chosen(R, T, n), uri) => Known(Chosen(E, T, n), uri)
  <2> SUFFICES ASSUME Known(Chosen(R, T, n), uri), ~Known(Chosen(E, T, n), uri) PROVE FALSE
    OBVIOUS
  <2>1. PICK i \in 1 .. n : i \in T /\ R[i].key = uri
    BY <1>1, ChosenEntry
  <2>2. AmongFirst(E, T, n, uri)
    BY <1>3, <2>1 DEF AmongFirst
  <2> QED
    BY <1>1, <2>2, RegisteredKnown
<1>5. Known(Chosen(E, T, n), uri) => Known(Chosen(R, T, n), uri)
  <2> SUFFICES ASSUME Known(Chosen(E, T, n), uri) PROVE Known(Chosen(R, T, n), uri)
    OBVIOUS
  <2>1. PICK i \in 1 .. n : i \in T /\ E[i].key = uri
    BY <1>1, ChosenEntry
  <2>2. AmongFirst(R, T, n, uri)
    BY <1>3, <2>1 DEF AmongFirst
  <2> QED
    BY <1>1, <2>2, RegisteredKnown
<1>6. ASSUME Known(Chosen(E, T, n), uri)
      PROVE  LET e == Entry(Chosen(E, T, n), uri) IN e.handler = forward(uri) /\ e.blob = FALSE
  <2>1. PICK i \in 1 .. n : E[i].key = uri /\ Entry(Chosen(E, T, n), uri) = E[i]
    BY <1>1, <1>6, ChosenEntry
  <2> QED
    BY <1>3, <2>1
<1> QED
  BY <1>2, <1>4, <1>5, <1>6

\* The templates of the proxy are those it was configured with.
Templated(p, cfg, uri) ==
  LET first == Matching(cfg.templates, uri)
      e == p.templates[first]
  IN /\ Matching(p.templates, uri) = first
     /\ first # 0 => /\ first \in 1 .. Len(cfg.templates) /\ match(e.key, uri).matched
                     /\ e.key = cfg.templates[first].key /\ e.blob = FALSE /\ e.handler = forward(e.key)

LEMMA TemplateFound ==
  ASSUME NEW before, NEW cfg, NEW p, NEW uri, Fronts(p, before, cfg), Len(cfg.templates) \in Nat
  PROVE  Templated(p, cfg, uri)
<1> DEFINE spec == cfg.templates
           n == Len(spec)
           E == TemplateEntries(spec)
           C == p.templates
           first == Matching(spec, uri)
<1>1. C = [i \in 1 .. n |-> E[i]]
  BY DEF Fronts, Firsts
<1>2. \A i \in 1 .. n : E[i].key = spec[i].key /\ E[i].blob = FALSE /\ E[i].handler = forward(spec[i].key)
  <2> TAKE i \in 1 .. n
  <2>1. PICK e, to : e = E[i] /\ to = forward(spec[i].key)
    OBVIOUS
  <2>2. e.key = spec[i].key /\ e.blob = FALSE /\ e.handler = to
    BY <2>1, TemplateEntriesAre
  <2> QED
    BY <2>1, <2>2
<1> HIDE DEF E, C
<1>3. Len(C) = n /\ \A i \in 1 .. n : C[i] = E[i] /\ C[i].key = spec[i].key
  BY <1>1, <1>2
<1>4. {k \in 1 .. Len(C) : match(C[k].key, uri).matched} = {k \in 1 .. n : match(spec[k].key, uri).matched}
  BY <1>3
<1>5. Matching(C, uri) = first
  BY <1>4 DEF Matching, SelectInSeq
<1>6. ASSUME first # 0
      PROVE  /\ first \in 1 .. n /\ match(C[first].key, uri).matched
             /\ C[first].key = spec[first].key /\ C[first].blob = FALSE
             /\ C[first].handler = forward(C[first].key)
  <2>1. PICK i : i = first
    OBVIOUS
  <2>2. i \in 1 .. n /\ match(spec[i].key, uri).matched
    BY <1>6, <2>1, MatchingIs
  <2> HIDE DEF first
  <2> QED
    BY <1>2, <1>3, <2>1, <2>2
<1> QED
  BY <1>5, <1>6 DEF C, Templated

-----------------------------------------------------------------------------
(* A read through the proxy.                                                *)

UriAsk(uri) == [uri |-> uri]

LEMMA ProxiedStatic ==
  ASSUME NEW before, NEW after, NEW cfg, NEW p, NEW uri \in Seq(Char), NEW answer,
         WellFormedServer(before), WellFormedServer(after), Fronts(p, before, cfg),
         Known(Shown(before.resources, cfg.resources), uri),
         answer \in Proxied(after, p, "resources/read", UriAsk(uri))
  PROVE  \E a \in Backed(after, "resources/read", UriAsk(uri)) : SameRead(a, answer)
<1>1. UriAsk(uri).uri = uri
  BY DEF UriAsk
<1>2. PICK e : e = Entry(p.resources, uri)
  OBVIOUS
<1>3. Known(p.resources, uri) /\ e.handler = forward(uri) /\ e.blob = FALSE
  BY <1>2, ResourceFound
<1>4. e.handler.kind = "forward" /\ e.handler.name = uri
  BY <1>3, ForwardIs
<1>5. \E a \in Backed(after, "resources/read", [uri |-> uri]) : answer = ReadAnswer(uri, e, forwardRead(a))
  BY <1>1, <1>2, <1>3, <1>4 DEF Proxied, route, handleResourcesRead, ReadStatic, ReadBackend
<1>6. PICK a \in Backed(after, "resources/read", [uri |-> uri]) : answer = ReadAnswer(uri, e, forwardRead(a))
  BY <1>5
<1>7. ReadEnds(a)
  BY BackendRead
<1>8. SameRead(a, answer)
  BY <1>3, <1>6, <1>7, RelayedRead
<1> QED
  BY <1>8 DEF UriAsk

LEMMA ProxiedTemplate ==
  ASSUME NEW before, NEW after, NEW cfg, NEW p, NEW uri \in Seq(Char), NEW answer, NEW first,
         WellFormedServer(before), WellFormedServer(after), Fronts(p, before, cfg),
         Len(cfg.templates) \in Nat, \A i \in 1 .. Len(cfg.templates) : cfg.templates[i].key \in Seq(Char),
         ~Known(Shown(before.resources, cfg.resources), uri),
         first = Matching(cfg.templates, uri), first # 0, Restorable(cfg.templates[first].key, uri),
         answer \in Proxied(after, p, "resources/read", UriAsk(uri))
  PROVE  \E a \in Backed(after, "resources/read", UriAsk(uri)) : SameRead(a, answer)
<1>1. UriAsk(uri).uri = uri
  BY DEF UriAsk
<1>2. PICK e, key : e = p.templates[first] /\ key = cfg.templates[first].key
  OBVIOUS
<1>3. ~Known(p.resources, uri)
  BY ResourceFound
<1>4. /\ Matching(p.templates, uri) = first /\ first \in 1 .. Len(cfg.templates)
      /\ match(key, uri).matched /\ e.key = key /\ e.blob = FALSE /\ e.handler = forward(key)
  <2>1. Templated(p, cfg, uri)
    BY TemplateFound
  <2> QED
    BY <1>2, <2>1 DEF Templated
<1>5. e.handler.kind = "forward" /\ e.handler.name = key
  BY <1>4, ForwardIs
<1>6. key \in Seq(Char)
  BY <1>2, <1>4
<1>7. expandTemplate(key, match(key, uri).vars) = {uri}
  BY <1>2, <1>4, <1>6, UriRestored
<1>8. PICK found : found = match(key, uri).vars
  OBVIOUS
<1>9. \E u \in expandTemplate(key, found) :
        \E a \in Backed(after, "resources/read", [uri |-> u]) : answer = ReadAnswer(uri, e, forwardRead(a))
  <2>1. Matching(p.templates, uri) # 0 /\ p.templates[Matching(p.templates, uri)] = e /\ e.key = key
    BY <1>2, <1>4
  <2>2. PICK out : /\ answer = ReadAnswer(uri, e, out)
                   /\ out \in UNION {{forwardRead(a) : a \in Backed(after, "resources/read", [uri |-> u])} :
                                    u \in expandTemplate(key, found)}
    BY <1>1, <1>3, <1>5, <1>8, <2>1
    DEF Proxied, route, handleResourcesRead, ReadTemplate, ReadBackend
  <2>3. PICK u \in expandTemplate(key, found) :
          out \in {forwardRead(a) : a \in Backed(after, "resources/read", [uri |-> u])}
    BY <2>2
  <2> QED
    BY <2>2, <2>3
<1>10. PICK a \in Backed(after, "resources/read", [uri |-> uri]) : answer = ReadAnswer(uri, e, forwardRead(a))
  BY <1>7, <1>8, <1>9
<1>11. ReadEnds(a)
  BY BackendRead
<1>12. SameRead(a, answer)
  BY <1>4, <1>10, <1>11, RelayedRead
<1> QED
  BY <1>12 DEF UriAsk

LEMMA UnknownResource ==
  ASSUME NEW before, NEW after, NEW cfg, NEW p, NEW uri, NEW answer,
         WellFormedServer(before), Fronts(p, before, cfg), Len(cfg.templates) \in Nat,
         ~Known(Shown(before.resources, cfg.resources), uri), Matching(cfg.templates, uri) = 0,
         answer \in Proxied(after, p, "resources/read", UriAsk(uri))
  PROVE  Unknown(answer)
<1>1. UriAsk(uri).uri = uri
  BY DEF UriAsk
<1>2. ~Known(p.resources, uri)
  BY ResourceFound
<1>3. Matching(p.templates, uri) = 0
  <2>1. Templated(p, cfg, uri)
    BY TemplateFound
  <2> QED
    BY <2>1 DEF Templated
<1>4. answer = Failed("invalid params", <<"unknown resource">>)
  BY <1>1, <1>2, <1>3 DEF Proxied, route, handleResourcesRead
<1> QED
  BY <1>4, FailedIs DEF Unknown

-----------------------------------------------------------------------------
(* Lists.                                                                   *)

\* A list of what was chosen says of each entry what it says of that entry.
LEMMA ChosenDomain ==
  ASSUME NEW E, NEW F, NEW T, NEW n
  PROVE  /\ DOMAIN Chosen(E, T, n) = DOMAIN Chosen(F, T, n)
         /\ \A j \in DOMAIN Chosen(E, T, n) : Chosen(E, T, n)[j] = E[Kept(T, n)[j]]
BY DEF Chosen

ToolsShown(cfg, before) ==
  LET shown == Shown(before.tools, cfg.tools)
  IN [i \in DOMAIN shown |-> [key |-> cfg.prefix \o shown[i].key, structured |-> FALSE,
                              description |-> shown[i].description]]
ResourcesShown(cfg, before) ==
  LET shown == Shown(before.resources, cfg.resources)
  IN [i \in DOMAIN shown |-> ResourceInfo(shown[i])]
PromptShown(cfg, e) == [PromptInfo(e) EXCEPT !.key = cfg.prefix \o @]
PromptsShown(cfg, before) ==
  LET shown == Shown(before.prompts, cfg.prompts)
  IN [i \in DOMAIN shown |-> PromptShown(cfg, shown[i])]

LEMMA ToolsShownAre ==
  ASSUME NEW before, NEW cfg, NEW p, WellFormedServer(before), Fronts(p, before, cfg)
  PROVE  handleToolsList(p) = ToolsShown(cfg, before)
<1> DEFINE tools == before.tools
           E == ToolEntries(cfg, tools)
           T == Allowed(tools, cfg.tools)
           n == Len(tools)
           C == Chosen(E, T, n)
           D == Chosen(tools, T, n)
           K == Kept(T, n)
<1>1. n \in Nat /\ Registry(tools)
  BY DEF WellFormedServer, WellFormedTools, Registry
<1>2. p.tools = C /\ Shown(tools, cfg.tools) = D
  BY <1>1, ShownIs DEF Fronts
<1>3. \A j \in DOMAIN C : K[j] \in 1 .. n
  BY <1>1, ChosenOneMore, KeptHas DEF KeptHolds, Chosen
<1>4. DOMAIN C = DOMAIN D /\ \A j \in DOMAIN C : C[j] = E[K[j]] /\ D[j] = tools[K[j]]
  BY DEF Chosen
<1>5. ASSUME NEW i \in 1 .. n
      PROVE  ToolInfo(E[i]) = [key |-> cfg.prefix \o tools[i].key, structured |-> FALSE,
                               description |-> tools[i].description]
  <2>1. PICK k, d, f, to : /\ k = cfg.prefix \o tools[i].key /\ d = tools[i].description
                           /\ f = FALSE /\ to = forward(tools[i].key)
    OBVIOUS
  <2>2. PICK e : e = E[i]
    OBVIOUS
  <2>3. e = [key |-> k, description |-> d, structured |-> f, handler |-> to]
    BY <2>1, <2>2 DEF ToolEntries
  <2>4. ToolInfo(e) = [key |-> k, structured |-> f, description |-> d]
    BY <2>3 DEF ToolInfo
  <2> QED
    BY <2>1, <2>2, <2>4
<1> HIDE DEF C, D, E, K
<1>6. \A j \in DOMAIN C :
        ToolInfo(C[j]) = [key |-> cfg.prefix \o D[j].key, structured |-> FALSE, description |-> D[j].description]
  BY <1>3, <1>4, <1>5
<1> QED
  BY <1>2, <1>4, <1>6 DEF handleToolsList, ToolsShown

LEMMA ResourcesShownAre ==
  ASSUME NEW before, NEW cfg, NEW p, WellFormedServer(before), Fronts(p, before, cfg)
  PROVE  handleResourcesList(p) = ResourcesShown(cfg, before)
<1> DEFINE resources == before.resources
           E == ResourceEntries(resources)
           T == Allowed(resources, cfg.resources)
           n == Len(resources)
           C == Chosen(E, T, n)
           D == Chosen(resources, T, n)
           K == Kept(T, n)
<1>1. n \in Nat /\ Registry(resources)
  BY DEF WellFormedServer, WellFormedResources, Registry
<1>2. p.resources = C /\ Shown(resources, cfg.resources) = D
  BY <1>1, ShownIs DEF Fronts
<1>3. \A j \in DOMAIN C : K[j] \in 1 .. n
  BY <1>1, ChosenOneMore, KeptHas DEF KeptHolds, Chosen
<1>4. DOMAIN C = DOMAIN D /\ \A j \in DOMAIN C : C[j] = E[K[j]] /\ D[j] = resources[K[j]]
  BY DEF Chosen
<1>5. ASSUME NEW i \in 1 .. n PROVE ResourceInfo(E[i]) = ResourceInfo(resources[i])
  <2>1. PICK k, x, f, to : /\ k = resources[i].key /\ x = resources[i].about
                           /\ f = FALSE /\ to = forward(resources[i].key)
    OBVIOUS
  <2>2. PICK e : e = E[i]
    OBVIOUS
  <2>3. e = [key |-> k, about |-> x, blob |-> f, handler |-> to]
    BY <2>1, <2>2 DEF ResourceEntries
  <2>4. ResourceInfo(e) = [key |-> k, about |-> x]
    BY <2>3 DEF ResourceInfo
  <2> QED
    BY <2>1, <2>2, <2>4 DEF ResourceInfo
<1> HIDE DEF C, D, E, K
<1>6. \A j \in DOMAIN C : ResourceInfo(C[j]) = ResourceInfo(D[j])
  BY <1>3, <1>4, <1>5
<1> QED
  BY <1>2, <1>4, <1>6 DEF handleResourcesList, ResourcesShown

LEMMA PromptsShownAre ==
  ASSUME NEW before, NEW cfg, NEW p, WellFormedServer(before), Fronts(p, before, cfg)
  PROVE  handlePromptsList(p) = PromptsShown(cfg, before)
<1> DEFINE prompts == before.prompts
           E == PromptEntries(cfg, prompts)
           T == Allowed(prompts, cfg.prompts)
           n == Len(prompts)
           C == Chosen(E, T, n)
           D == Chosen(prompts, T, n)
           K == Kept(T, n)
<1>1. n \in Nat /\ Registry(prompts)
  BY DEF WellFormedServer, WellFormedPrompts, Registry
<1>2. p.prompts = C /\ Shown(prompts, cfg.prompts) = D
  BY <1>1, ShownIs DEF Fronts
<1>3. \A j \in DOMAIN C : K[j] \in 1 .. n
  BY <1>1, ChosenOneMore, KeptHas DEF KeptHolds, Chosen
<1>4. DOMAIN C = DOMAIN D /\ \A j \in DOMAIN C : C[j] = E[K[j]] /\ D[j] = prompts[K[j]]
  BY DEF Chosen
<1>5. ASSUME NEW i \in 1 .. n
      PROVE  PromptInfo(E[i]) = PromptShown(cfg, prompts[i])
  <2>1. PICK k, d, a, name : /\ k = Behind(cfg, name) /\ name = prompts[i].key
                             /\ d = prompts[i].description /\ a = prompts[i].arguments
    OBVIOUS
  <2>2. PICK e : e = E[i]
    OBVIOUS
  <2>3. e.key = k /\ e.description = d /\ e.arguments = a
    BY <2>1, <2>2, PromptEntriesAre
  <2>4. PromptInfo(e) = [key |-> k, description |-> d, arguments |-> a]
    BY <2>3 DEF PromptInfo
  <2>5. PICK info : info = PromptInfo(prompts[i])
    OBVIOUS
  <2>6. info = [key |-> name, description |-> d, arguments |-> a]
    BY <2>1, <2>5 DEF PromptInfo
  <2>7. [info EXCEPT !.key = k] = [key |-> k, description |-> d, arguments |-> a]
    BY <2>6
  <2>8. info.key = name
    BY <2>6
  <2> QED
    BY <2>1, <2>2, <2>4, <2>5, <2>7, <2>8 DEF Behind, PromptShown
<1> HIDE DEF C, D, E, K
<1>6. \A j \in DOMAIN C : PromptInfo(C[j]) = PromptShown(cfg, D[j])
  BY <1>3, <1>4, <1>5
<1> QED
  BY <1>2, <1>4, <1>6 DEF handlePromptsList, PromptsShown

-----------------------------------------------------------------------------
(* What the client of a proxy is answered.                                  *)

LEMMA ToolAskIs ==
  ASSUME NEW name, NEW args, NEW key
  PROVE  /\ ToolAsk(name, args).name = name
         /\ [ToolAsk(name, args) EXCEPT !.name = key] = ToolAsk(key, args)
BY DEF ToolAsk

\* The task at hand, and the proxy that was built for it.
Built == New(t.before, t.cfg)
Fronted == t \in ProxyTasks /\ Built.ok
TaskTyped(given) ==
  /\ WellFormedServer(given.before) /\ WellFormedServer(given.after)
  /\ given.cfg.prefix \in Words /\ Len(given.cfg.templates) \in Nat
  /\ \A i \in 1 .. Len(given.cfg.templates) : given.cfg.templates[i].key \in Seq(Char)

LEMMA FrontIs ==
  ASSUME Fronted
  PROVE  TaskTyped(t) /\ Fronts(Built.result, t.before, t.cfg)
<1>1. WellFormedProxyTask(t)
  BY ProxyTasksAssumption DEF Fronted
<1>2. TaskTyped(t)
  BY <1>1 DEF WellFormedProxyTask, TaskTyped
<1> QED
  BY <1>2, NewChooses DEF TaskTyped, Built, Fronted

LEMMA ToolTransparent ==
  ASSUME Fronted, NEW params, params = ToolAsk(params.name, params.args), params.name \in Words,
         NEW answer, answer \in Proxied(t.after, Built.result, "tools/call", params)
  PROVE  IF Among(ShownTools, params.name)
           THEN \E d \in Direct("tools/call", [params EXCEPT !.name = Unprefixed(@)]) : SameTool(d, answer)
           ELSE Unknown(answer)
<1>1. PICK name, args, p, tools, cfg : /\ name = params.name /\ args = params.args /\ p = Built.result
                                       /\ tools = t.before.tools /\ cfg = t.cfg
  OBVIOUS
<1>2. params = ToolAsk(name, args) /\ answer \in Proxied(t.after, p, "tools/call", ToolAsk(name, args))
  BY <1>1
<1>3. TaskTyped(t) /\ Fronts(p, t.before, cfg)
  BY <1>1, FrontIs
<1>4. Among(ShownTools, name) <=> \E i : ShownAs(tools, cfg.tools, cfg.prefix, name, i)
  <2>1. Registry(tools)
    BY <1>1, <1>3, Zenon DEF TaskTyped, WellFormedServer, WellFormedTools
  <2> QED
    BY <1>1, <2>1, AmongIs DEF ShownTools
<1>5. CASE ~Among(ShownTools, name)
  <2>1. Unknown(answer)
    BY <1>1, <1>2, <1>3, <1>4, <1>5, UnknownTool DEF TaskTyped
  <2> QED
    BY <1>1, <1>5, <2>1
<1>6. CASE Among(ShownTools, name)
  <2>1. PICK i : ShownAs(tools, cfg.tools, cfg.prefix, name, i)
    BY <1>4, <1>6
  <2>2. PICK key : key = tools[i].key
    OBVIOUS
  <2>3. key \in Words /\ name = cfg.prefix \o key
    BY <1>1, <1>3, <2>1, <2>2, Zenon DEF ShownAs, TaskTyped, WellFormedServer, WellFormedTools, Registry
  <2>4. Unprefixed(name) = key
    BY <1>1, <1>3, <2>3, UnprefixedIs DEF TaskTyped
  <2>5. [params EXCEPT !.name = Unprefixed(@)] = ToolAsk(key, args)
    BY <1>1, <1>2, <2>4, ToolAskIs
  <2>6. PICK e, out : /\ e.structured = FALSE /\ answer = Done(ToolResult(e, out))
                      /\ IF args = "not an object" THEN out = ToolFailed(<<"invalid arguments">>)
                         ELSE \E a \in Backed(t.after, "tools/call", ToolAsk(key, args)) : out = forwardTool(a)
    <3>1. PICK before, after : before = t.before /\ after = t.after
      OBVIOUS
    <3>2. ToolRelayed(after, before.tools[i].key, args, answer)
      <4>1. WellFormedServer(before) /\ cfg.prefix \in Words /\ Fronts(p, before, cfg)
        BY <1>1, <1>3, <3>1 DEF TaskTyped
      <4>2. ShownAs(before.tools, cfg.tools, cfg.prefix, name, i)
        BY <1>1, <2>1, <3>1
      <4>3. answer \in Proxied(after, p, "tools/call", ToolAsk(name, args))
        BY <1>2, <3>1
      <4> QED
        BY <4>1, <4>2, <4>3, ProxiedTool
    <3> QED
      BY <1>1, <2>2, <3>1, <3>2 DEF ToolRelayed
  <2>7. WellFormedServer(t.after)
    BY <1>3 DEF TaskTyped
  <2>8. \E d \in Backed(t.after, "tools/call", ToolAsk(key, args)) : SameTool(d, answer)
    <3>1. CASE args = "not an object"
      <4>1. PICK a : a \in Backed(t.after, "tools/call", ToolAsk(key, args))
        BY <2>7, BackendAnswersTool
      <4>2. a.ok = FALSE \/ ErrorText(a, <<"invalid arguments">>)
        BY <2>7, <3>1, <4>1, BackendTool
      <4>3. answer = Done(ToolResult(e, ToolFailed(<<"invalid arguments">>)))
        BY <2>6, <3>1
      <4>4. SameTool(a, answer)
        BY <4>2, <4>3, RefusedTool
      <4> QED
        BY <4>1, <4>4
    <3>2. CASE args # "not an object"
      <4>1. PICK a \in Backed(t.after, "tools/call", ToolAsk(key, args)) : out = forwardTool(a)
        BY <2>6, <3>2
      <4>2. ToolEnds(a)
        BY <2>7, BackendTool
      <4>3. SameTool(a, answer)
        BY <2>6, <4>1, <4>2, RelayedTool
      <4> QED
        BY <4>3
    <3> QED
      BY <3>1, <3>2
  <2> QED
    BY <1>1, <1>6, <2>5, <2>8 DEF Direct
<1> QED
  BY <1>1, <1>5, <1>6

LEMMA PromptTransparent ==
  ASSUME Fronted, NEW params, params = ToolAsk(params.name, params.args), params.name \in Words,
         NEW answer, answer \in Proxied(t.after, Built.result, "prompts/get", params)
  PROVE  IF Among(ShownPrompts, params.name)
           THEN \E d \in Direct("prompts/get", [params EXCEPT !.name = Unprefixed(@)]) : SamePrompt(d, answer)
           ELSE Unknown(answer)
<1>1. PICK name, args, p, prompts, cfg : /\ name = params.name /\ args = params.args /\ p = Built.result
                                         /\ prompts = t.before.prompts /\ cfg = t.cfg
  OBVIOUS
<1>2. params = ToolAsk(name, args) /\ answer \in Proxied(t.after, p, "prompts/get", ToolAsk(name, args))
  BY <1>1
<1>3. TaskTyped(t) /\ Fronts(p, t.before, cfg)
  BY <1>1, FrontIs
<1>4. Among(ShownPrompts, name) <=> \E i : ShownAs(prompts, cfg.prompts, cfg.prefix, name, i)
  <2>1. Registry(prompts)
    BY <1>1, <1>3 DEF TaskTyped, WellFormedServer, WellFormedPrompts
  <2> QED
    BY <1>1, <2>1, AmongIs DEF ShownPrompts
<1>5. CASE ~Among(ShownPrompts, name)
  <2>1. Unknown(answer)
    BY <1>1, <1>2, <1>3, <1>4, <1>5, UnknownPrompt DEF TaskTyped
  <2> QED
    BY <1>1, <1>5, <2>1
<1>6. CASE Among(ShownPrompts, name)
  <2>1. PICK i : ShownAs(prompts, cfg.prompts, cfg.prefix, name, i)
    BY <1>4, <1>6
  <2>2. PICK key : key = prompts[i].key
    OBVIOUS
  <2>3. key \in Words /\ name = cfg.prefix \o key
    BY <1>1, <1>3, <2>1, <2>2, Zenon DEF ShownAs, TaskTyped, WellFormedServer, WellFormedPrompts, Registry
  <2>4. Unprefixed(name) = key
    BY <1>1, <1>3, <2>3, UnprefixedIs DEF TaskTyped
  <2>5. [params EXCEPT !.name = Unprefixed(@)] = ToolAsk(key, args)
    BY <1>1, <1>2, <2>4, ToolAskIs
  <2>6. \E d \in Backed(t.after, "prompts/get", ToolAsk(key, args)) : SamePrompt(d, answer)
    BY <1>1, <1>2, <1>3, <2>1, <2>2, ProxiedPrompt DEF TaskTyped
  <2> QED
    BY <1>1, <1>6, <2>5, <2>6 DEF Direct
<1> QED
  BY <1>1, <1>5, <1>6

LEMMA ReadTransparent ==
  ASSUME Fronted, NEW params, params = UriAsk(params.uri), params.uri \in Seq(Char),
         NEW answer, answer \in Proxied(t.after, Built.result, "resources/read", params)
  PROVE  LET first == Matching(t.cfg.templates, params.uri)
         IN IF Known(ShownResources, params.uri)
              THEN \E d \in Direct("resources/read", params) : SameRead(d, answer)
            ELSE IF first = 0 THEN Unknown(answer)
            ELSE Restorable(t.cfg.templates[first].key, params.uri) =>
                   \E d \in Direct("resources/read", params) : SameRead(d, answer)
<1>1. PICK uri, p, cfg, first : /\ uri = params.uri /\ p = Built.result /\ cfg = t.cfg
                                /\ first = Matching(cfg.templates, uri)
  OBVIOUS
<1>2. params = UriAsk(uri) /\ answer \in Proxied(t.after, p, "resources/read", UriAsk(uri)) /\ uri \in Seq(Char)
  BY <1>1
<1>3. TaskTyped(t) /\ Fronts(p, t.before, cfg)
  BY <1>1, FrontIs
<1>4. /\ WellFormedServer(t.before) /\ WellFormedServer(t.after) /\ Len(cfg.templates) \in Nat
      /\ \A i \in 1 .. Len(cfg.templates) : cfg.templates[i].key \in Seq(Char)
  BY <1>1, <1>3 DEF TaskTyped
<1>5. CASE Known(ShownResources, uri)
  <2>1. Known(Shown(t.before.resources, cfg.resources), uri)
    BY <1>1, <1>5 DEF ShownResources
  <2>2. \E d \in Backed(t.after, "resources/read", UriAsk(uri)) : SameRead(d, answer)
    BY <1>2, <1>3, <1>4, <2>1, ProxiedStatic
  <2> QED
    BY <1>1, <1>2, <1>5, <2>2 DEF Direct
<1>6. CASE ~Known(ShownResources, uri) /\ first = 0
  <2>1. ~Known(Shown(t.before.resources, cfg.resources), uri)
    BY <1>1, <1>6 DEF ShownResources
  <2>2. Unknown(answer)
    BY <1>1, <1>2, <1>3, <1>4, <1>6, <2>1, UnknownResource
  <2> QED
    BY <1>1, <1>6, <2>2
<1>7. CASE ~Known(ShownResources, uri) /\ first # 0
  <2>1. ~Known(Shown(t.before.resources, cfg.resources), uri)
    BY <1>1, <1>7 DEF ShownResources
  <2>2. Restorable(cfg.templates[first].key, uri) =>
          \E d \in Backed(t.after, "resources/read", UriAsk(uri)) : SameRead(d, answer)
    BY <1>1, <1>2, <1>3, <1>4, <1>7, <2>1, ProxiedTemplate
  <2> QED
    BY <1>1, <1>2, <1>7, <2>2 DEF Direct
<1> QED
  BY <1>1, <1>5, <1>6, <1>7

LEMMA CompletionTransparent ==
  ASSUME Fronted, NEW params,
         params = CompleteAsk(params.ref.type, params.ref.name, params.argument, params.value),
         params.ref.name \in Words,
         NEW answer, answer \in Proxied(t.after, Built.result, "completion/complete", params)
  PROVE  /\ params.ref.type = "ref/prompt" /\ Among(ShownPrompts, params.ref.name) =>
              \E d \in Direct("completion/complete", [params EXCEPT !.ref.name = Unprefixed(@)]) :
                SameValues(d, answer)
         /\ params.ref.type = "ref/resource" /\ Known(t.cfg.templates, params.ref.name) =>
              \E d \in Direct("completion/complete", params) : SameValues(d, answer)
<1>1. PICK y, n, argument, value, p, cfg : /\ y = params.ref.type /\ n = params.ref.name
                                           /\ argument = params.argument /\ value = params.value
                                           /\ p = Built.result /\ cfg = t.cfg
  OBVIOUS
<1>2. params = CompleteAsk(y, n, argument, value)
      /\ answer \in Proxied(t.after, p, "completion/complete", CompleteAsk(y, n, argument, value))
  BY <1>1
<1>3. TaskTyped(t) /\ Fronts(p, t.before, cfg)
  BY <1>1, FrontIs
<1>4. WellFormedServer(t.before) /\ WellFormedServer(t.after) /\ Len(cfg.templates) \in Nat /\ cfg.prefix \in Words
  BY <1>1, <1>3 DEF TaskTyped
<1>5. PICK ref : ref = CompleteAsk(y, n, argument, value).ref
  OBVIOUS
<1>6. ref.type = y /\ ref.name = n
  BY <1>5, CompleteAskIs
<1>7. ASSUME y = "ref/prompt", Among(ShownPrompts, n)
      PROVE  \E d \in Direct("completion/complete", [params EXCEPT !.ref.name = Unprefixed(@)]) :
               SameValues(d, answer)
  <2> DEFINE prompts == t.before.prompts
  <2>1. Registry(prompts) /\ WellFormedPrompts(prompts)
    BY <1>4 DEF WellFormedServer, WellFormedPrompts
  <2>2. PICK i : ShownAs(prompts, cfg.prompts, cfg.prefix, n, i)
    BY <1>1, <1>7, <2>1, AmongIs DEF ShownPrompts
  <2>3. PICK key : key = prompts[i].key
    OBVIOUS
  <2>4. key \in Words /\ n = cfg.prefix \o key
    BY <2>1, <2>2, <2>3 DEF ShownAs, WellFormedPrompts, Registry
  <2>5. Unprefixed(n) = key
    BY <1>1, <1>4, <2>4, UnprefixedIs
  <2>6. [params EXCEPT !.ref.name = key] = CompleteAsk(y, key, argument, value)
    BY <1>2, CompleteAskIs
  <2>7. Known(p.prompts, n) /\ Entry(p.prompts, n).completer = forward(key)
    <3>1. PICK before : before = t.before
      OBVIOUS
    <3>2. /\ WellFormedServer(before) /\ cfg.prefix \in Words /\ Fronts(p, before, cfg)
          /\ ShownAs(before.prompts, cfg.prompts, cfg.prefix, n, i) /\ key = before.prompts[i].key
      BY <1>3, <1>4, <2>2, <2>3, <3>1
    <3> QED
      BY <3>2, PromptFound
  <2>8. CompleterOf(p, ref) = forward(key)
    BY <1>6, <1>7, <2>7 DEF CompleterOf
  <2>9. \E d \in Backed(t.after, "completion/complete", CompleteAsk(y, key, argument, value)) : SameValues(d, answer)
    BY <1>2, <1>4, <1>5, <2>8, ProxiedComplete
  <2>10. [params EXCEPT !.ref.name = Unprefixed(@)] = CompleteAsk(y, key, argument, value)
    BY <1>1, <2>5, <2>6
  <2> QED
    BY <2>9, <2>10 DEF Direct
<1>8. ASSUME y = "ref/resource", Known(cfg.templates, n)
      PROVE  \E d \in Direct("completion/complete", params) : SameValues(d, answer)
  <2>1. Known(p.templates, n) /\ Entry(p.templates, n).completer = forward(n)
    BY <1>3, <1>4, <1>8, TemplateCompleter
  <2>2. CompleterOf(p, ref) = forward(n)
    BY <1>6, <1>8, <2>1 DEF CompleterOf
  <2>3. \E d \in Backed(t.after, "completion/complete", CompleteAsk(y, n, argument, value)) : SameValues(d, answer)
    BY <1>2, <1>4, <1>5, <2>2, ProxiedComplete
  <2> QED
    BY <1>2, <2>3 DEF Direct
<1> QED
  BY <1>1, <1>7, <1>8

\* Whatever a proxy in front of a backend is asked, it answers as promised.
LEMMA AnsweredTransparently ==
  ASSUME Fronted, NEW a, a = answers[2],
         a \in Proxied(t.after, Built.result, t.request.method, t.request.params)
  PROVE  ProxyTransparent
<1>1. PICK method, params : method = t.request.method /\ params = t.request.params
  OBVIOUS
<1>2. WellFormedAsk(method, params) /\ a \in Proxied(t.after, Built.result, method, params)
  BY <1>1, ProxyTasksAssumption DEF Fronted, WellFormedProxyTask
<1>3. TaskTyped(t) /\ Fronts(Built.result, t.before, t.cfg)
  BY FrontIs
<1>4. WellFormedServer(t.before)
  BY <1>3 DEF TaskTyped
<1>5. CASE method = "tools/call"
  <2>1. params = ToolAsk(params.name, params.args) /\ params.name \in Words
    BY <1>2, <1>5 DEF WellFormedAsk, ToolAsk
  <2>2. IF Among(ShownTools, params.name)
          THEN \E d \in Direct("tools/call", [params EXCEPT !.name = Unprefixed(@)]) : SameTool(d, a)
          ELSE Unknown(a)
    BY <1>2, <1>5, <2>1, ToolTransparent
  <2> QED
    BY <1>1, <1>5, <2>2 DEF ProxyTransparent
<1>6. CASE method = "prompts/get"
  <2>1. params = ToolAsk(params.name, params.args) /\ params.name \in Words
    BY <1>2, <1>6 DEF WellFormedAsk, ToolAsk
  <2>2. IF Among(ShownPrompts, params.name)
          THEN \E d \in Direct("prompts/get", [params EXCEPT !.name = Unprefixed(@)]) : SamePrompt(d, a)
          ELSE Unknown(a)
    BY <1>2, <1>6, <2>1, PromptTransparent
  <2> QED
    BY <1>1, <1>6, <2>2 DEF ProxyTransparent
<1>7. CASE method = "resources/read"
  <2>1. params = UriAsk(params.uri) /\ params.uri \in Seq(Char)
    BY <1>2, <1>7 DEF WellFormedAsk, UriAsk
  <2>2. PICK first : first = Matching(t.cfg.templates, params.uri)
    OBVIOUS
  <2>3. IF Known(ShownResources, params.uri)
          THEN \E d \in Direct("resources/read", params) : SameRead(d, a)
        ELSE IF first = 0 THEN Unknown(a)
        ELSE Restorable(t.cfg.templates[first].key, params.uri) =>
               \E d \in Direct("resources/read", params) : SameRead(d, a)
    BY <1>2, <1>7, <2>1, <2>2, ReadTransparent
  <2> QED
    BY <1>1, <1>7, <2>2, <2>3 DEF ProxyTransparent
<1>8. CASE method = "completion/complete"
  <2>1. /\ params = CompleteAsk(params.ref.type, params.ref.name, params.argument, params.value)
        /\ params.ref.name \in Words
    BY <1>2, <1>8 DEF WellFormedAsk, CompleteAsk
  <2>2. /\ params.ref.type = "ref/prompt" /\ Among(ShownPrompts, params.ref.name) =>
             \E d \in Direct("completion/complete", [params EXCEPT !.ref.name = Unprefixed(@)]) : SameValues(d, a)
        /\ params.ref.type = "ref/resource" /\ Known(t.cfg.templates, params.ref.name) =>
             \E d \in Direct("completion/complete", params) : SameValues(d, a)
    BY <1>2, <1>8, <2>1, CompletionTransparent
  <2> QED
    BY <1>1, <1>8, <2>2 DEF ProxyTransparent
<1>9. CASE method = "tools/list"
  <2>1. a = Done(ToolsShown(t.cfg, t.before))
    <3>1. a = Done(handleToolsList(Built.result))
      BY <1>2, <1>9 DEF Proxied, route
    <3>2. handleToolsList(Built.result) = ToolsShown(t.cfg, t.before)
      BY <1>3, <1>4, ToolsShownAre
    <3> QED
      BY <3>1, <3>2
  <2> QED
    BY <1>1, <1>9, <2>1 DEF ProxyTransparent, ToolsShown, ShownTools
<1>10. CASE method = "resources/list"
  <2>1. a = Done(ResourcesShown(t.cfg, t.before))
    <3>1. a = Done(handleResourcesList(Built.result))
      BY <1>2, <1>10 DEF Proxied, route
    <3>2. handleResourcesList(Built.result) = ResourcesShown(t.cfg, t.before)
      BY <1>3, <1>4, ResourcesShownAre
    <3> QED
      BY <3>1, <3>2
  <2> QED
    BY <1>1, <1>10, <2>1 DEF ProxyTransparent, ResourcesShown, ShownResources
<1>11. CASE method = "prompts/list"
  <2>1. a = Done(PromptsShown(t.cfg, t.before))
    <3>1. a = Done(handlePromptsList(Built.result))
      BY <1>2, <1>11 DEF Proxied, route
    <3>2. handlePromptsList(Built.result) = PromptsShown(t.cfg, t.before)
      BY <1>3, <1>4, PromptsShownAre
    <3> QED
      BY <3>1, <3>2
  <2> QED
    BY <1>1, <1>11, <2>1 DEF ProxyTransparent, PromptsShown, PromptShown, ShownPrompts
<1>12. CASE method \in {"initialize", "ping", "resources/templates/list"}
  <2>1. PICK r : a = Done(r)
    <3>1. CASE method = "initialize"
      BY <1>2, <3>1 DEF Proxied, route
    <3>2. CASE method = "ping"
      BY <1>2, <3>2 DEF Proxied, route
    <3>3. CASE method = "resources/templates/list"
      BY <1>2, <3>3 DEF Proxied, route
    <3> QED
      BY <1>12, <3>1, <3>2, <3>3
  <2>2. a.ok = TRUE
    BY <2>1, DoneIs
  <2> QED
    BY <1>1, <1>12, <2>2 DEF ProxyTransparent
<1>13. method \in {"tools/call", "prompts/get", "resources/read", "completion/complete", "tools/list",
                   "resources/list", "prompts/list", "initialize", "ping", "resources/templates/list"}
  BY <1>2 DEF WellFormedAsk
<1> QED
  BY <1>5, <1>6, <1>7, <1>8, <1>9, <1>10, <1>11, <1>12, <1>13

\* A proxy at work has been built by New, or not, and then answers by it.
ProxyAnswers ==
  /\ task.kind = "proxy" /\ t \in ProxyTasks
  /\ \/ answers = <<>>
     \/ answers = <<Built>>
     \/ /\ Built.ok
        /\ \E a \in Proxied(t.after, Built.result, t.request.method, t.request.params) :
             answers = <<Built, a>>

\* proxy.go: to a client, a proxy is the backend behind it, as far as its filters
\* let it show, for any backend that may change, fail or go at any time.
THEOREM ProxyIsTransparent == ProxySpec => []ProxyTransparent
<1>1. ProxyInit => ProxyAnswers
  BY DEF ProxyInit, ProxyAnswers, t
<1>2. ProxyAnswers /\ [ProxyNext]_taskVars => ProxyAnswers'
  <2> SUFFICES ASSUME ProxyAnswers, [ProxyNext]_taskVars PROVE ProxyAnswers'
    OBVIOUS
  <2>1. task.kind = "proxy" /\ t \in ProxyTasks
    BY DEF ProxyAnswers
  <2>2. CASE BuildProxy
    <3>1. UNCHANGED task /\ Len(answers) = 0 /\ answers' = Append(answers, Built)
      BY <2>2 DEF BuildProxy, NextCall, Built
    <3>2. PICK x : x = Built
      OBVIOUS
    <3>3. answers = <<>>
      <4>1. ASSUME NEW y, NEW z, answers = <<y, z>> PROVE FALSE
        BY <3>1, <4>1
      <4>2. ASSUME NEW y, answers = <<y>> PROVE FALSE
        BY <3>1, <4>2
      <4> QED
        BY <4>1, <4>2 DEF ProxyAnswers
    <3>4. answers' = <<x>>
      BY <3>1, <3>2, <3>3
    <3>5. t' = t /\ Built' = Built
      BY <3>1 DEF t, Built
    <3> QED
      BY <2>1, <3>1, <3>2, <3>4, <3>5 DEF ProxyAnswers
  <2>3. CASE AskProxy
    <3>1. UNCHANGED task /\ Len(answers) = 1 /\ answers[1].ok
      BY <2>3 DEF AskProxy, NextCall
    <3>2. PICK x : x = Built
      OBVIOUS
    <3>3. answers = <<x>>
      <4>1. ASSUME NEW y, NEW z, answers = <<y, z>> PROVE FALSE
        BY <3>1, <4>1
      <4>2. answers # <<>>
        BY <3>1
      <4> QED
        BY <3>2, <4>1, <4>2 DEF ProxyAnswers
    <3>4. answers[1] = x
      BY <3>3
    <3>5. PICK a \in Proxied(t.after, x.result, t.request.method, t.request.params) :
            answers' = Append(answers, a)
      BY <2>3, <3>4 DEF AskProxy, NextCall
    <3>6. answers' = <<x, a>>
      <4>1. Append(<<x>>, a) = <<x, a>>
        BY AppendOne
      <4> QED
        BY <3>3, <3>5, <4>1
    <3>7. t' = t /\ Built' = Built
      BY <3>1 DEF t, Built
    <3>8. Built.ok /\ a \in Proxied(t.after, Built.result, t.request.method, t.request.params)
      BY <3>1, <3>2, <3>4, <3>5
    <3> QED
      BY <2>1, <3>1, <3>2, <3>6, <3>7, <3>8 DEF ProxyAnswers
  <2>4. CASE UNCHANGED taskVars
    BY <2>4 DEF ProxyAnswers, taskVars, t, Built
  <2> QED
    BY <2>2, <2>3, <2>4 DEF ProxyNext
<1>3. ProxyAnswers => ProxyTransparent
  <2> SUFFICES ASSUME ProxyAnswers, After("proxy", 2) PROVE ProxyTransparent
    BY DEF ProxyTransparent
  <2>1. Len(answers) = 2
    BY DEF After
  <2>2. answers # <<>> /\ \A y : answers # <<y>>
    <3>1. ASSUME NEW y, answers = <<y>> PROVE FALSE
      BY <2>1, <3>1
    <3> QED
      BY <2>1, <3>1
  <2>3. PICK a \in Proxied(t.after, Built.result, t.request.method, t.request.params) : answers = <<Built, a>>
    BY <2>2 DEF ProxyAnswers
  <2>4. answers[2] = a
    BY <2>3
  <2>5. Fronted
    BY <2>2 DEF ProxyAnswers, Fronted
  <2> QED
    BY <2>4, <2>5, AnsweredTransparently
<1> QED
  BY <1>1, <1>2, <1>3, PTL DEF ProxySpec

-----------------------------------------------------------------------------
(* The server made from an OpenAPI document.  Registered(doc, n) is the     *)
(* claim about the server after n turns.                                    *)

TypeOf(doc, i) == classify(doc.rules, doc.ops[i])
RouteOf(doc, i) == buildRoute(doc.ops[i], doc.components)
Routes(doc) == {RouteOf(doc, i) : i \in 1 .. Len(doc.ops)}
ServerMade(tools, resources, templates) == [tools |-> tools, resources |-> resources, templates |-> templates]

\* One turn: a tool takes the place of the one of its name, a template is added.
TurnHolds(tools, templates, more, others, i, doc) ==
  /\ more = IF TypeOf(doc, i) \in {"exclude", "resource", "template"} THEN tools
            ELSE Stored(tools, RouteOf(doc, i).name, RouteOf(doc, i))
  /\ others = IF TypeOf(doc, i) = "template" THEN Append(templates, RouteOf(doc, i)) ELSE templates

LEMMA OneTurn ==
  ASSUME NEW doc, NEW i, NEW a, NEW b, NEW c, NEW s, s = ServerMade(a, b, c)
  PROVE  \E x, y, z : /\ Register(s, doc.ops[i], RouteOf(doc, i), TypeOf(doc, i)) = ServerMade(x, y, z)
                      /\ TurnHolds(a, c, x, z, i, doc)
<1> DEFINE type == TypeOf(doc, i)
           r == RouteOf(doc, i)
           op == doc.ops[i]
           new == Register(s, op, r, type)
<1>1. s = [tools |-> a, resources |-> b, templates |-> c]
  BY DEF ServerMade
<1>2. \A x, y, z : ServerMade(x, y, z) = [tools |-> x, resources |-> y, templates |-> z]
  BY DEF ServerMade
<1>3. CASE type = "exclude"
  <2>1. new = ServerMade(a, b, c)
    BY <1>3 DEF Register
  <2> QED
    BY <1>3, <2>1 DEF TurnHolds
<1>4. CASE type = "resource"
  <2>1. new = [s EXCEPT !.resources = Stored(@, op.path, r)]
    BY <1>4 DEF Register
  <2>2. new = ServerMade(a, Stored(b, op.path, r), c)
    BY <1>1, <1>2, <2>1
  <2> QED
    BY <1>4, <2>2 DEF TurnHolds
<1>5. CASE type = "template"
  <2>1. new = [s EXCEPT !.templates = Append(@, r)]
    BY <1>5 DEF Register
  <2>2. PICK x : x = Append(s.templates, r)
    OBVIOUS
  <2>3. s.templates = c
    BY <1>1
  <2>4. new = [s EXCEPT !.templates = x]
    BY <2>1, <2>2
  <2>5. new = ServerMade(a, b, x)
    BY <1>1, <1>2, <2>4
  <2> QED
    BY <1>5, <2>2, <2>3, <2>5 DEF TurnHolds
<1>6. CASE type \notin {"exclude", "resource", "template"}
  <2>1. new = [s EXCEPT !.tools = Stored(@, r.name, r)]
    BY <1>6 DEF Register
  <2>2. new = ServerMade(Stored(a, r.name, r), b, c)
    BY <1>1, <1>2, <2>1
  <2> QED
    BY <1>6, <2>2 DEF TurnHolds
<1> QED
  BY <1>3, <1>4, <1>5, <1>6

ServedTurns(doc, n, g) ==
  g = [k \in 0 .. n |-> IF k = 0 THEN BareServer
                        ELSE Register(g[k - 1], doc.ops[k], RouteOf(doc, k), TypeOf(doc, k))]

LEMMA ServedExist ==
  ASSUME NEW doc, NEW n \in Nat
  PROVE  \E g : ServedTurns(doc, n, g)
<1> DEFINE step(s, k) == Register(s, doc.ops[k], RouteOf(doc, k), TypeOf(doc, k))
           T == {k \in Nat : \E g : ServedTurns(doc, k, g)}
<1>1. 0 \in T
  <2> DEFINE g == [k \in 0 .. 0 |-> BareServer]
  <2>1. g = [k \in 0 .. 0 |-> IF k = 0 THEN BareServer ELSE step(g[k - 1], k)]
    OBVIOUS
  <2> QED
    BY <2>1 DEF ServedTurns
<1>2. ASSUME NEW k \in Nat, k \in T PROVE k + 1 \in T
  <2>1. PICK f : ServedTurns(doc, k, f)
    BY <1>2
  <2> DEFINE g == [i \in 0 .. (k + 1) |-> IF i = k + 1 THEN step(f[k], i) ELSE f[i]]
  <2>2. ASSUME NEW i \in 0 .. (k + 1) PROVE g[i] = IF i = 0 THEN BareServer ELSE step(g[i - 1], i)
    <3>1. CASE i = k + 1
      <4>1. i # 0 /\ i - 1 = k /\ i - 1 \in 0 .. (k + 1) /\ i - 1 # k + 1
        BY <3>1
      <4>2. g[i] = step(f[k], i) /\ g[i - 1] = f[i - 1]
        BY <3>1, <4>1
      <4> QED
        BY <4>1, <4>2
    <3>2. CASE i # k + 1
      <4>1. i \in 0 .. k /\ g[i] = f[i]
        BY <3>2
      <4>2. f[i] = IF i = 0 THEN BareServer ELSE step(f[i - 1], i)
        BY <2>1, <4>1 DEF ServedTurns
      <4>3. i # 0 => g[i - 1] = f[i - 1]
        BY <4>1
      <4> HIDE DEF g
      <4> QED
        BY <4>1, <4>2, <4>3
    <3> QED
      BY <3>1, <3>2
  <2>3. g = [i \in 0 .. (k + 1) |-> g[i]]
    OBVIOUS
  <2> HIDE DEF g
  <2>4. g = [i \in 0 .. (k + 1) |-> IF i = 0 THEN BareServer ELSE step(g[i - 1], i)]
    BY <2>2, <2>3
  <2>5. ServedTurns(doc, k + 1, g)
    BY <2>4 DEF ServedTurns
  <2> QED
    BY <2>5
<1>3. Nat \subseteq T
  <2> HIDE DEF T
  <2> QED
    BY <1>1, <1>2, Counting
<1> QED
  BY <1>3

\* What is served after n turns: the templates are routes of the document, that
\* of every operation turned into one among them; and a tool that no other
\* operation takes the place of is the route of its operation.
ToolStays(doc, i) ==
  \A j \in 1 .. Len(doc.ops) :
    TypeOf(doc, j) \notin {"exclude", "resource", "template"} /\ RouteOf(doc, j).name = RouteOf(doc, i).name
      => RouteOf(doc, j) = RouteOf(doc, i)
TemplatesHold(doc, n, templates) ==
  /\ templates \in Seq(Routes(doc))
  /\ \A i \in 1 .. n : TypeOf(doc, i) = "template" =>
       \E k \in 1 .. Len(templates) : templates[k] = RouteOf(doc, i)
ToolsHold(doc, n, tools) ==
  \A i \in 1 .. n : TypeOf(doc, i) = "tool" /\ ToolStays(doc, i) =>
    RouteOf(doc, i).name \in DOMAIN tools /\ tools[RouteOf(doc, i).name] = RouteOf(doc, i)
Served(doc, n, s) ==
  \E a, b, c : s = ServerMade(a, b, c) /\ TemplatesHold(doc, n, c) /\ ToolsHold(doc, n, a)

LEMMA TemplatesGrow ==
  ASSUME NEW doc, NEW n \in Nat, NEW c, NEW d, NEW x, NEW y, n + 1 \in 1 .. Len(doc.ops),
         TemplatesHold(doc, n, c), TurnHolds(x, c, y, d, n + 1, doc)
  PROVE  TemplatesHold(doc, n + 1, d)
<1> DEFINE r == RouteOf(doc, n + 1)
<1>1. r \in Routes(doc) /\ c \in Seq(Routes(doc)) /\ Len(c) \in Nat
  BY LenProperties DEF Routes, TemplatesHold
<1>2. CASE TypeOf(doc, n + 1) = "template"
  <2>1. d = Append(c, r)
    BY <1>2 DEF TurnHolds
  <2>2. /\ d \in Seq(Routes(doc)) /\ Len(d) = Len(c) + 1
        /\ \A k \in 1 .. Len(c) : d[k] = c[k]
        /\ d[Len(c) + 1] = r
    BY <1>1, <2>1, AppendProperties
  <2>3. ASSUME NEW i \in 1 .. (n + 1), TypeOf(doc, i) = "template"
        PROVE  \E k \in 1 .. Len(d) : d[k] = RouteOf(doc, i)
    <3>1. CASE i = n + 1
      <4>1. Len(c) + 1 \in 1 .. Len(d)
        BY <1>1, <2>2
      <4> QED
        BY <2>2, <3>1, <4>1
    <3>2. CASE i # n + 1
      <4>1. i \in 1 .. n
        BY <3>2
      <4>2. PICK k \in 1 .. Len(c) : c[k] = RouteOf(doc, i)
        BY <2>3, <4>1 DEF TemplatesHold
      <4>3. k \in 1 .. Len(d)
        BY <1>1, <2>2
      <4> QED
        BY <2>2, <4>2, <4>3
    <3> QED
      BY <3>1, <3>2
  <2> QED
    BY <2>2, <2>3 DEF TemplatesHold
<1>3. CASE TypeOf(doc, n + 1) # "template"
  <2>1. d = c
    BY <1>3 DEF TurnHolds
  <2>2. \A i \in 1 .. (n + 1) : TypeOf(doc, i) = "template" => i \in 1 .. n
    BY <1>3
  <2> QED
    BY <1>1, <2>1, <2>2 DEF TemplatesHold
<1> QED
  BY <1>2, <1>3

LEMMA ToolsGrow ==
  ASSUME NEW doc, NEW n \in Nat, NEW c, NEW d, NEW x, NEW y, n + 1 \in 1 .. Len(doc.ops),
         ToolsHold(doc, n, x), TurnHolds(x, c, y, d, n + 1, doc)
  PROVE  ToolsHold(doc, n + 1, y)
<1> DEFINE r == RouteOf(doc, n + 1)
           type == TypeOf(doc, n + 1)
           other == type \in {"exclude", "resource", "template"}
<1>1. SUFFICES ASSUME NEW i \in 1 .. (n + 1), TypeOf(doc, i) = "tool", ToolStays(doc, i)
               PROVE  RouteOf(doc, i).name \in DOMAIN y /\ y[RouteOf(doc, i).name] = RouteOf(doc, i)
  BY DEF ToolsHold
<1>2. CASE other
  <2>1. i \in 1 .. n
    BY <1>1, <1>2
  <2>2. y = x
    BY <1>2 DEF TurnHolds
  <2> QED
    BY <1>1, <2>1, <2>2 DEF ToolsHold
<1>3. CASE ~other
  <2>1. y = [k \in DOMAIN x \cup {r.name} |-> IF k = r.name THEN r ELSE x[k]]
    BY <1>3 DEF TurnHolds, Stored
  <2>2. CASE r.name = RouteOf(doc, i).name
    <3>1. r = RouteOf(doc, i)
      BY <1>1, <1>3, <2>2 DEF ToolStays
    <3> QED
      BY <2>1, <2>2, <3>1
  <2>3. CASE r.name # RouteOf(doc, i).name
    <3>1. i \in 1 .. n
      BY <1>1, <2>3
    <3>2. RouteOf(doc, i).name \in DOMAIN x /\ x[RouteOf(doc, i).name] = RouteOf(doc, i)
      BY <1>1, <3>1 DEF ToolsHold
    <3> QED
      BY <2>1, <2>3, <3>2
  <2> QED
    BY <2>2, <2>3
<1> QED
  BY <1>2, <1>3

LEMMA DocumentServed ==
  ASSUME NEW doc, Len(doc.ops) \in Nat
  PROVE  Served(doc, Len(doc.ops), FromOpenAPIDoc(doc))
<1> DEFINE m == Len(doc.ops)
           g == CHOOSE g : ServedTurns(doc, m, g)
           T == {n \in Nat : n <= m => Served(doc, n, g[n])}
<1>1. ServedTurns(doc, m, g)
  BY ServedExist
<1>2. FromOpenAPIDoc(doc) = g[m]
  BY DEF FromOpenAPIDoc, ServedTurns, RouteOf, TypeOf
<1> HIDE DEF g
<1>3. 0 \in T
  <2>1. g[0] = ServerMade(<<>>, <<>>, <<>>)
    BY <1>1 DEF ServedTurns, BareServer, ServerMade
  <2>2. TemplatesHold(doc, 0, <<>>)
    BY EmptySeq DEF TemplatesHold
  <2>3. ToolsHold(doc, 0, <<>>)
    BY DEF ToolsHold
  <2> QED
    BY <2>1, <2>2, <2>3 DEF Served
<1>4. ASSUME NEW n \in Nat, n \in T PROVE n + 1 \in T
  <2> SUFFICES ASSUME n + 1 <= m PROVE Served(doc, n + 1, g[n + 1])
    OBVIOUS
  <2>1. n + 1 \in 1 .. m /\ n + 1 \in 0 .. m /\ (n + 1) - 1 = n /\ n + 1 # 0
    OBVIOUS
  <2>2. Served(doc, n, g[n])
    BY <1>4
  <2> HIDE DEF T
  <2>3. g[n + 1] = Register(g[n], doc.ops[n + 1], RouteOf(doc, n + 1), TypeOf(doc, n + 1))
    BY <1>1, <2>1 DEF ServedTurns
  <2>4. PICK a, b, c : g[n] = ServerMade(a, b, c) /\ TemplatesHold(doc, n, c) /\ ToolsHold(doc, n, a)
    BY <2>2 DEF Served
  <2>5. PICK x, y, z : g[n + 1] = ServerMade(x, y, z) /\ TurnHolds(a, c, x, z, n + 1, doc)
    BY <2>3, <2>4, OneTurn
  <2>6. TemplatesHold(doc, n + 1, z)
    BY <2>1, <2>4, <2>5, TemplatesGrow
  <2>7. ToolsHold(doc, n + 1, x)
    BY <2>1, <2>4, <2>5, ToolsGrow
  <2> QED
    BY <2>5, <2>6, <2>7 DEF Served
<1>5. Nat \subseteq T
  <2> HIDE DEF T
  <2> QED
    BY <1>3, <1>4, Counting
<1>6. m \in T /\ m <= m
  BY <1>5
<1> QED
  BY <1>2, <1>6

\* A route type is one of the four.
LEMMA TypesAre ==
  ASSUME NEW doc, WellFormedDocument(doc), NEW i
  PROVE  TypeOf(doc, i) \in {"tool", "resource", "template", "exclude"}
<1> DEFINE H == {k \in 1 .. Len(doc.rules) : matches(doc.rules[k], doc.ops[i])}
<1>1. /\ DOMAIN doc.rules = 1 .. Len(doc.rules) /\ Len(doc.rules) \in Nat
      /\ \A k \in DOMAIN doc.rules : doc.rules[k].type \in {"tool", "resource", "template", "exclude"}
  BY LenProperties DEF WellFormedDocument, IsSequence
<1>2. TypeOf(doc, i) = LET first == IF H # {} THEN Min(H) ELSE 0
                      IN IF first = 0 THEN "tool" ELSE doc.rules[first].type
  BY DEF TypeOf, classify, SelectInSeq
<1>3. H # {} => Min(H) \in H
  <2>1. H \subseteq 1 .. Len(doc.rules)
    OBVIOUS
  <2> HIDE DEF H
  <2> QED
    BY <1>1, <2>1, LeastIs
<1>4. \A k \in H : k \in DOMAIN doc.rules
  BY <1>1
<1> HIDE DEF H
<1> QED
  BY <1>1, <1>2, <1>3, <1>4

\* A tool that is alone with its name is the route of its operation.
LEMMA ToolIsOwn ==
  ASSUME NEW doc, WellFormedDocument(doc), NEW i \in DOMAIN doc.ops, TypeOf(doc, i) = "tool",
         \A j \in DOMAIN doc.ops : TypeOf(doc, j) = "tool" /\ toolName(doc.ops[j]) = toolName(doc.ops[i])
           => doc.ops[j] = doc.ops[i]
  PROVE  FromOpenAPIDoc(doc).tools[toolName(doc.ops[i])] = RouteOf(doc, i)
<1>1. DOMAIN doc.ops = 1 .. Len(doc.ops) /\ Len(doc.ops) \in Nat
  BY LenProperties DEF WellFormedDocument, IsSequence
<1>2. PICK a, b, c : /\ FromOpenAPIDoc(doc) = ServerMade(a, b, c)
                     /\ ToolsHold(doc, Len(doc.ops), a)
  BY <1>1, DocumentServed DEF Served
<1>3. \A j : RouteOf(doc, j).name = toolName(doc.ops[j])
  BY DEF RouteOf, buildRoute
<1>4. ToolStays(doc, i)
  <2>1. ASSUME NEW j \in 1 .. Len(doc.ops), TypeOf(doc, j) \notin {"exclude", "resource", "template"},
               RouteOf(doc, j).name = RouteOf(doc, i).name
        PROVE  RouteOf(doc, j) = RouteOf(doc, i)
    <3>1. TypeOf(doc, j) = "tool"
      BY <2>1, TypesAre
    <3>2. doc.ops[j] = doc.ops[i]
      BY <1>1, <1>3, <2>1, <3>1
    <3> QED
      BY <3>2 DEF RouteOf
  <2> QED
    BY <2>1 DEF ToolStays
<1>5. a[RouteOf(doc, i).name] = RouteOf(doc, i)
  BY <1>1, <1>2, <1>4 DEF ToolsHold
<1>6. FromOpenAPIDoc(doc).tools = a
  BY <1>2 DEF ServerMade
<1> QED
  BY <1>3, <1>5, <1>6

\* The template that is read is the route of an operation with its path.
TemplateRead(server, path) ==
  server.templates[SelectInSeq(server.templates, LAMBDA r : r.path = path)]

LEMMA TemplateIsOwn ==
  ASSUME NEW doc, WellFormedDocument(doc), NEW i \in DOMAIN doc.ops, TypeOf(doc, i) = "template"
  PROVE  \E j \in DOMAIN doc.ops : /\ doc.ops[j].path = doc.ops[i].path
                                   /\ TemplateRead(FromOpenAPIDoc(doc), doc.ops[i].path) = RouteOf(doc, j)
<1> DEFINE templates == FromOpenAPIDoc(doc).templates
           H == {k \in 1 .. Len(templates) : templates[k].path = doc.ops[i].path}
<1>1. DOMAIN doc.ops = 1 .. Len(doc.ops) /\ Len(doc.ops) \in Nat
  BY LenProperties DEF WellFormedDocument, IsSequence
<1>2. PICK a, b, c : /\ FromOpenAPIDoc(doc) = ServerMade(a, b, c)
                     /\ TemplatesHold(doc, Len(doc.ops), c)
  BY <1>1, DocumentServed DEF Served
<1>3. templates = c
  BY <1>2 DEF ServerMade
<1>4. TemplateRead(FromOpenAPIDoc(doc), doc.ops[i].path) = templates[IF H # {} THEN Min(H) ELSE 0]
  BY DEF TemplateRead, SelectInSeq
<1> HIDE DEF templates
<1>5. templates \in Seq(Routes(doc)) /\ Len(templates) \in Nat
  BY <1>2, <1>3, LenProperties DEF TemplatesHold
<1>6. \A j : RouteOf(doc, j).path = doc.ops[j].path
  BY DEF RouteOf, buildRoute
<1>7. H # {}
  <2>1. PICK k \in 1 .. Len(templates) : templates[k] = RouteOf(doc, i)
    BY <1>1, <1>2, <1>3 DEF TemplatesHold
  <2>2. k \in H
    BY <1>6, <2>1
  <2> QED
    BY <2>2
<1>8. Min(H) \in H
  <2>1. H \subseteq 1 .. Len(templates)
    OBVIOUS
  <2> HIDE DEF H
  <2> QED
    BY <1>5, <1>7, <2>1, LeastIs
<1>9. templates[Min(H)] \in Routes(doc) /\ templates[Min(H)].path = doc.ops[i].path
  <2>1. Min(H) \in 1 .. Len(templates)
    BY <1>8
  <2> QED
    BY <1>5, <1>8, <2>1, ElementOfSeq
<1>10. PICK j \in 1 .. Len(doc.ops) : templates[Min(H)] = RouteOf(doc, j)
  BY <1>9 DEF Routes
<1> HIDE DEF H
<1> QED
  BY <1>1, <1>4, <1>6, <1>7, <1>9, <1>10

-----------------------------------------------------------------------------
(* The fields of a route.                                                   *)

ParamField(p) == inputField(p.name, p.in, p.required \/ p.in = "path", p.type)
ParamFields(params) == {ParamField(params[i]) : i \in 1 .. Len(params)}
TakesPlace(fields, p) == \E k \in DOMAIN fields : fields[k].in = p.in /\ fields[k].name = p.name
AddParam(before, p) ==
  IF ~isSent(p) \/ TakesPlace(before, p) THEN before ELSE Append(before, ParamField(p))

AddTurns(params, n, g) == g = [k \in 0 .. n |-> IF k = 0 THEN <<>> ELSE AddParam(g[k - 1], params[k])]

LEMMA AddTurnsExist ==
  ASSUME NEW params, NEW n \in Nat
  PROVE  \E g : AddTurns(params, n, g)
<1> DEFINE T == {k \in Nat : \E g : AddTurns(params, k, g)}
<1>1. 0 \in T
  <2> DEFINE g == [k \in 0 .. 0 |-> <<>>]
  <2>1. g = [k \in 0 .. 0 |-> IF k = 0 THEN <<>> ELSE AddParam(g[k - 1], params[k])]
    OBVIOUS
  <2> QED
    BY <2>1 DEF AddTurns
<1>2. ASSUME NEW k \in Nat, k \in T PROVE k + 1 \in T
  <2>1. PICK f : AddTurns(params, k, f)
    BY <1>2
  <2> DEFINE g == [i \in 0 .. (k + 1) |-> IF i = k + 1 THEN AddParam(f[k], params[i]) ELSE f[i]]
  <2>2. ASSUME NEW i \in 0 .. (k + 1) PROVE g[i] = IF i = 0 THEN <<>> ELSE AddParam(g[i - 1], params[i])
    <3>1. CASE i = k + 1
      <4>1. i # 0 /\ i - 1 = k /\ i - 1 \in 0 .. (k + 1) /\ i - 1 # k + 1
        BY <3>1
      <4>2. g[i] = AddParam(f[k], params[i]) /\ g[i - 1] = f[i - 1]
        BY <3>1, <4>1
      <4> QED
        BY <4>1, <4>2
    <3>2. CASE i # k + 1
      <4>1. i \in 0 .. k /\ g[i] = f[i]
        BY <3>2
      <4>2. f[i] = IF i = 0 THEN <<>> ELSE AddParam(f[i - 1], params[i])
        BY <2>1, <4>1 DEF AddTurns
      <4>3. i # 0 => g[i - 1] = f[i - 1]
        BY <4>1
      <4> HIDE DEF g
      <4> QED
        BY <4>1, <4>2, <4>3
    <3> QED
      BY <3>1, <3>2
  <2>3. g = [i \in 0 .. (k + 1) |-> g[i]]
    OBVIOUS
  <2> HIDE DEF g
  <2>4. g = [i \in 0 .. (k + 1) |-> IF i = 0 THEN <<>> ELSE AddParam(g[i - 1], params[i])]
    BY <2>2, <2>3
  <2>5. AddTurns(params, k + 1, g)
    BY <2>4 DEF AddTurns
  <2> QED
    BY <2>5
<1>3. Nat \subseteq T
  <2> HIDE DEF T
  <2> QED
    BY <1>1, <1>2, Counting
<1> QED
  BY <1>3

\* The fields of the first n parameters: each is the field of one that is sent,
\* every place and name that is sent is among them, and none twice.
Adds(params, n, fields) ==
  /\ fields \in Seq(ParamFields(params))
  /\ \A k \in 1 .. Len(fields) : \E i \in 1 .. n : isSent(params[i]) /\ fields[k] = ParamField(params[i])
  /\ \A i \in 1 .. n : isSent(params[i]) => TakesPlace(fields, params[i])
  /\ \A k, l \in 1 .. Len(fields) : fields[k].in = fields[l].in /\ fields[k].name = fields[l].name => k = l

LEMMA AddOne ==
  ASSUME NEW params, NEW n \in Nat, n + 1 \in 1 .. Len(params), NEW before, Adds(params, n, before)
  PROVE  Adds(params, n + 1, AddParam(before, params[n + 1]))
<1> DEFINE p == params[n + 1]
           m == Len(before)
           after == Append(before, ParamField(p))
<1>1. /\ before \in Seq(ParamFields(params)) /\ m \in Nat /\ DOMAIN before = 1 .. m
      /\ ParamField(p) \in ParamFields(params)
  BY LenProperties DEF Adds, ParamFields
<1>2. \A i \in 1 .. (n + 1) : i = n + 1 \/ i \in 1 .. n
  OBVIOUS
<1>3. \A i \in 1 .. n : i \in 1 .. (n + 1)
  OBVIOUS
<1>4. CASE ~isSent(p) \/ TakesPlace(before, p)
  <2>1. AddParam(before, p) = before
    BY <1>4 DEF AddParam
  <2>2. \A i \in 1 .. (n + 1) : isSent(params[i]) => TakesPlace(before, params[i])
    BY <1>2, <1>4 DEF Adds
  <2> QED
    BY <1>1, <1>3, <2>1, <2>2 DEF Adds
<1>5. CASE isSent(p) /\ ~TakesPlace(before, p)
  <2>1. AddParam(before, p) = after
    BY <1>5 DEF AddParam
  <2>2. /\ after \in Seq(ParamFields(params)) /\ Len(after) = m + 1
        /\ \A k \in 1 .. m : after[k] = before[k]
        /\ after[m + 1] = ParamField(p)
    BY <1>1, AppendProperties
  <2> HIDE DEF after
  <2>3. DOMAIN after = 1 .. (m + 1)
    BY <2>2, LenProperties
  <2>4. \A k \in 1 .. (m + 1) : k = m + 1 \/ k \in 1 .. m
    BY <1>1
  <2>5. \A k \in 1 .. m : k \in 1 .. (m + 1)
    BY <1>1
  <2>6. ParamField(p).in = p.in /\ ParamField(p).name = p.name
    BY DEF ParamField, inputField
  <2>7. ASSUME NEW k \in 1 .. (m + 1)
        PROVE  \E i \in 1 .. (n + 1) : isSent(params[i]) /\ after[k] = ParamField(params[i])
    <3>1. CASE k = m + 1
      <4>1. n + 1 \in 1 .. (n + 1)
        OBVIOUS
      <4> QED
        BY <1>5, <2>2, <3>1, <4>1
    <3>2. CASE k \in 1 .. m
      <4>1. PICK i \in 1 .. n : isSent(params[i]) /\ before[k] = ParamField(params[i])
        BY <3>2 DEF Adds
      <4> QED
        BY <1>3, <2>2, <3>2, <4>1
    <3> QED
      BY <2>4, <3>1, <3>2
  <2>8. ASSUME NEW i \in 1 .. (n + 1), isSent(params[i]) PROVE TakesPlace(after, params[i])
    <3>1. CASE i = n + 1
      <4>1. m + 1 \in 1 .. (m + 1)
        BY <1>1
      <4> QED
        BY <2>2, <2>3, <2>6, <3>1, <4>1 DEF TakesPlace
    <3>2. CASE i \in 1 .. n
      <4>1. PICK k \in 1 .. m : before[k].in = params[i].in /\ before[k].name = params[i].name
        BY <1>1, <2>8, <3>2 DEF Adds, TakesPlace
      <4> QED
        BY <2>2, <2>3, <2>5, <4>1 DEF TakesPlace
    <3> QED
      BY <1>2, <3>1, <3>2
  <2>9. ASSUME NEW k \in 1 .. (m + 1), NEW l \in 1 .. (m + 1),
               after[k].in = after[l].in, after[k].name = after[l].name
        PROVE  k = l
    <3>1. \A j \in 1 .. m : after[j].in # p.in \/ after[j].name # p.name
      BY <1>1, <1>5, <2>2 DEF TakesPlace
    <3>2. CASE k \in 1 .. m /\ l \in 1 .. m
      BY <2>2, <2>9, <3>2 DEF Adds
    <3>3. CASE k = m + 1 \/ l = m + 1
      BY <2>2, <2>4, <2>6, <2>9, <3>1, <3>3
    <3> QED
      BY <2>4, <3>2, <3>3
  <2> QED
    BY <2>1, <2>2, <2>7, <2>8, <2>9 DEF Adds
<1> QED
  BY <1>4, <1>5

LEMMA ParamsAdded ==
  ASSUME NEW params, Len(params) \in Nat
  PROVE  Adds(params, Len(params), addParams(params))
<1> DEFINE m == Len(params)
           g == CHOOSE g : AddTurns(params, m, g)
           T == {n \in Nat : n <= m => Adds(params, n, g[n])}
<1>1. AddTurns(params, m, g)
  BY AddTurnsExist
<1>2. addParams(params) = g[m]
  BY DEF addParams, AddTurns, AddParam, TakesPlace, ParamField
<1> HIDE DEF g
<1>3. 0 \in T
  <2>1. g[0] = <<>>
    BY <1>1 DEF AddTurns
  <2>2. Adds(params, 0, <<>>)
    BY EmptySeq DEF Adds
  <2> QED
    BY <2>1, <2>2
<1>4. ASSUME NEW n \in Nat, n \in T PROVE n + 1 \in T
  <2> SUFFICES ASSUME n + 1 <= m PROVE Adds(params, n + 1, g[n + 1])
    OBVIOUS
  <2>1. n + 1 \in 1 .. m /\ n + 1 \in 0 .. m /\ (n + 1) - 1 = n /\ n + 1 # 0
    OBVIOUS
  <2>2. Adds(params, n, g[n])
    BY <1>4
  <2> HIDE DEF T
  <2>3. g[n + 1] = AddParam(g[n], params[n + 1])
    BY <1>1, <2>1 DEF AddTurns
  <2> QED
    BY <2>1, <2>2, <2>3, AddOne
<1>5. Nat \subseteq T
  <2> HIDE DEF T
  <2> QED
    BY <1>3, <1>4, Counting
<1>6. m \in T /\ m <= m
  BY <1>5
<1> QED
  BY <1>2, <1>6

-----------------------------------------------------------------------------
(* The fields of an operation whose names are distinct.                     *)

NamesIn(fields, place) == {fields[k].name : k \in {j \in DOMAIN fields : fields[j].in = place}}

TypeFits(op, f) == \E p \in Takes(op) : p.name = f.name /\ p.type = f.type

\* Those of the parameters, those of the body, and both.
ParamsFit(op, fields) ==
  /\ fields \in Seq(ToSet(fields))
  /\ \A k, l \in DOMAIN fields : fields[k].name = fields[l].name => k = l
  /\ \A place \in {"path", "query", "header"} : NamesIn(fields, place) = InPlace(op, place)
  /\ \A k \in DOMAIN fields :
       /\ fields[k].in \in {"path", "query", "header"}
       /\ fields[k].name \notin InBody(op)
       /\ fields[k].required => fields[k].name \in Required(op)
       /\ TypeFits(op, fields[k])
BodyFit(op, fields) ==
  /\ fields \in Seq(ToSet(fields))
  /\ \A k, l \in DOMAIN fields : fields[k].name = fields[l].name => k = l
  /\ {fields[k].name : k \in DOMAIN fields} = InBody(op)
  /\ \A k \in DOMAIN fields :
       /\ fields[k].in = "body"
       /\ fields[k].required => fields[k].name \in Required(op)
       /\ TypeFits(op, fields[k])
FieldsFit(op, fields) ==
  /\ fields \in Seq(ToSet(fields))
  /\ \A k, l \in DOMAIN fields : fields[k].name = fields[l].name => k = l
  /\ \A place \in {"path", "query", "header"} : NamesIn(fields, place) = InPlace(op, place)
  /\ NamesIn(fields, "body") = InBody(op)
  /\ \A k \in DOMAIN fields :
       /\ fields[k].in \in {"path", "query", "header", "body"}
       /\ fields[k].required => fields[k].name \in Required(op)
       /\ TypeFits(op, fields[k])
  /\ \A p \in Takes(op) : \E k \in DOMAIN fields : fields[k].name = p.name

LEMMA ParamsLong ==
  ASSUME NEW op, WellFormedOperation(op, t.components)
  PROVE  /\ Len(paramsOf(op, t.components)) \in Nat
         /\ DOMAIN paramsOf(op, t.components) = 1 .. Len(paramsOf(op, t.components))
<1> DEFINE S == ToSet(op.shared) \cup ToSet(op.params)
<1>1. op.shared \in Seq(S) /\ op.params \in Seq(S)
  BY SeqMonotonic DEF WellFormedOperation, IsSequence
<1>2. op.shared \o op.params \in Seq(S)
  BY <1>1, ConcatProperties
<1>3. PICK declared \in Seq(S) : declared = op.shared \o op.params
  BY <1>2
<1>4. DOMAIN declared = 1 .. Len(declared) /\ Len(declared) \in Nat
  BY LenProperties
<1>5. paramsOf(op, t.components) = [i \in 1 .. Len(declared) |-> Resolve(declared[i], t.components.parameters)]
  BY <1>3, <1>4 DEF paramsOf
<1> QED
  BY <1>4, <1>5

LEMMA AddedFit ==
  ASSUME NEW op, WellFormedOperation(op, t.components), NamesDistinct(op)
  PROVE  ParamsFit(op, addParams(paramsOf(op, t.components)))
<1> DEFINE params == paramsOf(op, t.components)
           fields == addParams(params)
           m == Len(params)
<1>1. m \in Nat /\ DOMAIN params = 1 .. m
  BY ParamsLong
<1>2. Adds(params, m, fields)
  BY <1>1, ParamsAdded
<1>3. Parameters(op) = {i \in 1 .. m : isSent(params[i])} /\ \A i : Param(op, i) = params[i]
  BY <1>1 DEF Parameters, Param
<1>4. \A i \in Parameters(op) : params[i].in \in {"path", "query", "header"}
  BY <1>1, <1>3 DEF WellFormedOperation
<1> HIDE DEF params, fields
<1>5. fields \in Seq(ParamFields(params)) /\ DOMAIN fields = 1 .. Len(fields) /\ Len(fields) \in Nat
  BY <1>2, LenProperties DEF Adds
<1>6. \A p : ParamField(p).in = p.in /\ ParamField(p).name = p.name /\ ParamField(p).type = p.type
               /\ (ParamField(p).required <=> p.required \/ p.in = "path")
  BY DEF ParamField, inputField
<1>7. \A k \in DOMAIN fields : \E i \in Parameters(op) :
        /\ fields[k].in = params[i].in /\ fields[k].name = params[i].name /\ fields[k].type = params[i].type
        /\ fields[k].required <=> params[i].required \/ params[i].in = "path"
  <2> SUFFICES ASSUME NEW k \in DOMAIN fields
               PROVE  \E i \in Parameters(op) :
                        /\ fields[k].in = params[i].in /\ fields[k].name = params[i].name /\ fields[k].type = params[i].type
                        /\ fields[k].required <=> params[i].required \/ params[i].in = "path"
    OBVIOUS
  <2>1. k \in 1 .. Len(fields)
    BY <1>5
  <2>2. PICK i \in 1 .. m : isSent(params[i]) /\ fields[k] = ParamField(params[i])
    BY <1>2, <2>1 DEF Adds
  <2>3. i \in Parameters(op)
    BY <1>3, <2>2
  <2>4. /\ fields[k].in = params[i].in /\ fields[k].name = params[i].name /\ fields[k].type = params[i].type
        /\ fields[k].required <=> params[i].required \/ params[i].in = "path"
    BY <1>6, <2>2
  <2> QED
    BY <2>3, <2>4
<1>8. \A i \in Parameters(op) : \E k \in DOMAIN fields : fields[k].in = params[i].in /\ fields[k].name = params[i].name
  BY <1>2, <1>3 DEF Adds, TakesPlace
<1>9. fields \in Seq(ToSet(fields))
  BY <1>5 DEF ToSet
<1>10. ASSUME NEW k \in DOMAIN fields, NEW l \in DOMAIN fields, fields[k].name = fields[l].name
       PROVE  k = l
  <2>1. PICK i \in Parameters(op) : fields[k].in = params[i].in /\ fields[k].name = params[i].name
    BY <1>7
  <2>2. PICK j \in Parameters(op) : fields[l].in = params[j].in /\ fields[l].name = params[j].name
    BY <1>7
  <2>3. i = j
    BY <1>3, <1>10, <2>1, <2>2 DEF NamesDistinct
  <2> QED
    BY <1>2, <1>5, <1>10, <2>1, <2>2, <2>3 DEF Adds
<1>11. ASSUME NEW place PROVE NamesIn(fields, place) = InPlace(op, place)
  <2>1. InPlace(op, place) = {params[i].name : i \in {j \in Parameters(op) : params[j].in = place}}
    BY <1>3 DEF InPlace
  <2>2. ASSUME NEW k \in DOMAIN fields, fields[k].in = place PROVE fields[k].name \in InPlace(op, place)
    BY <1>7, <2>1, <2>2
  <2>3. ASSUME NEW i \in Parameters(op), params[i].in = place PROVE params[i].name \in NamesIn(fields, place)
    BY <1>8, <2>3 DEF NamesIn
  <2> QED
    BY <2>1, <2>2, <2>3 DEF NamesIn
<1>12. ASSUME NEW k \in DOMAIN fields
       PROVE  /\ fields[k].in \in {"path", "query", "header"}
              /\ fields[k].name \notin InBody(op)
              /\ fields[k].required => fields[k].name \in Required(op)
              /\ TypeFits(op, fields[k])
  <2>1. PICK i \in Parameters(op) :
          /\ fields[k].in = params[i].in /\ fields[k].name = params[i].name /\ fields[k].type = params[i].type
          /\ fields[k].required <=> params[i].required \/ params[i].in = "path"
    BY <1>7
  <2>2. fields[k].name \notin InBody(op)
    BY <1>3, <2>1 DEF NamesDistinct
  <2>3. ASSUME fields[k].required PROVE fields[k].name \in Required(op)
    <3>1. i \in {j \in Parameters(op) : Param(op, j).required \/ Param(op, j).in = "path"}
      BY <1>3, <2>1, <2>3
    <3> QED
      BY <1>3, <2>1, <3>1 DEF Required
  <2>4. TypeFits(op, fields[k])
    <3>1. [name |-> Param(op, i).name, type |-> Param(op, i).type] \in Takes(op)
      BY DEF Takes
    <3> QED
      BY <1>3, <2>1, <3>1 DEF TypeFits
  <2> QED
    BY <1>4, <2>1, <2>2, <2>3, <2>4
<1> QED
  BY <1>9, <1>10, <1>11, <1>12 DEF ParamsFit, fields, params

LEMMA BodyFieldsFit ==
  ASSUME NEW op, WellFormedOperation(op, t.components)
  PROVE  BodyFit(op, bodyFields(bodyOf(op, t.components)))
<1> DEFINE body == bodyOf(op, t.components)
           fields == bodyFields(body)
           inBody(name, type) == inputField(name, "body", Contains(body.required, name), type)
           prop(name, type) == [name |-> name, type |-> type]
<1>1. /\ body.props \in Seq(ToSet(body.props)) /\ body.required \in Seq(ToSet(body.required))
      /\ \A i, j \in DOMAIN body.props : body.props[i].name = body.props[j].name => i = j
  BY DEF WellFormedOperation, IsSequence
<1>2. DOMAIN body.props = 1 .. Len(body.props) /\ Len(body.props) \in Nat /\ DOMAIN body.required = 1 .. Len(body.required)
  BY <1>1, LenProperties
<1>3. BodyProps(op) = CASE body.json = "object" -> {prop(p.name, p.type) : p \in ToSet(body.props)}
                        [] body.json = "value" -> {prop("body", body.type)}
                        [] OTHER -> {}
  BY DEF BodyProps, Body
<1>4. \A name, type : /\ inBody(name, type).name = name /\ inBody(name, type).type = type
                      /\ inBody(name, type).in = "body"
                      /\ inBody(name, type).required => name \in ToSet(body.required)
  <2>1. \A name : Contains(body.required, name) => name \in ToSet(body.required)
    BY <1>2 DEF Contains, ToSet
  <2> QED
    BY <2>1 DEF inputField
<1>5. fields = CASE body.json = "object" -> [i \in DOMAIN body.props |-> inBody(body.props[i].name, body.props[i].type)]
                 [] body.json = "value" -> <<inBody("body", body.type)>>
                 [] OTHER -> <<>>
  BY DEF bodyFields
<1>6. \A name, type : prop(name, type).name = name /\ prop(name, type).type = type
  OBVIOUS
<1>7. Required(op) = {Param(op, i).name : i \in {j \in Parameters(op) : Param(op, j).required \/ Param(op, j).in = "path"}}
                     \cup (ToSet(body.required) \cap InBody(op))
  BY DEF Required, Body
<1> HIDE DEF body, fields, inBody, prop
<1>8. ASSUME NEW f, NEW name, NEW type, f = inBody(name, type), prop(name, type) \in BodyProps(op)
      PROVE  f.in = "body" /\ (f.required => f.name \in Required(op)) /\ TypeFits(op, f)
  <2>1. prop(name, type) \in Takes(op)
    BY <1>8 DEF Takes
  <2>2. name \in InBody(op)
    BY <1>6, <1>8 DEF InBody
  <2>3. TypeFits(op, f)
    BY <1>4, <1>6, <1>8, <2>1 DEF TypeFits
  <2> QED
    BY <1>4, <1>7, <1>8, <2>2, <2>3
<1>9. CASE body.json = "object"
  <2>1. fields = [i \in 1 .. Len(body.props) |-> inBody(body.props[i].name, body.props[i].type)]
    BY <1>2, <1>5, <1>9
  <2>2. DOMAIN fields = 1 .. Len(body.props)
        /\ \A i \in DOMAIN fields : fields[i] = inBody(body.props[i].name, body.props[i].type)
    BY <2>1
  <2>3. fields \in Seq(ToSet(fields))
    BY <1>2, <2>1, <2>2 DEF ToSet
  <2>4. \A i \in DOMAIN fields : prop(body.props[i].name, body.props[i].type) \in BodyProps(op)
    BY <1>2, <1>3, <1>9, <2>2 DEF ToSet
  <2>5. {fields[k].name : k \in DOMAIN fields} = InBody(op)
    <3>1. \A k \in DOMAIN fields : fields[k].name \in InBody(op)
      BY <1>4, <1>6, <2>2, <2>4 DEF InBody
    <3>2. ASSUME NEW q \in BodyProps(op) PROVE q.name \in {fields[k].name : k \in DOMAIN fields}
      <4>1. PICK i \in DOMAIN body.props : q = prop(body.props[i].name, body.props[i].type)
        BY <1>3, <1>9, <3>2 DEF ToSet
      <4> QED
        BY <1>2, <1>4, <1>6, <2>2, <4>1
    <3> QED
      BY <3>1, <3>2 DEF InBody
  <2>6. \A k, l \in DOMAIN fields : fields[k].name = fields[l].name => k = l
    BY <1>1, <1>2, <1>4, <2>2
  <2>7. \A k \in DOMAIN fields : /\ fields[k].in = "body" /\ TypeFits(op, fields[k])
                                 /\ fields[k].required => fields[k].name \in Required(op)
    BY <1>8, <2>2, <2>4
  <2> QED
    BY <2>3, <2>5, <2>6, <2>7 DEF BodyFit, fields, body
<1>10. CASE body.json = "value"
  <2>1. fields = <<inBody("body", body.type)>>
    BY <1>5, <1>10
  <2>2. DOMAIN fields = {1} /\ fields[1] = inBody("body", body.type) /\ ToSet(fields) = {inBody("body", body.type)}
    BY <2>1 DEF ToSet
  <2>3. fields \in Seq(ToSet(fields))
    BY <2>1, <2>2
  <2>4. BodyProps(op) = {prop("body", body.type)}
    BY <1>3, <1>10
  <2>5. {fields[k].name : k \in DOMAIN fields} = InBody(op)
    BY <1>4, <1>6, <2>2, <2>4 DEF InBody
  <2>6. /\ fields[1].in = "body" /\ TypeFits(op, fields[1])
        /\ fields[1].required => fields[1].name \in Required(op)
    BY <1>8, <2>2, <2>4
  <2> QED
    BY <2>2, <2>3, <2>5, <2>6 DEF BodyFit, fields, body
<1>11. CASE body.json \notin {"object", "value"}
  <2>1. fields = <<>> /\ InBody(op) = {}
    BY <1>3, <1>5, <1>11 DEF InBody
  <2>2. DOMAIN fields = {} /\ fields \in Seq(ToSet(fields))
    BY <2>1
  <2> QED
    BY <2>1, <2>2 DEF BodyFit, fields, body
<1> QED
  BY <1>9, <1>10, <1>11

\* What an operation takes has the types of values, and a name has one of them.
LEMMA TakesOnce ==
  ASSUME NEW op, WellFormedOperation(op, t.components), NamesDistinct(op)
  PROVE  /\ \A p \in Takes(op) : p.type \in ToSet(GoTypes)
         /\ \A p, q \in Takes(op) : p.name = q.name => p.type = q.type
<1> DEFINE params == paramsOf(op, t.components)
           body == bodyOf(op, t.components)
           own == {[name |-> Param(op, i).name, type |-> Param(op, i).type] : i \in Parameters(op)}
<1>1. \A i \in Parameters(op) : Param(op, i).type \in ToSet(GoTypes)
  BY DEF Parameters, Param, WellFormedOperation
<1>2. ASSUME NEW p \in own
      PROVE  \E i \in Parameters(op) : p.name = Param(op, i).name /\ p.type = Param(op, i).type
  <2>1. PICK i \in Parameters(op) : p = [name |-> Param(op, i).name, type |-> Param(op, i).type]
    OBVIOUS
  <2> QED
    BY <2>1
<1>3. /\ \A p \in own : p.type \in ToSet(GoTypes) /\ p.name \notin InBody(op)
      /\ \A p, q \in own : p.name = q.name => p.type = q.type
  <2> HIDE DEF own
  <2> QED
    BY <1>1, <1>2 DEF NamesDistinct
<1>4. /\ \A i, j \in DOMAIN body.props : body.props[i].name = body.props[j].name => i = j
      /\ \A i \in DOMAIN body.props : body.props[i].type \in ToSet(GoTypes)
      /\ body.json = "value" => body.type \in ToSet(GoTypes)
  BY DEF WellFormedOperation
<1>5. \A p \in BodyProps(op) : p.name \in InBody(op)
  BY DEF InBody
<1>6. /\ \A p \in BodyProps(op) : p.type \in ToSet(GoTypes)
      /\ \A p, q \in BodyProps(op) : p.name = q.name => p.type = q.type
  <2>1. BodyProps(op) = CASE body.json = "object" -> {[name |-> p.name, type |-> p.type] : p \in ToSet(body.props)}
                          [] body.json = "value" -> {[name |-> "body", type |-> body.type]}
                          [] OTHER -> {}
    BY DEF BodyProps, Body
  <2> HIDE DEF body
  <2>2. CASE body.json = "object"
    BY <1>4, <2>1, <2>2 DEF ToSet
  <2>3. CASE body.json # "object"
    BY <1>4, <2>1, <2>3
  <2> QED
    BY <2>2, <2>3
<1> HIDE DEF own
<1>7. Takes(op) = BodyProps(op) \cup own
  BY DEF Takes, own
<1> QED
  BY <1>3, <1>5, <1>6, <1>7

LEMMA RouteFits ==
  ASSUME NEW op, WellFormedOperation(op, t.components), NamesDistinct(op)
  PROVE  FieldsFit(op, buildRoute(op, t.components).fields)
<1>1. PICK p : p = addParams(paramsOf(op, t.components)) /\ ParamsFit(op, p)
  BY AddedFit
<1>2. PICK b : b = bodyFields(bodyOf(op, t.components)) /\ BodyFit(op, b)
  BY BodyFieldsFit
<1> DEFINE S == ToSet(p) \cup ToSet(b)
           fields == p \o b
           m == Len(p)
           n == Len(b)
<1>3. buildRoute(op, t.components).fields = fields
  BY <1>1, <1>2 DEF buildRoute
<1>4. p \in Seq(S) /\ b \in Seq(S)
  BY <1>1, <1>2, SeqMonotonic DEF ParamsFit, BodyFit
<1>5. m \in Nat /\ n \in Nat /\ DOMAIN p = 1 .. m /\ DOMAIN b = 1 .. n
  BY <1>4, LenProperties
<1>6. /\ fields \in Seq(S) /\ DOMAIN fields = 1 .. (m + n)
      /\ \A k \in 1 .. (m + n) : fields[k] = IF k <= m THEN p[k] ELSE b[k - m]
  BY <1>4, ConcatProperties, LenProperties
<1> HIDE DEF fields, S
<1>7. \A k \in 1 .. m : k \in DOMAIN fields /\ fields[k] = p[k]
  BY <1>5, <1>6
<1>8. \A k \in 1 .. n : m + k \in DOMAIN fields /\ fields[m + k] = b[k]
  <2> SUFFICES ASSUME NEW k \in 1 .. n PROVE m + k \in DOMAIN fields /\ fields[m + k] = b[k]
    OBVIOUS
  <2>1. m + k \in 1 .. (m + n) /\ ~(m + k <= m) /\ (m + k) - m = k
    BY <1>5
  <2> QED
    BY <1>6, <2>1
<1>9. \A k \in DOMAIN fields : k \in 1 .. m \/ \E l \in 1 .. n : k = m + l
  <2> SUFFICES ASSUME NEW k \in 1 .. (m + n), k \notin 1 .. m PROVE \E l \in 1 .. n : k = m + l
    BY <1>6
  <2>1. k - m \in 1 .. n /\ k = m + (k - m)
    BY <1>5
  <2> QED
    BY <2>1
<1>10. fields \in Seq(ToSet(fields))
  BY <1>6 DEF ToSet
<1>11. ASSUME NEW k \in DOMAIN fields, NEW l \in DOMAIN fields, fields[k].name = fields[l].name
       PROVE  k = l
  <2>1. \A i \in 1 .. n : b[i].name \in InBody(op)
    BY <1>2, <1>5 DEF BodyFit
  <2>2. \A i \in 1 .. m : p[i].name \notin InBody(op)
    BY <1>1, <1>5 DEF ParamsFit
  <2>3. CASE k \in 1 .. m /\ l \in 1 .. m
    BY <1>1, <1>5, <1>7, <1>11, <2>3 DEF ParamsFit
  <2>4. CASE k \notin 1 .. m /\ l \notin 1 .. m
    <3>1. PICK i \in 1 .. n, j \in 1 .. n : k = m + i /\ l = m + j
      BY <1>9, <2>4
    <3>2. b[i].name = b[j].name
      BY <1>8, <1>11, <3>1
    <3> QED
      BY <1>2, <1>5, <3>1, <3>2 DEF BodyFit
  <2>5. CASE k \in 1 .. m /\ l \notin 1 .. m
    <3>1. PICK j \in 1 .. n : l = m + j
      BY <1>9, <2>5
    <3> QED
      BY <1>7, <1>8, <1>11, <2>1, <2>2, <2>5, <3>1
  <2>6. CASE k \notin 1 .. m /\ l \in 1 .. m
    <3>1. PICK i \in 1 .. n : k = m + i
      BY <1>9, <2>6
    <3> QED
      BY <1>7, <1>8, <1>11, <2>1, <2>2, <2>6, <3>1
  <2> QED
    BY <2>3, <2>4, <2>5, <2>6
<1>12. ASSUME NEW place \in {"path", "query", "header"} PROVE NamesIn(fields, place) = NamesIn(p, place)
  <2>1. \A k \in 1 .. n : b[k].in # place
    BY <1>2, <1>5 DEF BodyFit
  <2>2. ASSUME NEW k \in DOMAIN fields, fields[k].in = place PROVE fields[k].name \in NamesIn(p, place)
    <3>1. k \in 1 .. m
      BY <1>8, <1>9, <2>1, <2>2
    <3> QED
      BY <1>5, <1>7, <2>2, <3>1 DEF NamesIn
  <2>3. ASSUME NEW k \in DOMAIN p, p[k].in = place PROVE p[k].name \in NamesIn(fields, place)
    BY <1>5, <1>7, <2>3 DEF NamesIn
  <2> QED
    BY <2>2, <2>3 DEF NamesIn
<1>13. NamesIn(fields, "body") = {b[k].name : k \in DOMAIN b}
  <2>1. \A k \in 1 .. m : p[k].in # "body"
    BY <1>1, <1>5 DEF ParamsFit
  <2>2. ASSUME NEW k \in DOMAIN fields, fields[k].in = "body" PROVE fields[k].name \in {b[l].name : l \in DOMAIN b}
    <3>1. PICK l \in 1 .. n : k = m + l
      BY <1>7, <1>9, <2>1, <2>2
    <3> QED
      BY <1>5, <1>8, <3>1
  <2>3. ASSUME NEW k \in DOMAIN b PROVE b[k].name \in NamesIn(fields, "body")
    <3>1. b[k].in = "body"
      BY <1>2 DEF BodyFit
    <3> QED
      BY <1>5, <1>8, <3>1 DEF NamesIn
  <2> QED
    BY <2>2, <2>3 DEF NamesIn
<1>14. ASSUME NEW k \in DOMAIN fields
       PROVE  /\ fields[k].in \in {"path", "query", "header", "body"}
              /\ fields[k].required => fields[k].name \in Required(op)
              /\ TypeFits(op, fields[k])
  <2>1. CASE k \in 1 .. m
    BY <1>1, <1>5, <1>7, <2>1 DEF ParamsFit
  <2>2. CASE k \notin 1 .. m
    <3>1. PICK l \in 1 .. n : k = m + l
      BY <1>9, <2>2
    <3> QED
      BY <1>2, <1>5, <1>8, <3>1 DEF BodyFit
  <2> QED
    BY <2>1, <2>2
<1>15. /\ \A place \in {"path", "query", "header"} : NamesIn(fields, place) = InPlace(op, place)
       /\ NamesIn(fields, "body") = InBody(op)
  BY <1>1, <1>2, <1>12, <1>13 DEF ParamsFit, BodyFit
<1>16. ASSUME NEW q \in Takes(op) PROVE \E k \in DOMAIN fields : fields[k].name = q.name
  <2>1. CASE q \in BodyProps(op)
    <3>1. q.name \in NamesIn(fields, "body")
      BY <1>15, <2>1 DEF InBody
    <3> QED
      BY <3>1 DEF NamesIn
  <2>2. CASE q \notin BodyProps(op)
    <3>1. PICK i \in Parameters(op) : q.name = Param(op, i).name
      BY <2>2 DEF Takes
    <3>2. Param(op, i).in \in {"path", "query", "header"}
      BY DEF Parameters, Param, WellFormedOperation
    <3>3. q.name \in NamesIn(fields, Param(op, i).in)
      BY <1>15, <3>1, <3>2 DEF InPlace
    <3> QED
      BY <3>3 DEF NamesIn
  <2> QED
    BY <2>1, <2>2
<1>17. FieldsFit(op, fields)
  BY <1>10, <1>11, <1>14, <1>15, <1>16 DEF FieldsFit
<1> QED
  BY <1>3, <1>17

-----------------------------------------------------------------------------
(* Values and their types.                                                  *)

\* A value on its way through the struct, and as its schema has it coming.
Passed(side, T, v, known) == IF side = "struct" THEN Recoded(T, v, known) ELSE Coming(T, v, known)
FirstTypes(n) == {GoTypes[m] : m \in 1 .. n}
PassedTo(side, n, g) == g = [T \in FirstTypes(n) |-> [v \in Json |-> Passed(side, T, v, g)]]

LEMMA TypesListed ==
  /\ Len(GoTypes) \in Nat /\ DOMAIN GoTypes = 1 .. Len(GoTypes)
  /\ ToSet(GoTypes) = FirstTypes(Len(GoTypes))
  /\ \A n \in 1 .. Len(GoTypes) : PartTypes(GoTypes[n]) \subseteq FirstTypes(n - 1)
<1>1. Len(GoTypes) \in Nat /\ DOMAIN GoTypes = 1 .. Len(GoTypes)
  BY GoTypesAssumption, LenProperties
<1> QED
  BY <1>1, GoTypesAssumption DEF ToSet, FirstTypes

\* The field a name stands for is one of the struct's.
LEMMA FieldIsNamed ==
  ASSUME NEW fields, NEW name, name \in DOMAIN NamedFields(fields)
  PROVE  \E i \in DOMAIN fields : NamedFields(fields)[name] = fields[i] /\ fields[i].name = name
<1> DEFINE alone(f) == \A j, k \in DOMAIN fields : fields[j].name = f.name /\ fields[k].name = f.name => j = k
           kept == {i \in DOMAIN fields : fields[i].name # "-" /\ alone(fields[i])}
           c == CHOOSE i \in kept : fields[i].name = name
<1>1. NamedFields(fields) = [x \in {fields[i].name : i \in kept} |-> fields[CHOOSE i \in kept : fields[i].name = x]]
  BY DEF NamedFields
<1>2. kept \subseteq DOMAIN fields
  OBVIOUS
<1> HIDE DEF kept
<1>3. PICK i \in kept : fields[i].name = name
  BY <1>1
<1>4. c \in kept /\ fields[c].name = name
  BY <1>3
<1>5. NamedFields(fields)[name] = fields[c]
  BY <1>1, <1>3
<1> QED
  BY <1>2, <1>4, <1>5

\* What is sent of a struct depends on its fields' types alone.
LEMMA EncodedAgrees ==
  ASSUME NEW T, T.kind = "struct", NEW given, NEW f, NEW g, \A P \in PartTypes(T) : f[P] = g[P]
  PROVE  Encoded(T.fields, given, f) = Encoded(T.fields, given, g)
<1> DEFINE named == NamedFields(T.fields)
           x(name) == IF name \in DOMAIN given THEN given[name] ELSE Null
           sent(name, known) ==
             IF named[name].optional /\ x(name) = Null THEN Null ELSE known[named[name].type][x(name)]
<1>1. ASSUME NEW name \in DOMAIN named PROVE named[name].type \in PartTypes(T)
  <2>1. PICK i \in DOMAIN T.fields : named[name] = T.fields[i]
    BY FieldIsNamed
  <2> QED
    BY <2>1 DEF PartTypes
<1>2. \A name \in DOMAIN named : sent(name, f) = sent(name, g)
  BY <1>1
<1>3. \A h : Encoded(T.fields, given, h) = [name \in DOMAIN named |-> sent(name, h)]
  BY DEF Encoded
<1> HIDE DEF named, sent
<1> QED
  BY <1>2, <1>3

LEMMA RecodedAgrees ==
  ASSUME NEW T, NEW v, NEW f, NEW g, \A P \in PartTypes(T) : f[P] = g[P]
  PROVE  Recoded(T, v, f) = Recoded(T, v, g)
<1> DEFINE given == IF v = Null THEN <<>> ELSE v.m
           elems(h) == [i \in DOMAIN v.q |-> h[T.elem][v.q[i]]]
<1>1. ASSUME T.kind = "struct" PROVE Recoded(T, v, f) = Recoded(T, v, g)
  <2>1. Encoded(T.fields, given, f) = Encoded(T.fields, given, g)
    BY <1>1, EncodedAgrees
  <2>2. PICK fields : fields = Encoded(T.fields, given, f) /\ fields = Encoded(T.fields, given, g)
    BY <2>1
  <2> DEFINE sent == IF v = Null \/ v.kind = "map" THEN UnlessWrong(fields, Map(fields)) ELSE Wrong
  <2>3. ASSUME NEW h, Encoded(T.fields, given, h) = fields PROVE Recoded(T, v, h) = sent
    BY <1>1, <2>3 DEF Recoded, FitsType
  <2> HIDE DEF sent, given
  <2>4. Recoded(T, v, f) = sent
    BY <2>2, <2>3
  <2>5. Recoded(T, v, g) = sent
    BY <2>2, <2>3
  <2> QED
    BY <2>4, <2>5
<1>2. ASSUME T.kind = "slice" PROVE Recoded(T, v, f) = Recoded(T, v, g)
  <2>1. f[T.elem] = g[T.elem]
    BY <1>2 DEF PartTypes
  <2>2. elems(f) = elems(g)
    BY <2>1
  <2>3. PICK list : list = elems(f) /\ list = elems(g)
    BY <2>2
  <2> HIDE DEF elems
  <2> DEFINE sent == IF v.kind = "list" THEN UnlessWrong(list, List(list)) ELSE IF v = Null THEN Zero(T) ELSE Wrong
  <2>4. ASSUME NEW h, elems(h) = list PROVE Recoded(T, v, h) = sent
    BY <1>2, <2>4 DEF Recoded, FitsType, elems, Null
  <2> HIDE DEF sent
  <2>5. Recoded(T, v, f) = sent
    BY <2>3, <2>4
  <2>6. Recoded(T, v, g) = sent
    BY <2>3, <2>4
  <2> QED
    BY <2>5, <2>6
<1>3. ASSUME T.kind \notin {"struct", "slice"} PROVE Recoded(T, v, f) = Recoded(T, v, g)
  BY <1>3 DEF Recoded
<1> QED
  BY <1>1, <1>2, <1>3

LEMMA ComingAgrees ==
  ASSUME NEW T, NEW v, NEW f, NEW g, \A P \in PartTypes(T) : f[P] = g[P]
  PROVE  Coming(T, v, f) = Coming(T, v, g)
<1> DEFINE named == NamedFields(T.fields)
           at(d, h) == IF d.name \in DOMAIN v.m THEN h[d.type][v.m[d.name]] ELSE IF d.optional THEN Null ELSE Wrong
           props(h) == [name \in DOMAIN named |-> at(named[name], h)]
           elems(h) == [i \in DOMAIN v.q |-> h[T.elem][v.q[i]]]
<1>1. ASSUME T.kind = "struct" PROVE Coming(T, v, f) = Coming(T, v, g)
  <2>1. ASSUME NEW name \in DOMAIN named PROVE named[name].type \in PartTypes(T)
    <3>1. PICK i \in DOMAIN T.fields : named[name] = T.fields[i]
      BY FieldIsNamed
    <3> QED
      BY <1>1, <3>1 DEF PartTypes
  <2>2. \A name \in DOMAIN named : at(named[name], f) = at(named[name], g)
    BY <2>1
  <2> HIDE DEF named, at
  <2>3. PICK p : p = props(f) /\ p = props(g)
    BY <2>2
  <2> HIDE DEF props
  <2> DEFINE come == IF v.kind = "map" THEN UnlessWrong(p, Map(p)) ELSE Wrong
  <2>4. ASSUME NEW h, props(h) = p PROVE Coming(T, v, h) = come
    BY <1>1, <2>4 DEF Coming, FitsType, props, at, named
  <2> HIDE DEF come
  <2>5. Coming(T, v, f) = come
    BY <2>3, <2>4
  <2>6. Coming(T, v, g) = come
    BY <2>3, <2>4
  <2> QED
    BY <2>5, <2>6
<1>2. ASSUME T.kind = "slice" PROVE Coming(T, v, f) = Coming(T, v, g)
  <2>1. f[T.elem] = g[T.elem]
    BY <1>2 DEF PartTypes
  <2>2. PICK list : list = elems(f) /\ list = elems(g)
    BY <2>1
  <2> HIDE DEF elems
  <2> DEFINE come == IF v.kind = "list" THEN UnlessWrong(list, List(list)) ELSE Wrong
  <2>3. ASSUME NEW h, elems(h) = list PROVE Coming(T, v, h) = come
    BY <1>2, <2>3 DEF Coming, FitsType, elems
  <2> HIDE DEF come
  <2>4. Coming(T, v, f) = come
    BY <2>2, <2>3
  <2>5. Coming(T, v, g) = come
    BY <2>2, <2>3
  <2> QED
    BY <2>4, <2>5
<1>3. ASSUME T.kind \notin {"struct", "slice"} PROVE Coming(T, v, f) = Coming(T, v, g)
  BY <1>3 DEF Coming
<1> QED
  BY <1>1, <1>2, <1>3

LEMMA PassedExist ==
  ASSUME NEW side
  PROVE  \E g : PassedTo(side, Len(GoTypes), g)
<1> DEFINE m == Len(GoTypes)
           T == {n \in Nat : n <= m => \E g : PassedTo(side, n, g)}
<1>1. m \in Nat
  BY TypesListed
<1>2. 0 \in T
  <2>1. FirstTypes(0) = {}
    BY DEF FirstTypes
  <2> DEFINE g == [S \in {} |-> {}]
  <2>2. g = [S \in {} |-> [v \in Json |-> Passed(side, S, v, g)]]
    OBVIOUS
  <2> HIDE DEF g
  <2>3. PassedTo(side, 0, g)
    BY <2>1, <2>2 DEF PassedTo
  <2> QED
    BY <2>3
<1>3. ASSUME NEW n \in Nat, n \in T PROVE n + 1 \in T
  <2> SUFFICES ASSUME n + 1 <= m PROVE \E g : PassedTo(side, n + 1, g)
    OBVIOUS
  <2>1. n <= m /\ n + 1 \in 1 .. m
    BY <1>1
  <2>2. PICK f : PassedTo(side, n, f)
    BY <1>3, <2>1
  <2> HIDE DEF T
  <2> DEFINE A == FirstTypes(n)
             new == GoTypes[n + 1]
             value(S) == [v \in Json |-> Passed(side, S, v, f)]
             g == [S \in A \cup {new} |-> value(S)]
  <2>3. FirstTypes(n + 1) = A \cup {new}
    BY DEF FirstTypes
  <2>4. f = [S \in A |-> value(S)]
    BY <2>2 DEF PassedTo
  <2>5. \A S \in A : g[S] = f[S]
    <3> HIDE DEF value
    <3> QED
      BY <2>4
  <2>6. ASSUME NEW S \in A \cup {new} PROVE \A P \in PartTypes(S) : f[P] = g[P]
    <3>1. PICK i \in 1 .. (n + 1) : S = GoTypes[i]
      BY <2>3 DEF FirstTypes
    <3>2. i \in 1 .. m /\ \A k \in 1 .. (i - 1) : k \in 1 .. n
      BY <1>1, <2>1
    <3>3. FirstTypes(i - 1) \subseteq A
      BY <3>2 DEF FirstTypes
    <3>4. PartTypes(S) \subseteq A
      BY <3>1, <3>2, <3>3, TypesListed
    <3> HIDE DEF A, g
    <3> QED
      BY <2>5, <3>4
  <2>7. ASSUME NEW S \in A \cup {new} PROVE value(S) = [v \in Json |-> Passed(side, S, v, g)]
    <3> HIDE DEF A, g
    <3>1. \A P \in PartTypes(S) : f[P] = g[P]
      BY <2>6
    <3>2. ASSUME NEW v \in Json PROVE Passed(side, S, v, f) = Passed(side, S, v, g)
      BY <3>1, RecodedAgrees, ComingAgrees DEF Passed
    <3> QED
      BY <3>2
  <2>8. g = [S \in A \cup {new} |-> value(S)]
    OBVIOUS
  <2> HIDE DEF g, value
  <2>9. g = [S \in A \cup {new} |-> [v \in Json |-> Passed(side, S, v, g)]]
    BY <2>7, <2>8
  <2>10. PassedTo(side, n + 1, g)
    BY <2>3, <2>9 DEF PassedTo
  <2> QED
    BY <2>10
<1>4. Nat \subseteq T
  <2> HIDE DEF T
  <2> QED
    BY <1>2, <1>3, Counting
<1> QED
  BY <1>1, <1>4

LEMMA RecodeIs == recode = [T \in ToSet(GoTypes) |-> [v \in Json |-> Recoded(T, v, recode)]]
<1> DEFINE Good(g) == g = [T \in ToSet(GoTypes) |-> [v \in Json |-> Recoded(T, v, g)]]
<1>1. PICK g : PassedTo("struct", Len(GoTypes), g)
  BY PassedExist
<1>2. Good(g)
  BY <1>1, TypesListed DEF PassedTo, Passed
<1>3. recode = CHOOSE h : Good(h)
  BY DEF recode
<1> HIDE DEF Good
<1>4. Good(recode)
  BY <1>2, <1>3
<1> QED
  BY <1>4 DEF Good

LEMMA ArrivingIs == arriving = [T \in ToSet(GoTypes) |-> [v \in Json |-> Coming(T, v, arriving)]]
<1> DEFINE Good(g) == g = [T \in ToSet(GoTypes) |-> [v \in Json |-> Coming(T, v, g)]]
<1>1. PICK g : PassedTo("schema", Len(GoTypes), g)
  BY PassedExist
<1>2. Good(g)
  BY <1>1, TypesListed DEF PassedTo, Passed
<1>3. arriving = CHOOSE h : Good(h)
  BY DEF arriving
<1> HIDE DEF Good
<1>4. Good(arriving)
  BY <1>2, <1>3
<1> QED
  BY <1>4 DEF Good

\* What comes of a value is null if the value is, and of no other.
LEMMA NullComes ==
  ASSUME NEW T, NEW v, NEW g, Coming(T, v, g) # Wrong
  PROVE  Coming(T, v, g) = Null <=> v = Null
<1>1. \A x : Map(x) # Null /\ List(x) # Null /\ UnlessWrong(x, Map(x)) \in {Wrong, Map(x)}
             /\ UnlessWrong(x, List(x)) \in {Wrong, List(x)}
  BY DEF Map, List, Null, UnlessWrong
<1>2. Null.kind = "null"
  BY DEF Null
<1> DEFINE named == NamedFields(T.fields)
           at(f) == IF f.name \in DOMAIN v.m THEN g[f.type][v.m[f.name]] ELSE IF f.optional THEN Null ELSE Wrong
           props == [name \in DOMAIN named |-> at(named[name])]
           elems == [i \in DOMAIN v.q |-> g[T.elem][v.q[i]]]
<1>3. Coming(T, v, g) = CASE T.kind = "struct" /\ v.kind = "map" -> UnlessWrong(props, Map(props))
                          [] T.kind = "slice" /\ v.kind = "list" -> UnlessWrong(elems, List(elems))
                          [] FitsType(T, v) -> v
                          [] OTHER -> Wrong
  BY DEF Coming
<1> HIDE DEF props, elems
<1> QED
  BY <1>1, <1>2, <1>3 DEF FitsType

\* What comes of a value whose type's schema accepts it is what is sent.
LEMMA ComingRecoded ==
  ASSUME NEW T, NEW v \in Json, NEW f, NEW g, Coming(T, v, g) # Wrong,
         \A P \in PartTypes(T) : \A w \in Json : g[P][w] # Wrong => f[P][w] = g[P][w],
         \A P \in PartTypes(T) : g[P][Null] \in {Wrong, Null}
  PROVE  Recoded(T, v, f) = Coming(T, v, g)
<1> DEFINE named == NamedFields(T.fields)
           at(d) == IF d.name \in DOMAIN v.m THEN g[d.type][v.m[d.name]] ELSE IF d.optional THEN Null ELSE Wrong
           props == [name \in DOMAIN named |-> at(named[name])]
           elems == [i \in DOMAIN v.q |-> g[T.elem][v.q[i]]]
           given == IF v = Null THEN <<>> ELSE v.m
           fields == Encoded(T.fields, given, f)
           resent == [i \in DOMAIN v.q |-> f[T.elem][v.q[i]]]
<1>1. Coming(T, v, g) = CASE T.kind = "struct" /\ v.kind = "map" -> UnlessWrong(props, Map(props))
                          [] T.kind = "slice" /\ v.kind = "list" -> UnlessWrong(elems, List(elems))
                          [] FitsType(T, v) -> v
                          [] OTHER -> Wrong
  BY DEF Coming
<1>2. Recoded(T, v, f) = CASE T.kind = "struct" /\ (v = Null \/ v.kind = "map") -> UnlessWrong(fields, Map(fields))
                           [] T.kind = "slice" /\ v.kind = "list" -> UnlessWrong(resent, List(resent))
                           [] T.kind # "struct" /\ v = Null -> Zero(T)
                           [] v # Null /\ FitsType(T, v) -> v
                           [] OTHER -> Wrong
  BY DEF Recoded
<1>3. Null.kind = "null"
  BY DEF Null
<1>4. CASE T.kind = "struct" /\ v.kind = "map"
  <2>1. Coming(T, v, g) = UnlessWrong(props, Map(props)) /\ Recoded(T, v, f) = UnlessWrong(fields, Map(fields))
    <3> HIDE DEF props, elems, fields, resent
    <3> QED
      BY <1>1, <1>2, <1>3, <1>4 DEF FitsType
  <2>2. ASSUME NEW name \in DOMAIN named PROVE props[name] # Wrong
    <3>1. props[name] \in Range(props)
      BY DEF Range
    <3> HIDE DEF props
    <3> QED
      BY <2>1, <3>1 DEF UnlessWrong
  <2>3. given = v.m /\ Range(v.m) \subseteq Json
    BY <1>3, <1>4, JsonAssumption
  <2>4. ASSUME NEW name \in DOMAIN named PROVE fields[name] = props[name]
    <3>1. PICK i \in DOMAIN T.fields : named[name] = T.fields[i] /\ T.fields[i].name = name
      BY FieldIsNamed
    <3>2. PICK d : d = named[name]
      OBVIOUS
    <3>3. d.name = name /\ d.type \in PartTypes(T)
      BY <1>4, <3>1, <3>2 DEF PartTypes
    <3>4. props[name] = at(d)
      BY <3>2
    <3>5. fields[name] = LET x == IF name \in DOMAIN given THEN given[name] ELSE Null
                         IN IF d.optional /\ x = Null THEN Null ELSE f[d.type][x]
      BY <3>2 DEF Encoded
    <3> HIDE DEF fields, given, named
    <3>6. at(d) # Wrong
      BY <2>2, <3>4
    <3>7. CASE name \in DOMAIN v.m
      <4>1. PICK w : w = v.m[name]
        OBVIOUS
      <4>2. w \in Json
        BY <2>3, <3>7, <4>1 DEF Range
      <4>3. at(d) = g[d.type][w]
        BY <3>3, <3>7, <4>1
      <4>4. f[d.type][w] = g[d.type][w]
        BY <3>3, <3>6, <4>2, <4>3
      <4>5. w = Null => g[d.type][w] = Null
        BY <3>3, <3>6, <4>3
      <4> HIDE DEF at, props
      <4> QED
        BY <2>3, <3>4, <3>5, <3>7, <4>1, <4>3, <4>4, <4>5
    <3>8. CASE name \notin DOMAIN v.m
      <4>1. d.optional /\ at(d) = Null
        BY <3>3, <3>6, <3>8
      <4> HIDE DEF at, props
      <4> QED
        BY <2>3, <3>4, <3>5, <3>8, <4>1
    <3> QED
      BY <3>7, <3>8
  <2>5. fields = [name \in DOMAIN named |-> fields[name]]
    BY DEF Encoded
  <2>6. fields = props
    <3>1. props = [name \in DOMAIN named |-> props[name]]
      OBVIOUS
    <3> HIDE DEF fields, props, named
    <3> QED
      BY <2>4, <2>5, <3>1
  <2> HIDE DEF fields, props
  <2> QED
    BY <2>1, <2>6
<1>5. CASE T.kind = "slice" /\ v.kind = "list"
  <2>1. Coming(T, v, g) = UnlessWrong(elems, List(elems)) /\ Recoded(T, v, f) = UnlessWrong(resent, List(resent))
    <3> HIDE DEF props, elems, fields, resent
    <3> QED
      BY <1>1, <1>2, <1>3, <1>5 DEF FitsType
  <2>2. T.elem \in PartTypes(T)
    BY <1>5 DEF PartTypes
  <2>3. ASSUME NEW i \in DOMAIN v.q PROVE resent[i] = elems[i]
    <3>1. v.q[i] \in Json
      BY <1>5, JsonAssumption DEF Range
    <3>2. elems[i] \in Range(elems)
      BY DEF Range
    <3>3. elems[i] # Wrong
      <4> HIDE DEF elems
      <4> QED
        BY <2>1, <3>2 DEF UnlessWrong
    <3> QED
      BY <2>2, <3>1, <3>3
  <2>4. resent = elems
    BY <2>3
  <2> HIDE DEF resent, elems
  <2> QED
    BY <2>1, <2>4
<1>6. CASE ~(T.kind = "struct" /\ v.kind = "map") /\ ~(T.kind = "slice" /\ v.kind = "list")
  <2> HIDE DEF props, elems, fields, resent
  <2>1. Coming(T, v, g) = v /\ FitsType(T, v)
    BY <1>1, <1>6
  <2>2. T.kind \notin {"struct", "slice"}
    BY <1>6, <2>1 DEF FitsType
  <2>3. v = Null => Zero(T) = Null
    BY <1>3, <2>1 DEF FitsType, Zero
  <2> QED
    BY <1>2, <2>1, <2>2, <2>3
<1> QED
  BY <1>4, <1>5, <1>6

\* A value that the schema of its type accepts is sent as it comes.
LEMMA ValueArrives ==
  ASSUME NEW T \in ToSet(GoTypes), NEW v \in Json, arriving[T][v] # Wrong
  PROVE  recode[T][v] = arriving[T][v] /\ (arriving[T][v] = Null <=> v = Null)
<1> DEFINE m == Len(GoTypes)
           AsItComes(S) == \A w \in Json : arriving[S][w] # Wrong => recode[S][w] = arriving[S][w]
           A == {n \in Nat : n <= m => \A S \in FirstTypes(n) : AsItComes(S)}
<1>1. m \in Nat /\ ToSet(GoTypes) = FirstTypes(m)
  BY TypesListed
<1>2. \A S \in ToSet(GoTypes), w \in Json : arriving[S][w] = Coming(S, w, arriving)
  <2>1. PICK h : h = arriving
    OBVIOUS
  <2>2. h = [S \in ToSet(GoTypes) |-> [w \in Json |-> Coming(S, w, h)]]
    BY <2>1, ArrivingIs
  <2>3. \A S \in ToSet(GoTypes), w \in Json : h[S][w] = Coming(S, w, h)
    BY <2>2
  <2> QED
    BY <2>1, <2>3
<1>3. \A S \in ToSet(GoTypes), w \in Json : recode[S][w] = Recoded(S, w, recode)
  <2>1. PICK h : h = recode
    OBVIOUS
  <2>2. h = [S \in ToSet(GoTypes) |-> [w \in Json |-> Recoded(S, w, h)]]
    BY <2>1, RecodeIs
  <2>3. \A S \in ToSet(GoTypes), w \in Json : h[S][w] = Recoded(S, w, h)
    BY <2>2
  <2> QED
    BY <2>1, <2>3
<1>4. ASSUME NEW S \in ToSet(GoTypes), NEW w \in Json, arriving[S][w] # Wrong
      PROVE  arriving[S][w] = Null <=> w = Null
  BY <1>2, <1>4, NullComes
<1>5. 0 \in A
  BY DEF FirstTypes
<1>6. ASSUME NEW n \in Nat, n \in A PROVE n + 1 \in A
  <2> SUFFICES ASSUME n + 1 <= m, NEW S \in FirstTypes(n + 1), NEW w \in Json, arriving[S][w] # Wrong
               PROVE  recode[S][w] = arriving[S][w]
    OBVIOUS
  <2>1. n <= m /\ \A R \in FirstTypes(n) : AsItComes(R)
    BY <1>1, <1>6
  <2> HIDE DEF A
  <2>2. PICK i \in 1 .. (n + 1) : S = GoTypes[i]
    BY DEF FirstTypes
  <2>3. i \in 1 .. m /\ (\A k \in 1 .. (i - 1) : k \in 1 .. n) /\ \A k \in 1 .. n : k \in 1 .. m
    BY <1>1, <2>1
  <2>4. FirstTypes(i - 1) \subseteq FirstTypes(n) /\ FirstTypes(n) \subseteq FirstTypes(m) /\ S \in FirstTypes(m)
    BY <2>2, <2>3 DEF FirstTypes
  <2>5. PartTypes(S) \subseteq FirstTypes(n) /\ PartTypes(S) \subseteq ToSet(GoTypes) /\ S \in ToSet(GoTypes)
    BY <1>1, <2>2, <2>3, <2>4, TypesListed
  <2>6. \A P \in PartTypes(S) : \A x \in Json : arriving[P][x] # Wrong => recode[P][x] = arriving[P][x]
    BY <2>1, <2>5
  <2>7. \A P \in PartTypes(S) : arriving[P][Null] \in {Wrong, Null}
    BY <1>4, <2>5, JsonAssumption
  <2>8. PICK f, g : f = recode /\ g = arriving
    OBVIOUS
  <2>9. Coming(S, w, g) # Wrong
    BY <1>2, <2>5, <2>8
  <2>10. Recoded(S, w, f) = Coming(S, w, g)
    BY <2>6, <2>7, <2>8, <2>9, ComingRecoded
  <2> QED
    BY <1>2, <1>3, <2>5, <2>8, <2>10
<1>7. Nat \subseteq A
  <2> HIDE DEF A
  <2> QED
    BY <1>5, <1>6, Counting
<1>8. m \in A /\ m <= m
  BY <1>1, <1>7
<1> QED
  BY <1>1, <1>4, <1>8
-----------------------------------------------------------------------------
(* The request of a call.                                                   *)

\* Where names are distinct, the struct's fields are known by them.
LEMMA AllNamed ==
  ASSUME NEW fields, \A i, j \in DOMAIN fields : fields[i].name = fields[j].name => i = j,
         \A i \in DOMAIN fields : fields[i].name # "-"
  PROVE  /\ DOMAIN NamedFields(fields) = {fields[i].name : i \in DOMAIN fields}
         /\ \A i \in DOMAIN fields : NamedFields(fields)[fields[i].name] = fields[i]
<1> DEFINE alone(f) == \A j, k \in DOMAIN fields : fields[j].name = f.name /\ fields[k].name = f.name => j = k
           kept == {i \in DOMAIN fields : fields[i].name # "-" /\ alone(fields[i])}
<1>1. NamedFields(fields) = [x \in {fields[i].name : i \in kept} |-> fields[CHOOSE i \in kept : fields[i].name = x]]
  BY DEF NamedFields
<1>2. kept = DOMAIN fields
  OBVIOUS
<1> HIDE DEF kept
<1>3. ASSUME NEW i \in DOMAIN fields PROVE NamedFields(fields)[fields[i].name] = fields[i]
  <2> DEFINE c == CHOOSE j \in kept : fields[j].name = fields[i].name
  <2>1. c \in kept /\ fields[c].name = fields[i].name
    BY <1>2
  <2>2. NamedFields(fields)[fields[i].name] = fields[c]
    BY <1>1, <1>2
  <2> HIDE DEF c
  <2>3. c = i
    BY <1>2, <2>1
  <2> QED
    BY <2>2, <2>3
<1> QED
  BY <1>1, <1>2, <1>3

\* Arguments of the declared form come out of the struct as they arrive.
Same(vals, args) == DOMAIN vals = DOMAIN args /\ \A name \in DOMAIN args : vals[name] = args[name]

LEMMA ArgumentsKept ==
  ASSUME NEW op, WellFormedOperation(op, t.components), NamesDistinct(op), NEW fields, FieldsFit(op, fields),
         NEW args, Range(args) \subseteq Json, Conforms(op, args)
  PROVE  /\ Same(structToMap(fields, args), Sent(op, args))
         /\ Wrong \notin Range(ArgsStruct(fields, args))
<1> DEFINE struct == structType(fields)
           named == NamedFields(struct)
           all == ArgsStruct(fields, args)
           given == {m \in DOMAIN args \cap Declared(op) : args[m] # Null}
           sent == Sent(op, args)
           type(n) == (CHOOSE p \in Takes(op) : p.name = n).type
<1>1. DOMAIN struct = DOMAIN fields
      /\ \A i \in DOMAIN fields : /\ struct[i].name = fields[i].name /\ struct[i].type = fields[i].type
                                  /\ struct[i].optional <=> ~fields[i].required
  BY DEF structType
<1>2. \A i \in DOMAIN fields : fields[i].name \in Declared(op)
  BY DEF FieldsFit, TypeFits, Declared
<1>3. \A n \in Declared(op) : n # "-" /\ \E i \in DOMAIN fields : fields[i].name = n
  <2>1. ASSUME NEW n \in Declared(op) PROVE n # "-"
    BY DEF NamesDistinct
  <2>2. ASSUME NEW n \in Declared(op) PROVE \E i \in DOMAIN fields : fields[i].name = n
    <3>1. PICK p \in Takes(op) : p.name = n
      BY DEF Declared
    <3> QED
      BY <3>1 DEF FieldsFit
  <2> QED
    BY <2>1, <2>2
<1>4. /\ DOMAIN named = {struct[i].name : i \in DOMAIN struct}
      /\ \A i \in DOMAIN struct : named[struct[i].name] = struct[i]
  <2>1. \A i, j \in DOMAIN struct : struct[i].name = struct[j].name => i = j
    BY <1>1 DEF FieldsFit
  <2>2. \A i \in DOMAIN struct : struct[i].name # "-"
    BY <1>1, <1>2, <1>3
  <2> HIDE DEF struct
  <2> QED
    BY <2>1, <2>2, AllNamed
<1>5. all = [n \in DOMAIN named |->
               LET x == IF n \in DOMAIN args THEN args[n] ELSE Null
               IN IF named[n].optional /\ x = Null THEN Null ELSE recode[named[n].type][x]]
  BY DEF ArgsStruct, Encoded
<1> HIDE DEF struct, named, all, given
<1>6. DOMAIN all = Declared(op)
  BY <1>1, <1>2, <1>3, <1>4, <1>5
<1>7. ASSUME NEW i \in DOMAIN fields, fields[i].name \notin DOMAIN args
      PROVE  all[fields[i].name] = Null
  <2>1. ~fields[i].required
    BY <1>7 DEF FieldsFit, Conforms
  <2> QED
    BY <1>1, <1>4, <1>5, <1>7, <2>1
<1>8. ASSUME NEW i \in DOMAIN fields, NEW n, n = fields[i].name, n \in DOMAIN args
      PROVE  /\ all[n] = arriving[fields[i].type][args[n]] /\ all[n] # Wrong
             /\ all[n] = Null <=> args[n] = Null
  <2>1. PICK T, v : T = fields[i].type /\ v = args[n]
    OBVIOUS
  <2>2. PICK p \in Takes(op) : p.name = n /\ p.type = T
    BY <1>8, <2>1 DEF FieldsFit, TypeFits
  <2>3. T \in ToSet(GoTypes) /\ v \in Json
    BY <1>8, <2>1, <2>2, TakesOnce DEF Range
  <2>4. arriving[T][v] # Wrong
    BY <1>8, <2>1, <2>2 DEF Conforms
  <2>5. recode[T][v] = arriving[T][v] /\ (arriving[T][v] = Null <=> v = Null)
    BY <2>3, <2>4, ValueArrives
  <2>6. all[n] = IF named[n].optional /\ v = Null THEN Null ELSE recode[T][v]
    BY <1>1, <1>4, <1>5, <1>8, <2>1
  <2> QED
    BY <2>1, <2>4, <2>5, <2>6
<1>9. Wrong \notin Range(all)
  <2>1. Null # Wrong
    BY DEF Null, Wrong
  <2>2. ASSUME NEW n \in Declared(op) PROVE all[n] # Wrong
    <3>1. PICK i \in DOMAIN fields : fields[i].name = n
      BY <1>3
    <3> QED
      BY <1>7, <1>8, <2>1, <3>1
  <2> QED
    BY <1>6, <2>2 DEF Range
<1>10. {n \in DOMAIN all : all[n] # Null} = given
  <2>1. ASSUME NEW n \in Declared(op) PROVE all[n] # Null <=> n \in DOMAIN args /\ args[n] # Null
    <3>1. PICK i \in DOMAIN fields : fields[i].name = n
      BY <1>3
    <3> QED
      BY <1>7, <1>8, <3>1
  <2> QED
    BY <1>6, <2>1 DEF given
<1>11. structToMap(fields, args) = [n \in given |-> all[n]]
  BY <1>10 DEF structToMap, all
<1>12. sent = [n \in given |-> arriving[type(n)][args[n]]]
  BY DEF Sent, given
<1> HIDE DEF sent, type
<1>13. ASSUME NEW n \in given PROVE all[n] = sent[n]
  <2>1. n \in DOMAIN args /\ n \in Declared(op)
    BY DEF given
  <2>2. PICK i \in DOMAIN fields : fields[i].name = n
    BY <1>3, <2>1
  <2>3. PICK p \in Takes(op) : p.name = n /\ p.type = fields[i].type
    BY <2>2 DEF FieldsFit, TypeFits
  <2>4. type(n) = fields[i].type
    <3> DEFINE q == CHOOSE q \in Takes(op) : q.name = n
    <3>1. q \in Takes(op) /\ q.name = n
      BY <2>3
    <3>2. type(n) = q.type
      BY DEF type
    <3> HIDE DEF q
    <3> QED
      BY <2>3, <3>1, <3>2, TakesOnce
  <2> QED
    BY <1>8, <1>12, <2>1, <2>2, <2>4
<1> QED
  BY <1>9, <1>11, <1>12, <1>13 DEF Same, sent, all

\* What a request carries in a place: the fields' names that a value is given for.
Carried(names, args) == [name \in names \cap DOMAIN args |-> args[name]]

GivenIn(fields, place, vals) == {i \in DOMAIN fields : fields[i].in = place /\ fields[i].name \in DOMAIN vals}
InRequest(fields, place, vals) == [name \in {fields[i].name : i \in GivenIn(fields, place, vals)} |-> vals[name]]

LEMMA CarriedIs ==
  ASSUME NEW fields, NEW place, NEW vals, NEW args, Same(vals, args)
  PROVE  /\ InRequest(fields, place, vals) = Carried(NamesIn(fields, place), args)
         /\ GivenIn(fields, place, vals) = {} <=> NamesIn(fields, place) \cap DOMAIN args = {}
<1>1. DOMAIN vals = DOMAIN args /\ \A name \in DOMAIN args : vals[name] = args[name]
  BY DEF Same
<1>2. {fields[i].name : i \in GivenIn(fields, place, vals)} = NamesIn(fields, place) \cap DOMAIN args
  BY <1>1 DEF NamesIn, GivenIn
<1>3. InRequest(fields, place, vals) = Carried(NamesIn(fields, place), args)
  BY <1>1, <1>2 DEF Carried, InRequest
<1>4. GivenIn(fields, place, vals) = {} <=> NamesIn(fields, place) \cap DOMAIN args = {}
  BY <1>2
<1> QED
  BY <1>3, <1>4

LEMMA RequestIsOwn ==
  ASSUME NEW op, NEW fields, FieldsFit(op, fields), fields = buildRoute(op, t.components).fields,
         NEW vals, NEW args, Same(vals, args)
  PROVE  doRequest(buildRoute(op, t.components), vals) = Upstream(op, args)
<1> DEFINE r == buildRoute(op, t.components)
           given(place) == GivenIn(fields, place, vals)
           argsIn(place) == InRequest(fields, place, vals)
           filled(seg) == IF seg.var /\ seg.name \in DOMAIN argsIn("path")
                            THEN [var |-> FALSE, value |-> argsIn("path")[seg.name]] ELSE seg
           there(seg) == IF seg.var /\ seg.name \in InPlace(op, "path") \cap DOMAIN args
                           THEN [var |-> FALSE, value |-> args[seg.name]] ELSE seg
<1>1. /\ r.fields = fields /\ r.method = op.method /\ r.path = op.path
      /\ r.whole <=> Body(op).json = "value"
  BY DEF buildRoute, Body
<1>2. \A place \in {"path", "query", "header"} : NamesIn(fields, place) = InPlace(op, place)
  BY DEF FieldsFit
<1>3. NamesIn(fields, "body") = InBody(op)
  BY DEF FieldsFit
<1>4. ASSUME NEW place
      PROVE  /\ argsIn(place) = Carried(NamesIn(fields, place), args)
             /\ given(place) = {} <=> NamesIn(fields, place) \cap DOMAIN args = {}
  BY CarriedIs
<1>5. doRequest(r, vals) =
        [method |-> r.method,
         path |-> [i \in DOMAIN r.path |-> filled(r.path[i])],
         query |-> [name \in DOMAIN argsIn("query") |-> toStrings(argsIn("query")[name])],
         header |-> argsIn("header"),
         body |-> CASE given("body") = {} -> Null
                    [] given("body") # {} /\ r.whole -> vals["body"]
                    [] OTHER -> Map(argsIn("body"))]
  BY <1>1 DEF doRequest, InRequest, GivenIn
<1>6. Upstream(op, args) =
        [method |-> op.method,
         path |-> [i \in DOMAIN op.path |-> there(op.path[i])],
         query |-> [n \in InPlace(op, "query") \cap DOMAIN args |->
                      IF args[n].kind = "list" THEN args[n].q ELSE <<args[n]>>],
         header |-> Carried(InPlace(op, "header"), args),
         body |-> IF InBody(op) \cap DOMAIN args = {} THEN Null
                  ELSE IF Body(op).json = "value" THEN args["body"] ELSE Map(Carried(InBody(op), args))]
  BY DEF Upstream, Carried
<1>7. \A seg : filled(seg) = there(seg)
  <2>1. argsIn("path") = Carried(InPlace(op, "path"), args)
    BY <1>2, <1>4
  <2> QED
    BY <2>1 DEF Carried
<1>8. argsIn("header") = Carried(InPlace(op, "header"), args)
  BY <1>2, <1>4
<1>9. [name \in DOMAIN argsIn("query") |-> toStrings(argsIn("query")[name])]
        = [n \in InPlace(op, "query") \cap DOMAIN args |->
             IF args[n].kind = "list" THEN args[n].q ELSE <<args[n]>>]
  <2>1. argsIn("query") = Carried(InPlace(op, "query"), args)
    BY <1>2, <1>4
  <2>2. \A v : toStrings(v) = IF v.kind = "list" THEN v.q ELSE <<v>>
    BY DEF toStrings
  <2> HIDE DEF argsIn
  <2> QED
    BY <2>1, <2>2 DEF Carried
<1>10. (CASE given("body") = {} -> Null
          [] given("body") # {} /\ r.whole -> vals["body"]
          [] OTHER -> Map(argsIn("body")))
        = IF InBody(op) \cap DOMAIN args = {} THEN Null
          ELSE IF Body(op).json = "value" THEN args["body"] ELSE Map(Carried(InBody(op), args))
  <2>1. argsIn("body") = Carried(InBody(op), args) /\ (given("body") = {} <=> InBody(op) \cap DOMAIN args = {})
    BY <1>3, <1>4
  <2> HIDE DEF argsIn, given
  <2>2. CASE given("body") = {}
    BY <2>1, <2>2
  <2>3. CASE given("body") # {} /\ Body(op).json = "value"
    <3>1. InBody(op) = {"body"}
      <4>1. BodyProps(op) = {[name |-> "body", type |-> Body(op).type]}
        BY <2>3 DEF BodyProps
      <4> QED
        BY <4>1 DEF InBody
    <3>2. "body" \in DOMAIN args
      BY <2>1, <2>3, <3>1
    <3>3. vals["body"] = args["body"]
      BY <3>2 DEF Same
    <3> QED
      BY <1>1, <2>1, <2>3, <3>3
  <2>4. CASE given("body") # {} /\ Body(op).json # "value"
    BY <1>1, <2>1, <2>4
  <2> QED
    BY <2>2, <2>3, <2>4
<1> HIDE DEF argsIn, given, filled, there
<1> QED
  BY <1>1, <1>5, <1>6, <1>7, <1>8, <1>9, <1>10 DEF r

\* A field for every variable that an operation declares as one of its path.
LEMMA PathFields ==
  ASSUME NEW op, WellFormedOperation(op, t.components)
  PROVE  InPlace(op, "path") \subseteq NamesIn(buildRoute(op, t.components).fields, "path")
<1> DEFINE params == paramsOf(op, t.components)
           p == addParams(params)
           b == bodyFields(bodyOf(op, t.components))
           S == ToSet(p) \cup ToSet(b)
<1>1. Len(params) \in Nat /\ DOMAIN params = 1 .. Len(params)
  BY ParamsLong
<1>2. Adds(params, Len(params), p)
  BY <1>1, ParamsAdded
<1>3. b \in Seq(ToSet(b))
  BY BodyFieldsFit DEF BodyFit
<1>4. Parameters(op) = {i \in 1 .. Len(params) : isSent(params[i])} /\ \A i : Param(op, i) = params[i]
  BY <1>1 DEF Parameters, Param
<1>5. buildRoute(op, t.components).fields = p \o b
  BY DEF buildRoute
<1> HIDE DEF params, p, b
<1>6. p \in Seq(ToSet(p)) /\ Len(p) \in Nat /\ DOMAIN p = 1 .. Len(p)
  <2>1. p \in Seq(ParamFields(params))
    BY <1>2 DEF Adds
  <2>2. Len(p) \in Nat /\ DOMAIN p = 1 .. Len(p)
    BY <2>1, LenProperties
  <2> QED
    BY <2>1, <2>2 DEF ToSet
<1>7. p \in Seq(S) /\ b \in Seq(S)
  BY <1>3, <1>6, SeqMonotonic
<1> HIDE DEF S
<1>8. Len(b) \in Nat
  BY <1>7, LenProperties
<1>9. DOMAIN (p \o b) = 1 .. (Len(p) + Len(b)) /\ \A k \in 1 .. Len(p) : (p \o b)[k] = p[k]
  <2>1. /\ p \o b \in Seq(S) /\ Len(p \o b) = Len(p) + Len(b)
        /\ \A k \in 1 .. (Len(p) + Len(b)) : (p \o b)[k] = IF k <= Len(p) THEN p[k] ELSE b[k - Len(p)]
    BY <1>7, ConcatProperties
  <2>2. DOMAIN (p \o b) = 1 .. (Len(p) + Len(b))
    BY <2>1, LenProperties
  <2>3. \A k \in 1 .. Len(p) : k \in 1 .. (Len(p) + Len(b)) /\ k <= Len(p)
    BY <1>6, <1>8
  <2> QED
    BY <2>1, <2>2, <2>3
<1>10. \A k \in 1 .. Len(p) : k \in 1 .. (Len(p) + Len(b))
  BY <1>6, <1>8
<1>11. ASSUME NEW i \in Parameters(op), params[i].in = "path"
       PROVE  params[i].name \in NamesIn(p \o b, "path")
  <2>1. PICK k \in 1 .. Len(p) : p[k].in = "path" /\ p[k].name = params[i].name
    BY <1>2, <1>4, <1>6, <1>11 DEF Adds, TakesPlace
  <2>2. PICK all : all = p \o b
    OBVIOUS
  <2>3. k \in DOMAIN all /\ all[k] = p[k]
    BY <1>9, <1>10, <2>2
  <2> QED
    BY <2>1, <2>2, <2>3 DEF NamesIn
<1> QED
  BY <1>4, <1>5, <1>11 DEF InPlace

LEMMA TemplateFilled ==
  ASSUME NEW op, WellFormedOperation(op, t.components), NEW params, NEW path, path = op.path,
         {path[i].name : i \in {j \in DOMAIN path : path[j].var}} = DOMAIN params,
         DOMAIN params \subseteq InPlace(op, "path"), NEW i \in DOMAIN path
  PROVE  ReadRouteTemplate(buildRoute(op, t.components), params).path[i] =
           IF path[i].var THEN [var |-> FALSE, value |-> params[path[i].name]] ELSE path[i]
<1>1. PICK r : r = buildRoute(op, t.components)
  OBVIOUS
<1> DEFINE vals == [name \in {r.fields[k].name : k \in {j \in DOMAIN r.fields :
                                r.fields[j].in = "path" /\ r.fields[j].name \in DOMAIN params}}
                      |-> params[name]]
           argsIn == InRequest(r.fields, "path", vals)
           filled(seg) == IF seg.var /\ seg.name \in DOMAIN argsIn
                            THEN [var |-> FALSE, value |-> argsIn[seg.name]] ELSE seg
<1>2. r.path = path
  BY <1>1 DEF buildRoute
<1>3. DOMAIN params \subseteq NamesIn(r.fields, "path")
  BY <1>1, PathFields
<1>4. Same(vals, params)
  <2> DEFINE kept == {j \in DOMAIN r.fields : r.fields[j].in = "path" /\ r.fields[j].name \in DOMAIN params}
  <2>1. \A name \in DOMAIN params : \E k \in kept : r.fields[k].name = name
    BY <1>3 DEF NamesIn
  <2>2. \A k \in kept : r.fields[k].name \in DOMAIN params
    OBVIOUS
  <2>3. {r.fields[k].name : k \in kept} = DOMAIN params
    <3> HIDE DEF kept
    <3> QED
      BY <2>1, <2>2, SMTT(30)
  <2> QED
    BY <2>3 DEF Same
<1>5. ReadRouteTemplate(r, params).path = [k \in DOMAIN r.path |-> filled(r.path[k])]
  <2>1. ReadRouteTemplate(r, params) = doRequest(r, vals)
    BY DEF ReadRouteTemplate
  <2>2. doRequest(r, vals).path = [k \in DOMAIN r.path |-> filled(r.path[k])]
    BY DEF doRequest, InRequest, GivenIn
  <2> QED
    BY <2>1, <2>2
<1> HIDE DEF vals
<1>6. argsIn = Carried(NamesIn(r.fields, "path"), params)
  BY <1>4, CarriedIs
<1> HIDE DEF argsIn
<1>7. DOMAIN argsIn = DOMAIN params /\ \A name \in DOMAIN params : argsIn[name] = params[name]
  BY <1>3, <1>6 DEF Carried
<1>8. path[i].var => path[i].name \in DOMAIN params
  OBVIOUS
<1>9. filled(path[i]) = IF path[i].var THEN [var |-> FALSE, value |-> params[path[i].name]] ELSE path[i]
  BY <1>7, <1>8
<1> HIDE DEF filled
<1> QED
  BY <1>1, <1>2, <1>5, <1>9

-----------------------------------------------------------------------------
(* The server made from a document answers.                                 *)

AnsweredTo(given, server, a) ==
  LET op   == given.ops[given.nth]
      type == classify(given.rules, op)
  IN /\ type = "tool" => a = CallTool(server.tools[toolName(op)], given.args)
     /\ type = "template" => a = ReadRouteTemplate(TemplateRead(server, op.path), given.args)

\* What a tool call sends is the operation's own request.
LEMMA CallArrives ==
  ASSUME t \in OpenApiTasks, NEW a, AnsweredTo(t, FromOpenAPIDoc(t), a), classify(t.rules, Called) = "tool",
         NameUnique(Called), NamesDistinct(Called), Conforms(Called, t.args)
  PROVE  a = Upstream(Called, Sent(Called, t.args))
<1>1. PICK doc : doc = t
  OBVIOUS
<1>2. PICK i : i = doc.nth
  OBVIOUS
<1>3. PICK op : op = doc.ops[i]
  OBVIOUS
<1>4. PICK args : args = doc.args
  OBVIOUS
<1>5. Called = op
  BY <1>1, <1>2, <1>3 DEF Called
<1>6. WellFormedDocument(doc)
  BY <1>1, OpenApiTasksAssumption
<1>7. i \in DOMAIN doc.ops /\ WellFormedOperation(op, doc.components)
  BY <1>2, <1>3, <1>6 DEF WellFormedDocument
<1>8. TypeOf(doc, i) = "tool"
  BY <1>1, <1>3, <1>5 DEF TypeOf
<1>9. \A j \in DOMAIN doc.ops : TypeOf(doc, j) = "tool" /\ toolName(doc.ops[j]) = toolName(doc.ops[i])
        => doc.ops[j] = doc.ops[i]
  BY <1>1, <1>3, <1>5 DEF NameUnique, TypeOf
<1>10. FromOpenAPIDoc(doc).tools[toolName(doc.ops[i])] = RouteOf(doc, i)
  BY <1>6, <1>7, <1>8, <1>9, ToolIsOwn
<1>11. PICK r : r = buildRoute(op, t.components)
  OBVIOUS
<1>12. RouteOf(doc, i) = r
  BY <1>1, <1>3, <1>11 DEF RouteOf
<1>13. a = CallTool(r, args)
  <2>1. AnsweredTo(doc, FromOpenAPIDoc(doc), a)
    BY <1>1
  <2> QED
    BY <1>2, <1>3, <1>4, <1>8, <1>10, <1>12, <2>1 DEF AnsweredTo, TypeOf
<1>14. PICK fields : fields = r.fields
  OBVIOUS
<1>15. FieldsFit(op, fields)
  BY <1>1, <1>5, <1>7, <1>11, <1>14, RouteFits
<1>16. Range(args) \subseteq Json /\ NamesDistinct(op) /\ Conforms(op, args) /\ WellFormedOperation(op, t.components)
  BY <1>1, <1>4, <1>5, <1>6, <1>7 DEF WellFormedDocument
<1>17. Same(structToMap(fields, args), Sent(op, args)) /\ Wrong \notin Range(ArgsStruct(fields, args))
  BY <1>15, <1>16, ArgumentsKept
<1>18. PICK vals, sent : vals = structToMap(fields, args) /\ sent = Sent(op, args)
  OBVIOUS
<1>19. doRequest(r, vals) = Upstream(op, sent)
  BY <1>11, <1>14, <1>15, <1>17, <1>18, RequestIsOwn
<1>20. a = doRequest(r, vals)
  BY <1>13, <1>14, <1>17, <1>18 DEF CallTool
<1> QED
  BY <1>1, <1>4, <1>5, <1>18, <1>19, <1>20

\* A template that is read leaves no variable in the path.
LEMMA TemplateArrives ==
  ASSUME t \in OpenApiTasks, NEW a, AnsweredTo(t, FromOpenAPIDoc(t), a), classify(t.rules, Called) = "template",
         \A i \in DOMAIN t.ops : t.ops[i].path = Called.path => PathVars(Called) \subseteq InPlace(t.ops[i], "path"),
         DOMAIN t.args = PathVars(Called), NEW k \in DOMAIN Called.path
  PROVE  a.path[k] = IF Called.path[k].var THEN [var |-> FALSE, value |-> t.args[Called.path[k].name]]
                     ELSE Called.path[k]
<1>1. PICK doc : doc = t
  OBVIOUS
<1>2. PICK i : i = doc.nth
  OBVIOUS
<1>3. PICK path : path = doc.ops[i].path
  OBVIOUS
<1>4. PICK params : params = doc.args
  OBVIOUS
<1>5. Called = doc.ops[i] /\ Called.path = path
  BY <1>1, <1>2, <1>3 DEF Called
<1>6. WellFormedDocument(doc) /\ i \in DOMAIN doc.ops
  BY <1>1, <1>2, OpenApiTasksAssumption DEF WellFormedDocument
<1>7. TypeOf(doc, i) = "template"
  BY <1>1, <1>5 DEF TypeOf
<1>8. PICK server : server = FromOpenAPIDoc(doc)
  OBVIOUS
<1>9. PICK j \in DOMAIN doc.ops :
        /\ doc.ops[j].path = path
        /\ TemplateRead(server, path) = RouteOf(doc, j)
  BY <1>3, <1>6, <1>7, <1>8, TemplateIsOwn
<1>10. PICK op : op = doc.ops[j]
  OBVIOUS
<1>11. WellFormedOperation(op, t.components)
  BY <1>1, <1>6, <1>10 DEF WellFormedDocument
<1>12. a = ReadRouteTemplate(buildRoute(op, t.components), params)
  <2>1. AnsweredTo(doc, server, a)
    BY <1>1, <1>8
  <2>2. a = ReadRouteTemplate(RouteOf(doc, j), params)
    BY <1>2, <1>3, <1>4, <1>7, <1>9, <2>1 DEF AnsweredTo, TypeOf
  <2> QED
    BY <1>1, <1>10, <2>2 DEF RouteOf
<1>13. {path[n].name : n \in {m \in DOMAIN path : path[m].var}} = DOMAIN params
  BY <1>1, <1>4, <1>5 DEF PathVars
<1>14. DOMAIN params \subseteq InPlace(op, "path")
  BY <1>1, <1>4, <1>5, <1>9, <1>10
<1>15. path = op.path
  BY <1>9, <1>10
<1>16. ReadRouteTemplate(buildRoute(op, t.components), params).path[k] =
         IF path[k].var THEN [var |-> FALSE, value |-> params[path[k].name]] ELSE path[k]
  BY <1>5, <1>11, <1>13, <1>14, <1>15, TemplateFilled
<1> QED
  BY <1>1, <1>4, <1>5, <1>12, <1>16

\* A server at work has been made from the document, or not, and then answers.
OpenApiAnswers ==
  /\ task.kind = "openapi" /\ t \in OpenApiTasks
  /\ \/ answers = <<>>
     \/ answers = <<FromOpenAPIDoc(t)>>
     \/ \E a : answers = <<FromOpenAPIDoc(t), a>> /\ AnsweredTo(t, FromOpenAPIDoc(t), a)

\* openapi.go, register.go, resource.go: a call of what an operation declares
\* sends the operation's own request, every argument in its place as it was
\* given, but that a property left out inside of one is null there, and nothing
\* undeclared; a template that is read leaves no variable in the path: for any
\* document, of any number of operations, rules, parameters and references, and
\* any types of values, one inside another to any depth.
THEOREM ArgumentsDoArrive == OpenApiSpec => []ArgumentsArrive
<1>1. OpenApiInit => OpenApiAnswers
  BY DEF OpenApiInit, OpenApiAnswers, t
<1>2. OpenApiAnswers /\ [OpenApiNext]_taskVars => OpenApiAnswers'
  <2> SUFFICES ASSUME OpenApiAnswers, [OpenApiNext]_taskVars PROVE OpenApiAnswers'
    OBVIOUS
  <2>1. task.kind = "openapi" /\ t \in OpenApiTasks
    BY DEF OpenApiAnswers
  <2>2. CASE RegisterOperations
    <3>1. UNCHANGED task /\ Len(answers) = 0 /\ answers' = Append(answers, FromOpenAPIDoc(t))
      BY <2>2 DEF RegisterOperations, NextCall
    <3>2. PICK x : x = FromOpenAPIDoc(t)
      OBVIOUS
    <3>3. answers = <<>>
      <4>1. ASSUME NEW y, NEW z, answers = <<y, z>> PROVE FALSE
        BY <3>1, <4>1
      <4>2. ASSUME NEW y, answers = <<y>> PROVE FALSE
        BY <3>1, <4>2
      <4> QED
        BY <4>1, <4>2 DEF OpenApiAnswers
    <3>4. answers' = <<x>>
      BY <3>1, <3>2, <3>3
    <3>5. t' = t
      BY <3>1 DEF t
    <3> QED
      BY <2>1, <3>1, <3>2, <3>4, <3>5 DEF OpenApiAnswers
  <2>3. CASE CallOperation
    <3>1. UNCHANGED task /\ Len(answers) = 1
      BY <2>3 DEF CallOperation, NextCall
    <3>2. PICK x : x = FromOpenAPIDoc(t)
      OBVIOUS
    <3>3. answers = <<x>>
      <4>1. ASSUME NEW y, NEW z, answers = <<y, z>> PROVE FALSE
        BY <3>1, <4>1
      <4>2. answers # <<>>
        BY <3>1
      <4> QED
        BY <3>2, <4>1, <4>2 DEF OpenApiAnswers
    <3>4. answers[1] = x
      BY <3>3
    <3>5. PICK a : answers' = Append(answers, a) /\ AnsweredTo(t, x, a)
      BY <2>3, <3>4, Zenon DEF CallOperation, NextCall, AnsweredTo, TemplateRead, Called
    <3>6. answers' = <<x, a>>
      <4>1. Append(<<x>>, a) = <<x, a>>
        BY AppendOne
      <4> QED
        BY <3>3, <3>5, <4>1
    <3>7. t' = t
      BY <3>1 DEF t
    <3>8. AnsweredTo(t, x, a)'
      BY <3>5, <3>7
    <3> QED
      BY <2>1, <3>1, <3>2, <3>6, <3>7, <3>8 DEF OpenApiAnswers
  <2>4. CASE UNCHANGED taskVars
    BY <2>4 DEF OpenApiAnswers, taskVars, t
  <2> QED
    BY <2>2, <2>3, <2>4 DEF OpenApiNext
<1>3. OpenApiAnswers => ArgumentsArrive
  <2> SUFFICES ASSUME OpenApiAnswers, After("openapi", 2) PROVE ArgumentsArrive
    BY DEF ArgumentsArrive
  <2>1. Len(answers) = 2
    BY DEF After
  <2>2. answers # <<>> /\ \A y : answers # <<y>>
    <3>1. ASSUME NEW y, answers = <<y>> PROVE FALSE
      BY <2>1, <3>1
    <3> QED
      BY <2>1, <3>1
  <2>3. PICK a : answers = <<FromOpenAPIDoc(t), a>> /\ AnsweredTo(t, FromOpenAPIDoc(t), a)
    BY <2>2 DEF OpenApiAnswers
  <2>4. answers[2] = a
    BY <2>3
  <2>5. t \in OpenApiTasks
    BY DEF OpenApiAnswers
  <2> QED
    BY <2>3, <2>4, <2>5, CallArrives, TemplateArrives DEF ArgumentsArrive
<1> QED
  BY <1>1, <1>2, <1>3, PTL DEF OpenApiSpec
=============================================================================
