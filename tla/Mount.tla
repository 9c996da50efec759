-------------------------------- MODULE Mount --------------------------------
(***************************************************************************)
(* Servers composed of servers: the registries of a Server (tool.go,       *)
(* resource.go, prompt.go), the requests that read them (dispatch.go), and *)
(* mount.Import and mount.Mount (mount/mount.go, mount/delegate.go), which *)
(* copy a child's listing onto a parent as handlers that call the child.   *)
(*                                                                         *)
(* Processes.  The application registers components at run time; any       *)
(* number of compositions run, each taking the names of the parent kind by *)
(* kind, listing the child kind by kind and registering one component at a *)
(* time; clients call what they found listed.  Every request to a server   *)
(* and every registration is one step under that server's lock; a call     *)
(* that is delegated takes one step per server it comes to.                *)
(*                                                                         *)
(* A name or a URI is the sequence of its parts, so that prefixing is      *)
(* concatenation and different prefixes may lead to the same name, as the  *)
(* separator may occur in either.  A part in Variables is a template's     *)
(* placeholder, which stands for one whole part of a URI.                  *)
(***************************************************************************)
EXTENDS Naturals, Sequences, Functions

CONSTANTS
  Servers,
  Compositions,   \* calls of ImportWithConfig or MountWithConfig
  Included,       \* the kinds their MountConfig includes
  MountPrefixes,       \* the prefixes they may be given
  Variables,      \* the parts of a template that are placeholders
  Values,         \* the parts a client puts in their place
  Initial,        \* the keys registered on each server at startup, by kind
  Late,           \* the components the application registers later:
                  \* [server, kind, key] records
  Callers,        \* clients, each with one call at a time
  Guesses,        \* keys they may ask for without having found them listed
  NoServer        \* "no server"

KindSet == {"tool", "resource", "template", "prompt"}

Kinds == <<"tool", "resource", "template", "prompt">>     \* in compose's order

Policies == {"error", "skip", "overwrite"}

Key == Seq(Variables \cup Values)

ASSUME MountAssumption ==
  /\ Included \subseteq KindSet /\ Included # {}
  /\ NoServer \notin Servers
  /\ MountPrefixes \cup Guesses \subseteq Key
  /\ Initial \in [Servers -> [KindSet -> Seq(Key)]]
  /\ Late \subseteq [server : Servers, kind : KindSet, key : Key]

VARIABLES
  reg,      \* each server's components, by kind, in the order of its lists
  late,     \* the components of Late not registered yet
  phase,    \* where each composition is
  job,      \* its parent, child, prefix and policy
  turn,     \* the kind it is at: its index in Kinds, or 0
  taken,    \* the names it takes for registered on the parent (nameSets)
  items,    \* the child's keys of this kind it has not composed yet
  had,      \* history: how many components of each kind the parent had at first
  call      \* each client's call: where it has come to, and for what

vars == <<reg, late, phase, job, turn, taken, items, had, call>>

composeVars == <<phase, job, turn, taken, items, had>>

-----------------------------------------------------------------------------
(* A registry: components [key, to, origin], served here or by origin at to. *)

Own(key) == [key |-> key, to |-> NoServer, origin |-> key]

KeysOf(list) == {list[i].key : i \in DOMAIN list}

\* registerTool, Resource and Prompt keep the place of a name already known; a
\* template is appended whatever is there.
Registered(list, kind, comp) ==
  IF kind # "template" /\ comp.key \in KeysOf(list)
  THEN [i \in DOMAIN list |-> IF list[i].key = comp.key THEN comp ELSE list[i]]
  ELSE Append(list, comp)

Matches(template, uri) ==
  /\ Len(template) = Len(uri)
  /\ \A i \in DOMAIN template : template[i] \in Variables \/ template[i] = uri[i]

Valuations(template, parts) == [Variables \cap Range(template) -> parts]

\* resourceTemplateEntry.match: a placeholder's value is the part in its place,
\* the last one if it occurs twice.
Binds(values, template, uri) ==
  \A i \in DOMAIN template :
    template[i] \in Variables /\ (\A j \in i + 1 .. Len(template) : template[j] # template[i])
      => values[template[i]] = uri[i]

\* mount.expandTemplate
Expanded(template, values) ==
  [i \in DOMAIN template |->
     IF template[i] \in DOMAIN values THEN values[template[i]] ELSE template[i]]

\* Where a request is looked up: a URI that no static resource has, in the
\* templates.
LookedUp(s, kind, key) ==
  IF kind = "resource" /\ key \notin KeysOf(reg[s].resource) THEN "template" ELSE kind

Answers(kind, comp, key) ==
  IF kind = "template" THEN Matches(comp.key, key) ELSE comp.key = key

-----------------------------------------------------------------------------
NoJob == [parent |-> NoServer, child |-> NoServer, prefix |-> << >>, policy |-> "error"]
NoCall == [status |-> "idle", listed |-> FALSE, at |-> NoServer, kind |-> "tool", key |-> << >>]

Init ==
  /\ reg = [s \in Servers |-> [k \in KindSet |->
              [i \in DOMAIN Initial[s][k] |-> Own(Initial[s][k][i])]]]
  /\ late = Late
  /\ phase = [m \in Compositions |-> "idle"]
  /\ job = [m \in Compositions |-> NoJob]
  /\ turn = [m \in Compositions |-> 0]
  /\ taken = [m \in Compositions |-> [k \in KindSet |-> {}]]
  /\ items = [m \in Compositions |-> << >>]
  /\ had = [m \in Compositions |-> [k \in KindSet |-> 0]]
  /\ call = [c \in Callers |-> NoCall]

\* Server.Tool and its siblings, called by the application at run time.
RegisterLate(l) ==
  /\ l \in late
  /\ late' = late \ {l}
  /\ reg' = [reg EXCEPT ![l.server][l.kind] = Registered(@, l.kind, Own(l.key))]
  /\ UNCHANGED <<composeVars, call>>

-----------------------------------------------------------------------------
(* compose.                                                                 *)

\* What compose does not refuse.
Accepted(parent, child, prefix) == parent # child /\ prefix # << >>

Begin(m, parent, child, prefix, policy) ==
  /\ phase[m] = "idle"
  /\ Accepted(parent, child, prefix)
  /\ phase' = [phase EXCEPT ![m] = "naming"]
  /\ job' = [job EXCEPT ![m] =
               [parent |-> parent, child |-> child, prefix |-> prefix, policy |-> policy]]
  /\ had' = [had EXCEPT ![m] = [k \in KindSet |-> Len(reg[parent][k])]]
  /\ UNCHANGED <<reg, late, turn, taken, items, call>>

\* The kinds still to come that the configuration includes (templates follow
\* resources), and whether j is the next of them.
Following(i) == {j \in DOMAIN Kinds : j > i /\ Kinds[j] \in Included}
IsNext(j, i) == j \in Following(i) /\ \A n \in Following(i) : j <= n

\* existingNames: one list request to the parent for each kind.  (Those for the
\* kinds that are left out have no consequence.)
TakeNames(m) ==
  /\ phase[m] = "naming"
  /\ \E j \in DOMAIN Kinds :
       /\ IsNext(j, turn[m])
       /\ taken' = [taken EXCEPT ![m][Kinds[j]] = KeysOf(reg[job[m].parent][Kinds[j]])]
       /\ turn' = [turn EXCEPT ![m] = j]
  /\ UNCHANGED <<reg, late, phase, job, items, had, call>>

\* The child's list of the next kind, once the one before is composed.
ListChild(m) ==
  /\ \E j \in DOMAIN Kinds :
       /\ \/ phase[m] = "naming" /\ Following(turn[m]) = {} /\ IsNext(j, 0)
          \/ phase[m] = "composing" /\ items[m] = << >> /\ IsNext(j, turn[m])
       /\ LET list == reg[job[m].child][Kinds[j]]
          IN items' = [items EXCEPT ![m] = [i \in DOMAIN list |-> list[i].key]]
       /\ turn' = [turn EXCEPT ![m] = j]
  /\ phase' = [phase EXCEPT ![m] = "composing"]
  /\ UNCHANGED <<reg, late, job, taken, had, call>>

\* compose returns, and its locals are gone.
Return(m, outcome) ==
  /\ phase' = [phase EXCEPT ![m] = outcome]
  /\ job' = [job EXCEPT ![m] = NoJob]
  /\ turn' = [turn EXCEPT ![m] = 0]
  /\ taken' = [taken EXCEPT ![m] = [k \in KindSet |-> {}]]
  /\ items' = [items EXCEPT ![m] = << >>]
  /\ had' = [had EXCEPT ![m] = [k \in KindSet |-> 0]]

Prefixed(m, key) == job[m].prefix \o key

PrefixedOrigin(m, key) == Prefixed(m, key)     \* mutant of Origin

\* The name under which the child is asked: the one it listed.
Origin(m, key) == key

ClashesOnChild(m, kind, name) ==               \* mutant of Clashes
  name \in KeysOf(reg[job[m].child][kind])

\* resolve: is the name one of the set?
Clashes(m, kind, name) == name \in taken[m][kind]

\* One turn of a compose loop: resolve, then register on the parent.
ComposeItem(m) ==
  /\ phase[m] = "composing" /\ items[m] # << >>
  /\ LET kind == Kinds[turn[m]]
         key  == Head(items[m])
         name == Prefixed(m, key)
         comp == [key |-> name, to |-> job[m].child, origin |-> Origin(m, key)]
         clash == Clashes(m, kind, name)
     IN \/ /\ clash /\ job[m].policy = "error"
           /\ Return(m, "failed")
           /\ UNCHANGED reg
        \/ /\ clash /\ job[m].policy = "skip"
           /\ items' = [items EXCEPT ![m] = Tail(@)]
           /\ UNCHANGED <<reg, phase, job, turn, taken, had>>
        \/ /\ clash => job[m].policy = "overwrite"
           /\ items' = [items EXCEPT ![m] = Tail(@)]
           /\ taken' = [taken EXCEPT ![m][kind] = @ \cup {name}]
           /\ reg' = [reg EXCEPT ![job[m].parent][kind] = Registered(@, kind, comp)]
           /\ UNCHANGED <<phase, job, turn, had>>
  /\ UNCHANGED <<late, call>>

Finish(m) ==
  /\ phase[m] = "composing" /\ items[m] = << >> /\ Following(turn[m]) = {}
  /\ Return(m, "ok")
  /\ UNCHANGED <<reg, late, call>>

Compose(m) == TakeNames(m) \/ ListChild(m) \/ ComposeItem(m) \/ Finish(m)

-----------------------------------------------------------------------------
(* Calls.                                                                   *)

Request(c, s, kind, key, listed) ==
  /\ call[c].status # "open"
  /\ call' = [call EXCEPT ![c] =
       [status |-> "open", listed |-> listed, at |-> s, kind |-> kind, key |-> key]]
  /\ UNCHANGED <<reg, late, composeVars>>

\* A client uses a component it found in a list; of a template, with any values.
Call(c, s, kind, i) ==
  LET key == reg[s][kind][i].key
  IN \/ kind # "template" /\ Request(c, s, kind, key, TRUE)
     \/ /\ kind = "template"
        /\ \E values \in Valuations(key, Values) :
             Request(c, s, "resource", Expanded(key, values), TRUE)

\* The request is dispatched by the server it has come to: the first component
\* that answers it is its own, or delegates to the child with the name or URI the
\* child knows.
Hop(c) ==
  /\ call[c].status = "open"
  /\ LET at   == call[c].at
         key  == call[c].key
         kind == LookedUp(at, call[c].kind, key)
         list == reg[at][kind]
     IN \/ /\ \A i \in DOMAIN list : ~ Answers(kind, list[i], key)
           /\ call' = [call EXCEPT ![c].status = "unknown"]
        \/ \E i \in DOMAIN list :
             /\ Answers(kind, list[i], key)
             /\ \A j \in 1 .. i - 1 : ~ Answers(kind, list[j], key)
             /\ \/ /\ list[i].to = NoServer
                   /\ call' = [call EXCEPT ![c] = NoCall]
                \/ /\ list[i].to # NoServer /\ kind # "template"
                   /\ call' = [call EXCEPT ![c].at = list[i].to, ![c].key = list[i].origin]
                \/ /\ list[i].to # NoServer /\ kind = "template"
                   /\ \E values \in Valuations(list[i].key, Range(key)) :
                        /\ Binds(values, list[i].key, key)
                        /\ call' = [call EXCEPT ![c].at = list[i].to,
                                               ![c].key = Expanded(list[i].origin, values)]
  /\ UNCHANGED <<reg, late, composeVars>>

-----------------------------------------------------------------------------
Next ==
  \/ \E l \in late : RegisterLate(l)
  \/ \E m \in Compositions :
       \/ \E parent, child \in Servers, prefix \in MountPrefixes, policy \in Policies :
            Begin(m, parent, child, prefix, policy)
       \/ Compose(m)
  \/ \E c \in Callers :
       \/ \E s \in Servers, kind \in KindSet : \E i \in DOMAIN reg[s][kind] : Call(c, s, kind, i)
       \/ \E s \in Servers, kind \in {"tool", "resource"}, key \in Guesses :
            Request(c, s, kind, key, FALSE)
       \/ Hop(c)

Spec == Init /\ [][Next]_vars

\* A request that was sent on is dispatched.
FairSpec == Spec /\ \A c \in Callers : WF_vars(Hop(c))

-----------------------------------------------------------------------------
Component == [key : Key, to : Servers \cup {NoServer}, origin : Key]

Job == [parent : Servers \cup {NoServer}, child : Servers \cup {NoServer},
        prefix : Key, policy : Policies]

ClientCall == [status : {"idle", "open", "unknown"}, listed : BOOLEAN,
               at : Servers \cup {NoServer}, kind : KindSet \ {"template"}, key : Key]

Active(m) == phase[m] \in {"naming", "composing"}

TypeOK ==
  /\ reg \in [Servers -> [KindSet -> Seq(Component)]]
  /\ late \subseteq Late
  /\ phase \in [Compositions -> {"idle", "naming", "composing", "ok", "failed"}]
  /\ job \in [Compositions -> Job]
  /\ turn \in [Compositions -> 0 .. Len(Kinds)]
  /\ taken \in [Compositions -> [KindSet -> SUBSET Key]]
  /\ items \in [Compositions -> Seq(Key)]
  /\ had \in [Compositions -> [KindSet -> Nat]]
  /\ call \in [Callers -> ClientCall]
  /\ \A m \in Compositions : Active(m) =>
       /\ job[m].parent \in Servers /\ job[m].child \in Servers
       /\ job[m].parent # job[m].child
  /\ \A c \in Callers : call[c].status = "open" => call[c].at \in Servers

-----------------------------------------------------------------------------
(* Safety.                                                                  *)

\* "CollisionError aborts", "CollisionSkip silently leaves the existing parent
\* component in place" (mount.go:30-35): whatever registers and composes at the
\* same time, no component the parent had when such a composition began is
\* touched by it.
ExistingStays ==
  [][\A m \in Compositions : ComposeItem(m) /\ job[m].policy # "overwrite" =>
       \A k \in KindSet : \A i \in 1 .. had[m][k] :
         reg'[job[m].parent][k][i] = reg[job[m].parent][k][i]]_vars

\* A name or URI that a list showed is answered by some server's own handler,
\* through however many servers it is delegated, even if they mount each other
\* and change meanwhile (mount/mount.go:126-129, delegate.go:38-71).
ListedIsServed == \A c \in Callers : call[c].listed => call[c].status # "unknown"

\* "CollisionOverwrite registers the child component, replacing the existing
\* parent one" (mount.go:36-38): once it is composed, nothing on the parent has
\* its name but the child's component.
OverwriteReplaces ==
  [][\A m \in Compositions :
       /\ ComposeItem(m)
       /\ job[m].policy = "overwrite"
       => LET kind == Kinds[turn[m]]
              list == reg'[job[m].parent][kind]
          IN \A i \in DOMAIN list :
               list[i].key = Prefixed(m, Head(items[m])) => list[i].to = job[m].child]_vars

-----------------------------------------------------------------------------
(* Liveness.                                                                *)

\* A call is answered: servers that mount each other never send a request
\* around for ever, because every delegation drops a prefix.
CallsEnd == \A c \in Callers : call[c].status = "open" ~> call[c].status # "open"
=============================================================================
