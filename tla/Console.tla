------------------------------ MODULE Console ------------------------------
(***************************************************************************)
(* The Console of apps/console in one browser tab, with one wallet         *)
(* connected, and the paymaster of apps/api that sponsors its gas.         *)
(*                                                                         *)
(* The tab shows what its query cache holds, read from a full node that    *)
(* may be behind the chain, and builds transactions from that.  A click is *)
(* a sequence of awaited calls: sponsor and sign, execute, wait for the    *)
(* node, refetch, navigate.  It goes on when its card is unmounted.        *)
(* Elsewhere Machines are created, checkpointed and given away, the user's *)
(* too.  The clock stands still: nothing the tab decides and no check of   *)
(* what it sends depends on it.                                            *)
(*                                                                         *)
(* The cache keeps the data of a page that was left for five minutes; the  *)
(* model drops them at once, and with them the state of the cards.  Old    *)
(* data are explored on the page that is shown, which nothing makes fetch  *)
(* again.                                                                  *)
(*                                                                         *)
(* The reads of one query are one step: what several of them return        *)
(* together never changes (loadAccess), or one of them is all the model    *)
(* keeps (loadEnvironment: the Machine).                                   *)
(***************************************************************************)
EXTENDS Access, Sequences

CONSTANTS
  User,       \* the address of the connected wallet
  Home,       \* the route "/"
  None,       \* no data in the cache, or null
  MaxClicks   \* bound: buttons pressed that send a transaction

ASSUME ConsoleAssumption ==
  User \in Addresses /\ MaxClicks \in Nat /\ {RIGHTS_VIEW} \in Rights

\* No snapshot has the blob id that stands for none.
ASSUME SnapshotAssumption == NoBlob \notin Blobs

VARIABLES
  node,     \* what the read node has indexed of the chain
  route,    \* the environment that is shown, or Home
  cache,    \* the data of the queries of the page
  busy,     \* per card, the click it is busy with, or 0
  armed,    \* the retire button asks for confirmation
  clicks    \* the clicks so far, each with its progress

tabVars == <<route, cache, busy, armed>>
consoleVars == <<accessVars, node, tabVars, clicks>>

(***************************************************************************)
(* The read node                                                           *)
(***************************************************************************)
isRetired(m) == \E i \in 1..Len(log[m]) : log[m][i].type = Retire

Indexed ==
  [machine |-> [m \in Live |-> [owner |-> machines[m].owner, policy |-> machines[m].policy,
                                count |-> machines[m].count]],
   policy |-> policies,
   retired |-> {m \in Live : isRetired(m)}]

\* When a transaction lands the node has what was there before it: it is one
\* transaction behind at most, for any length of time.
Behind == node' = Indexed

CatchUp ==
  /\ node # Indexed
  /\ node' = Indexed
  /\ UNCHANGED <<accessVars, tabVars, clicks>>

(***************************************************************************)
(* The queries                                                             *)
(***************************************************************************)
Known == DOMAIN node.machine

\* Faulty variant: the policy need not be bound to the Machine.
loadAccess_unbound(m) ==
  LET p == node.machine[m].policy IN
  IF p \in DOMAIN node.policy
  THEN [policy |-> p, owner |-> node.policy[p].owner, grants |-> node.policy[p].grants]
  ELSE None

\* null for a Machine whose policy_id is not a policy bound to it.
loadAccess(m) ==
  LET p == node.machine[m].policy IN
  IF p \in DOMAIN node.policy /\ node.policy[p].machine = m
  THEN [policy |-> p, owner |-> node.policy[p].owner, grants |-> node.policy[p].grants]
  ELSE None

loadEnvironment(m) == node.machine[m]

\* Of the list of owned Machines the Console decides on its presence only: any
\* environment can be opened.
NoData == [owned |-> None, environment |-> None, access |-> None, retired |-> None]

Fetched(data) == cache' = data /\ UNCHANGED <<accessVars, node, route, clicks>>

\* The cards are on the page once its environment is loaded.
Loaded == cache.environment # None

NothingBusy == [card \in {"create", "actions", "share"} |-> 0]
Unmounted == busy' = NothingBusy /\ armed' = FALSE

\* Queries are fetched when a page shows them, and again on focus.  A failed
\* read of the environment replaces the page by an error.
useEnvironment ==
  /\ route # Home
  /\ \/ /\ route \in Known
        /\ Fetched([cache EXCEPT !.environment = loadEnvironment(route)])
        /\ UNCHANGED <<busy, armed>>
     \/ Fetched([cache EXCEPT !.environment = None]) /\ Unmounted

\* Any error in reading the policy makes the answer null.
useAccess ==
  /\ Loaded
  /\ \E data \in {loadAccess(route), None} : Fetched([cache EXCEPT !.access = data])
  /\ UNCHANGED <<busy, armed>>

useRetired ==
  /\ Loaded
  /\ Fetched([cache EXCEPT !.retired = route \in node.retired])
  /\ UNCHANGED <<busy, armed>>

useOwnedMachines ==
  /\ route = Home
  /\ Fetched([cache EXCEPT !.owned = TRUE])
  /\ UNCHANGED <<busy, armed>>

(***************************************************************************)
(* Routes                                                                  *)
(***************************************************************************)
navigate(to) == to # route /\ route' = to /\ cache' = NoData /\ Unmounted

\* A card of the list, a link, or an id that is typed in.
InspectAny(m) == navigate(m) /\ UNCHANGED <<accessVars, node, clicks>>

GoHome == navigate(Home) /\ UNCHANGED <<accessVars, node, clicks>>

(***************************************************************************)
(* The transactions the buttons build                                      *)
(***************************************************************************)
buildCreateSharedMachine == [target |-> "create_shared_machine"]
buildFork(m, p) == [target |-> "fork_owned", machine |-> m, policy |-> p]
buildRetire(m) == [target |-> "retire", machine |-> m]
buildGrant(m, p, a, r, x) ==
  [target |-> "grant", machine |-> m, policy |-> p, grantee |-> a, rights |-> r, expiry |-> x]
buildRevoke(m, p, a) == [target |-> "revoke", machine |-> m, policy |-> p, grantee |-> a]

\* Ids are interchangeable: one fresh id stands for all of them.
Fresh(S) == IF S = {} THEN {} ELSE {CHOOSE x \in S : TRUE}
NewIds == Fresh(ObjectIds \ Live)
NewPolicyIds == Fresh(PolicyIds \ DOMAIN policies)

\* The chain executes the transaction of the user; `new` is the Machine
\* it creates, or None.
Executes(tx, new) ==
  CASE tx.target = "create_shared_machine" ->
         new \in NewIds /\ \E p \in NewPolicyIds : create_shared_machine(User, new, p)
    [] tx.target = "fork_owned" ->
         new \in NewIds /\ fork(User, tx.machine, new, tx.policy) /\ UNCHANGED policies
    [] tx.target = "retire" -> new = None /\ retire(User, tx.machine) /\ UNCHANGED policies
    [] tx.target = "grant" ->
         new = None /\ grant(User, tx.machine, tx.policy, tx.grantee, tx.rights, tx.expiry)
    [] tx.target = "revoke" -> new = None /\ revoke(User, tx.machine, tx.policy, tx.grantee)

(***************************************************************************)
(* The cards                                                               *)
(***************************************************************************)
\* A click makes its card busy.  `signed` and `executed` count what the user
\* signed and the chain executed for it; the code has neither.
Click(card, tx) ==
  /\ busy[card] = 0 /\ Len(clicks) < MaxClicks
  /\ clicks' = Append(clicks, [at |-> "sign", card |-> card, tx |-> tx, sponsored |-> FALSE,
                               new |-> None, signed |-> 0, executed |-> 0])
  /\ busy' = [busy EXCEPT ![card] = Len(clicks) + 1]
  /\ UNCHANGED <<accessVars, node, route, cache, armed>>

\* CreateEnvironment is on the dashboard once the list is loaded.
onCreate == route = Home /\ cache.owned # None /\ Click("create", buildCreateSharedMachine)

\* Faulty variant: any connected wallet may fork.
forkAvailability_connected(connected, owner, count) == count > 0

forkAvailability(connected, owner, count) == connected = owner /\ count > 0

onFork ==
  /\ Loaded
  /\ LET e == cache.environment IN
     /\ forkAvailability(User, e.owner, e.count)
     /\ Click("actions", buildFork(route, e.policy))

\* Retiring is offered to the owner while `retired` is false or not known.
OffersRetire ==
  Loaded /\ cache.environment.owner = User /\ cache.retired # TRUE

\* "Retire environment", and "Cancel".
Arm(on) ==
  /\ OffersRetire
  /\ armed = ~on /\ armed' = on
  /\ on \/ busy["actions"] = 0
  /\ UNCHANGED <<accessVars, node, route, cache, busy, clicks>>

onRetire == OffersRetire /\ armed /\ Click("actions", buildRetire(route))

\* ShareCard shows nothing without a policy; SharePanel lets the owner add
\* and remove.
CanManage == Loaded /\ cache.access # None /\ cache.access.owner = User

rightsFor(role) == IF role = "viewer" THEN {RIGHTS_VIEW} ELSE FullRights

\* AddPerson: the role and the days until the grant expires.
onGrant(a, role, days) ==
  /\ CanManage
  /\ Click("share", buildGrant(route, cache.access.policy, a, rightsFor(role),
                               IF days = 0 THEN NoExpiry ELSE now + days))

onRevoke(a) ==
  /\ CanManage
  /\ a \in DOMAIN cache.access.grants \ {cache.access.owner}
  /\ Click("share", buildRevoke(route, cache.access.policy, a))

(***************************************************************************)
(* useExecuteTransaction, and the paymaster                                *)
(***************************************************************************)
\* A click that is over is remembered by its counts only.
Over(s) == [at |-> "done", signed |-> s.signed, executed |-> s.executed]

GoOn(c, next) == clicks' = [clicks EXCEPT ![c] = next]

At(c, steps) == c \in 1..Len(clicks) /\ clicks[c].at \in steps

\* finally: setBusy(null), in the card if it is still mounted.
Released(c) == [card \in DOMAIN busy |-> IF busy[card] = c THEN 0 ELSE busy[card]]

Ends(c) ==
  /\ GoOn(c, Over(clicks[c]))
  /\ busy' = Released(c)
  /\ UNCHANGED <<node, route, cache, armed>>

\* loadApiConfig.
sponsoredTargets == {"create_shared_machine", "fork_owned", "retire", "grant", "revoke"}

\* POST /sponsor: Enoki answers with the bytes to sign, for the configured
\* targets only.  Without a paymaster or without an answer the wallet pays.
sponsor(tx) == IF tx.target \in sponsoredTargets THEN BOOLEAN ELSE {FALSE}

\* The user signs what the paymaster answered, or else the transaction as built.
Sign(c) ==
  /\ At(c, {"sign"})
  /\ \E sponsored \in sponsor(clicks[c].tx) :
       GoOn(c, [clicks[c] EXCEPT !.at = "execute", !.sponsored = sponsored, !.signed = @ + 1])
  /\ UNCHANGED <<accessVars, node, tabVars>>

\* The user refuses, or the wallet cannot build or pay the transaction.
Reject(c) == At(c, {"sign"}) /\ Ends(c) /\ UNCHANGED accessVars

\* Faulty variant: when /execute fails the wallet pays after all.
Failed_falls_back(s) ==
  IF s.sponsored THEN [s EXCEPT !.sponsored = FALSE, !.signed = @ + 1] ELSE Over(s)

\* Past signing there is no fallback: the click ends with an error.
Failed(s) == Over(s)

After(s) ==
  IF s.tx.target \in {"create_shared_machine", "fork_owned"} THEN "wait" ELSE "refresh"

\* POST /execute, or the wallet's own execution: the transaction lands and its
\* digest comes back,
execute(c) ==
  /\ At(c, {"execute"})
  /\ \E new \in NewIds \cup {None} :
       /\ Executes(clicks[c].tx, new)
       /\ GoOn(c, [clicks[c] EXCEPT !.at = After(clicks[c]), !.new = new,
                                    !.sponsored = FALSE, !.executed = @ + 1])
  /\ Behind /\ UNCHANGED tabVars

\* or it lands and the answer is lost,
ReplyLost(c) ==
  /\ At(c, {"execute"})
  /\ \E new \in NewIds \cup {None} :
       /\ Executes(clicks[c].tx, new)
       /\ GoOn(c, Failed([clicks[c] EXCEPT !.executed = @ + 1]))
  /\ busy' = Released(c)
  /\ Behind /\ UNCHANGED <<route, cache, armed>>

\* or it aborts, which has a digest too and looks like success,
Aborts(c) ==
  /\ At(c, {"execute"})
  /\ GoOn(c, [clicks[c] EXCEPT !.at = After(clicks[c]), !.sponsored = FALSE, !.executed = @ + 1])
  /\ UNCHANGED <<accessVars, node, tabVars>>

\* or it is never executed.
ExecuteFails(c) ==
  /\ At(c, {"execute"})
  /\ GoOn(c, Failed(clicks[c]))
  /\ busy' = Released(c)
  /\ UNCHANGED <<accessVars, node, route, cache, armed>>

(***************************************************************************)
(* After the transaction                                                   *)
(***************************************************************************)
\* Faulty variant: there is no limit to the wait.
createdMachineId_unlimited(new) == {new} \cap Known

\* The Machine that was created, once the node has it, or null: the wait has a
\* limit, and reading the transaction back can fail.
createdMachineId(new) == ({new} \cap Known) \cup {None}

\* invalidateQueries fetches what is on the page of the Machine the click was
\* about.
Refetched(s) ==
  IF route # s.tx.machine \/ ~Loaded \/ route \notin Known THEN cache
  ELSE IF s.tx.target = "retire"
  THEN [cache EXCEPT !.retired = route \in node.retired, !.environment = loadEnvironment(route)]
  ELSE [cache EXCEPT !.access = loadAccess(route), !.environment = loadEnvironment(route)]

\* The refetch is done, or has failed and changed nothing.  Retiring puts the
\* confirmation away, if its card is still there.
Refresh(c) ==
  LET s == clicks[c] IN
  /\ At(c, {"refresh"})
  /\ cache' \in {cache, Refetched(s)}
  /\ GoOn(c, Over(s))
  /\ busy' = Released(c)
  /\ armed' = (armed /\ ~(s.tx.target = "retire" /\ busy["actions"] = c))
  /\ UNCHANGED <<accessVars, node, route>>

\* Creating and forking open the new environment, or the dashboard, wherever
\* the user has gone meanwhile.
OpenNew(c) ==
  /\ At(c, {"wait"})
  /\ \E id \in createdMachineId(clicks[c].new) :
       LET to == IF id = None THEN Home ELSE id IN
       \/ navigate(to)
       \/ to = route /\ busy' = Released(c) /\ UNCHANGED <<route, cache, armed>>
  /\ GoOn(c, Over(clicks[c]))
  /\ UNCHANGED <<accessVars, node>>

(***************************************************************************)
(* Elsewhere                                                               *)
(***************************************************************************)
\* The first Machine is created elsewhere; Machines are checkpointed, of which
\* the first checkpoint only changes what the Console decides on; and whoever
\* holds a Machine gives it away, which leaves its owner field as it is.
Elsewhere ==
  /\ \/ /\ \E m \in Live, b \in Blobs, h \in Manifests, x \in Payloads :
             machines[m].count = 0 /\ register_checkpoint(machines[m].owner, m, b, h, x)
        /\ UNCHANGED policies
     \/ /\ Live = {}
        /\ \E s \in Addresses, m \in NewIds, p \in NewPolicyIds : create_shared_machine(s, m, p)
     \/ /\ \E m \in Live, to \in Addresses : to # holder[m] /\ Transfer(holder[m], m, to)
        /\ UNCHANGED policies
  /\ Behind /\ UNCHANGED <<tabVars, clicks>>

ConsoleInit ==
  /\ AccessInit
  /\ node = Indexed
  /\ route = Home
  /\ cache = NoData
  /\ busy = NothingBusy /\ armed = FALSE
  /\ clicks = <<>>

\* A grant of the owner to itself, which AddPerson accepts, is left to Access.
Buttons ==
  \/ onCreate \/ onFork \/ onRetire
  \/ \E on \in BOOLEAN : Arm(on)
  \/ \E a \in Addresses \ {User} :
       \/ \E role \in {"viewer", "restore"}, days \in Expiries : onGrant(a, role, days)
       \/ onRevoke(a)

AfterSigning(c) ==
  execute(c) \/ ReplyLost(c) \/ Aborts(c) \/ ExecuteFails(c) \/ Refresh(c) \/ OpenNew(c)

ConsoleNext ==
  \/ CatchUp \/ Elsewhere
  \/ useEnvironment \/ useAccess \/ useRetired \/ useOwnedMachines
  \/ GoHome \/ \E m \in ObjectIds : InspectAny(m)
  \/ Buttons
  \/ \E c \in 1..MaxClicks : Sign(c) \/ Reject(c) \/ AfterSigning(c)

\* Once the user has signed, every call a click awaits returns or throws.
\* Whether the user ever signs, or the node ever catches up, is left open.
ConsoleSpec ==
  /\ ConsoleInit /\ [][ConsoleNext]_consoleVars
  /\ \A c \in 1..MaxClicks : WF_consoleVars(AfterSigning(c))

-----------------------------------------------------------------------------
(***************************************************************************)
(* Properties                                                              *)
(***************************************************************************)
\* "The fallback only happens BEFORE the user signs, so a request is never
\* signed or executed twice": whichever of sponsor, execute and their answers
\* fail, a click is signed once and reaches the chain once at most, and only
\* after it was signed.
NeverTwice ==
  \A c \in 1..Len(clicks) : clicks[c].executed <= clicks[c].signed /\ clicks[c].signed <= 1

Pending(c) == clicks[c].at \in {"sign", "execute"}

\* The Machine was given away by its owner.
GivenAway(m) == holder[m] # machines[m].owner

\* The tab may be arbitrarily far behind the chain, yet what it offers to the
\* user stays acceptable until it lands, unless the Machine is given away: the
\* user owns it, a fork has a snapshot to start from, and a policy is the one
\* bound to the Machine.  When it was given away, before or after the offer,
\* that alone can refuse the transaction, as the owner field has not changed.
TransactionsStayValid ==
  \A c \in {x \in 1..Len(clicks) : Pending(x)} : LET tx == clicks[c].tx IN
    tx.target # "create_shared_machine" =>
      /\ assert_owner(User, tx.machine)
      /\ OwnedInput(User, tx.machine) \/ GivenAway(tx.machine)
      /\ tx.target = "fork_owned" => machines[tx.machine].blob # NoBlob
      /\ tx.target \in {"grant", "revoke"} =>
           assert_owner_and_binding(User, tx.machine, tx.policy)

\* Everybody the share panel lists for an environment has been given access to
\* that environment: a GRANT entry on its own chain names them, or they own it.
\* A fork made here carries its parent's policy id and must not show the
\* people of its parent.
PeopleShownHadAccess ==
  cache.access # None =>
    \A a \in DOMAIN cache.access.grants :
      \/ a = machines[route].owner
      \/ \E i \in 1..Len(log[route]) :
           log[route][i].type = Grant /\ log[route][i].payload.grantee = a

Signed(c) == c <= Len(clicks) /\ clicks[c].signed > 0 /\ clicks[c].at # "done"

\* A click that was signed comes to an end and frees its card, whatever fails,
\* and although the node may never see the transaction.
SignedEnds == \A c \in 1..MaxClicks : Signed(c) ~> (~Signed(c) /\ \A card \in DOMAIN busy : busy[card] # c)
=============================================================================
