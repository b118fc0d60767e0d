------------------------ MODULE Credentials_proofs ------------------------
(***************************************************************************)
(* Proofs about Credentials, for every set of callers and every bound on   *)
(* grants, expiries, faults, key rotations and polls: the newest refresh   *)
(* token is kept, one caller spends it, and whose grant the row holds is   *)
(* decided by the connecting flow.                                         *)
(***************************************************************************)
EXTENDS Credentials, TLAPS

(***************************************************************************)
(* The inductive invariant.                                                *)
(***************************************************************************)
FullRow == [grant : Grants, serial : Nat, rev : Nat \ {0}, key : Nat, fresh : BOOLEAN,
            claim : Callers \cup {Nobody}, lapsed : BOOLEAN]
Caller == [pc : {"idle", "open", "rotate", "claim", "post", "record", "release", "use"},
           goal : {"token", "poll", "rewrap"}, retried : BOOLEAN, tries : Nat, polls : Nat,
           base : Nat, snap : {NoRow} \cup FullRow, got : Nat]
Flow == [pc : {"idle", "pending", "site", "previous", "store", "link", "rollback"},
         grant : 0 .. MaxGrants, serial : Nat, account : {"own", "conflicting"},
         prev : {NoRow} \cup FullRow, existing : {"none", "off", "on"}]

Busy(p) == proc[p].pc \in {"post", "record"}
Quiet(c) == c.pc \notin {"rotate", "post", "record"}

Typed ==
  /\ provider \in {"jira", "asana", "slack"} /\ subject \in {"site", "user"}
  /\ site \in {"none", "off", "on"}
  /\ row \in {NoRow} \cup FullRow /\ primary \in [Callers -> Nat] /\ live \in [Grants -> Nat]
  /\ proc \in [Callers -> Caller] /\ link \in Flow
  /\ used \in [expiries : Nat, faults : Nat, grants : 0 .. MaxGrants]
  /\ \A p \in Callers : proc[p].pc = "rotate" \/ Busy(p) => proc[p].snap \in FullRow
  /\ link.pc # "idle" => link.grant \in Grants

\* Nothing holds a grant that no person has authorized yet.
Issued ==
  /\ row.grant <= used.grants /\ link.grant <= used.grants /\ link.prev.grant <= used.grants
  /\ \A p \in Callers : proc[p].snap.grant <= used.grants
  /\ \A g \in refused : g \in 1 .. used.grants

\* Until it is stored, a new grant is known to its own flow only.
Waiting ==
  link.pc \in {"pending", "site", "previous", "store"} =>
    /\ link.serial = live[link.grant] /\ link.grant \notin refused
    /\ row.grant # link.grant /\ link.prev.grant # link.grant
    /\ \A p \in Callers : proc[p].snap.grant # link.grant

\* While the claim is a caller's, the row is as the caller claimed it ...
Owned ==
  \A p \in Callers : Busy(p) /\ row.claim = p =>
    row.grant = proc[p].snap.grant /\ row.rev = proc[p].snap.rev

\* ... and while the row holds a busy caller's grant, the claim is its own.
Held ==
  \A p \in Callers : Busy(p) /\ row.grant = proc[p].snap.grant =>
    row.grant \in excused \/ (row.claim = p /\ ~row.lapsed)

\* The revision a rewrap read identifies what it read.
Unmoved ==
  \A p \in Callers : proc[p].pc = "rotate" /\ proc[p].snap.grant \notin excused =>
    /\ Exists /\ row.rev >= proc[p].snap.rev
    /\ row.rev = proc[p].snap.rev =>
         row.grant = proc[p].snap.grant /\ row.serial = proc[p].snap.serial

\* A received token stays the newest until it is recorded.
Received ==
  \A p \in Callers : proc[p].pc = "record" =>
    proc[p].got = live[proc[p].snap.grant] \/ proc[p].snap.grant \in excused

\* A grant whose account was turned down is in the row only while its flow
\* still has to roll it back.
TurnedDown ==
  /\ row.grant \in refused =>
       \/ row.grant \in excused
       \/ link.pc = "rollback" /\ row.grant = link.grant
  /\ link.prev.grant \in refused => link.prev.grant \in excused
  /\ link.pc \in {"link", "rollback"} /\ link.prev # NoRow => link.prev.grant # link.grant

VaultInv ==
  /\ Typed /\ Issued /\ Waiting /\ Owned /\ Held /\ Unmoved /\ Received /\ TurnedDown
  /\ NewestTokenKept /\ OneSpender

\* What a step of CallbackDecides may do.
Decided ==
  /\ Exists /\ row' # NoRow /\ row'.grant # row.grant
       => link' # link \/ row'.grant \in excused
  /\ row' # NoRow /\ row'.grant \in refused'
       => link'.pc = "rollback" \/ row'.grant \in excused'

-----------------------------------------------------------------------------
(***************************************************************************)
(* Facts the steps share.                                                  *)
(***************************************************************************)
LEMMA NoRowFacts ==
  /\ NoRow.grant = 0 /\ NoRow.serial = 0 /\ NoRow.rev = 0 /\ NoRow.claim = Nobody
  /\ NoRow.lapsed = FALSE /\ NoRow.key = 0 /\ NoRow.fresh = FALSE
  /\ NoRow \notin FullRow /\ Nobody \notin Callers
BY CredentialsAssumption DEF NoRow, FullRow, Grants

LEMMA RestingFacts ==
  /\ Resting \in Caller /\ Resting.pc = "idle" /\ Resting.snap = NoRow
  /\ Disconnected \in Flow /\ Disconnected.pc = "idle" /\ Disconnected.prev = NoRow
  /\ Disconnected.grant = 0
BY CredentialsAssumption DEF Resting, Disconnected, Caller, Flow

\* What the types of the invariant say of the fields the proofs compare.
LEMMA Fields ==
  ASSUME Typed
  PROVE  /\ row.grant \in 0 .. MaxGrants /\ row.rev \in Nat /\ row.serial \in Nat
         /\ row.claim \in Callers \cup {Nobody}
         /\ row # NoRow => row \in FullRow /\ row.grant \in Grants /\ row.rev > 0
         /\ \A p \in Callers :
              /\ proc[p] \in Caller /\ proc[p].snap.grant \in 0 .. MaxGrants
              /\ proc[p].snap \in {NoRow} \cup FullRow /\ proc[p].got \in Nat
              /\ proc[p].snap.rev \in Nat
              /\ proc[p].pc \in {"rotate", "post", "record"} =>
                   /\ proc[p].snap \in FullRow /\ proc[p].snap.grant \in Grants
                   /\ proc[p].snap.rev > 0 /\ proc[p].snap.serial \in Nat
         /\ used.grants \in 0 .. MaxGrants /\ used.faults \in Nat /\ used.expiries \in Nat
         /\ link.grant \in 0 .. MaxGrants /\ link.prev \in {NoRow} \cup FullRow
         /\ link.prev.grant \in 0 .. MaxGrants
<1>1. /\ row.grant \in 0 .. MaxGrants /\ row.rev \in Nat /\ row.serial \in Nat
      /\ row.claim \in Callers \cup {Nobody}
      /\ row # NoRow => row \in FullRow /\ row.grant \in Grants /\ row.rev > 0
  <2>1. row \in {NoRow} \cup FullRow
    BY DEF Typed
  <2>2. row \in FullRow =>
          /\ row.grant \in Grants /\ row.rev \in Nat /\ row.rev > 0 /\ row.serial \in Nat
          /\ row.claim \in Callers \cup {Nobody}
    BY DEF FullRow
  <2>3. CASE row = NoRow
    <3>1. /\ row.grant = 0 /\ row.serial = 0 /\ row.rev = 0 /\ row.claim = Nobody
      BY <2>3, NoRowFacts
    <3>2. QED  BY <2>3, <3>1, CredentialsAssumption
  <2>4. QED  BY <2>1, <2>2, <2>3, CredentialsAssumption DEF Grants
<1>2. ASSUME NEW p \in Callers
      PROVE  /\ proc[p] \in Caller /\ proc[p].snap.grant \in 0 .. MaxGrants
             /\ proc[p].snap \in {NoRow} \cup FullRow /\ proc[p].got \in Nat
             /\ proc[p].snap.rev \in Nat
             /\ proc[p].pc \in {"rotate", "post", "record"} =>
                  /\ proc[p].snap \in FullRow /\ proc[p].snap.grant \in Grants
                  /\ proc[p].snap.rev > 0 /\ proc[p].snap.serial \in Nat
  <2>1. proc[p] \in Caller
    BY DEF Typed
  <2>2. proc[p].snap \in {NoRow} \cup FullRow /\ proc[p].got \in Nat
    BY <2>1 DEF Caller
  <2>3. proc[p].snap.grant \in 0 .. MaxGrants /\ proc[p].snap.rev \in Nat
    BY <2>2, NoRowFacts, CredentialsAssumption DEF FullRow, Grants
  <2>4. proc[p].pc \in {"rotate", "post", "record"} => proc[p].snap \in FullRow
    BY DEF Typed, Busy
  <2>5. proc[p].snap \in FullRow =>
          /\ proc[p].snap.grant \in Grants /\ proc[p].snap.rev > 0
          /\ proc[p].snap.serial \in Nat
    BY DEF FullRow
  <2>6. QED  BY <2>1, <2>2, <2>3, <2>4, <2>5
<1>3. /\ used.grants \in 0 .. MaxGrants /\ used.faults \in Nat /\ used.expiries \in Nat
      /\ link.grant \in 0 .. MaxGrants /\ link.prev \in {NoRow} \cup FullRow
  BY DEF Typed, Flow
<1>4. link.prev.grant \in 0 .. MaxGrants
  BY <1>3, NoRowFacts, CredentialsAssumption DEF FullRow, Grants
<1>5. QED  BY <1>1, <1>2, <1>3, <1>4

\* What a caller is after it opened the row: at rest, or on its way to use the
\* token, to claim the refresh, or to open the row again.
LEMMA AfterOpenIsQuiet ==
  ASSUME provider \in {"jira", "asana", "slack"}, NEW c \in Caller, NEW r, r.rev \in Nat
  PROVE  /\ AfterOpen(c, r) \in Caller /\ AfterOpen(c, r).pc \in {"idle", "open", "claim", "use"}
         /\ AfterOpen(c, r).snap = NoRow
<1>1. c.goal \in {"token", "poll", "rewrap"} /\ c.retried \in BOOLEAN
  BY DEF Caller
<1>2. /\ PollAgain(c) \in Caller /\ PollAgain(c).pc \in {"idle", "open"}
      /\ PollAgain(c).snap = NoRow
  <2> DEFINE d == [c EXCEPT !.pc = "open", !.tries = 0, !.polls = @ + 1, !.snap = NoRow]
  <2>1. d \in Caller /\ d.pc = "open" /\ d.snap = NoRow
    <3>1. c.polls + 1 \in Nat
      BY DEF Caller
    <3>2. QED  BY <3>1, Zenon DEF Caller
  <2>2. PollAgain(c) \in {Resting, d}
    BY DEF PollAgain
  <2>3. QED  BY <2>1, <2>2, RestingFacts
<1>3. Using(c) \in Caller /\ Using(c).pc = "use" /\ Using(c).snap = NoRow
  BY <1>1, RestingFacts DEF Using, Caller
<1>4. LET d == [c EXCEPT !.pc = "claim", !.base = r.rev, !.snap = NoRow]
      IN  d \in Caller /\ d.pc = "claim" /\ d.snap = NoRow
  BY DEF Caller
<1>5. AfterOpen(c, r) \in {Resting, PollAgain(c), Using(c),
                           [c EXCEPT !.pc = "claim", !.base = r.rev, !.snap = NoRow]}
  <2>1. CASE c.goal = "rewrap"
    BY <2>1 DEF AfterOpen
  <2>2. CASE c.goal # "rewrap" /\ provider = "jira"
    BY <2>2 DEF AfterOpen, JiraAccessToken
  <2>3. CASE c.goal # "rewrap" /\ provider = "asana"
    BY <2>3 DEF AfterOpen, AsanaAccessToken
  <2>4. CASE c.goal # "rewrap" /\ provider = "slack"
    BY <2>4 DEF AfterOpen, SlackAccessToken
  <2>5. QED  BY <2>1, <2>2, <2>3, <2>4
<1>6. QED  BY <1>2, <1>3, <1>4, <1>5, RestingFacts

\* The row is what it was but for its key and the freshness of its access token.
SameRow ==
  /\ row' \in {NoRow} \cup FullRow /\ (row' = NoRow <=> row = NoRow)
  /\ row'.grant = row.grant /\ row'.serial = row.serial /\ row'.rev = row.rev
  /\ row'.claim = row.claim /\ row'.lapsed = row.lapsed

\* A caller stays as it is, or comes to rest without a token it alone holds.
Settles(p) ==
  \/ proc'[p] = proc[p]
  \/ /\ Quiet(proc'[p]) /\ proc'[p].snap \in {NoRow, proc[p].snap}
     /\ proc[p].pc = "record" /\ row.claim = p => row.grant \in excused'

BudgetsGoOn ==
  /\ used' \in [expiries : Nat, faults : Nat, grants : 0 .. MaxGrants]
  /\ used'.grants = used.grants

LEMMA CallersSettle ==
  ASSUME VaultInv, SameRow, BudgetsGoOn, UNCHANGED <<fixed, site, live, link, refused>>,
         primary' \in [Callers -> Nat], excused \subseteq excused',
         proc' \in [Callers -> Caller], \A p \in Callers : Settles(p)
  PROVE  VaultInv' /\ Decided
<1>. USE DEF VaultInv
<1>1. ASSUME NEW p \in Callers
      PROVE  /\ proc'[p].snap \in {NoRow, proc[p].snap} /\ proc'[p].snap.grant \in {0, proc[p].snap.grant}
             /\ proc'[p].pc \in {"rotate", "post", "record"} => proc'[p] = proc[p]
             /\ Settles(p)
  <2>1. Settles(p)
    BY <1>1
  <2>2. QED  BY <2>1, NoRowFacts DEF Settles, Quiet
<1>2. Typed'
  BY <1>1 DEF Typed, SameRow, BudgetsGoOn, Busy, fixed
<1>3. Issued'
  <2>1. \A p \in Callers : proc'[p].snap.grant <= used.grants
    BY <1>1, Fields DEF Issued
  <2>2. QED  BY <2>1 DEF Issued, SameRow, BudgetsGoOn
<1>4. Waiting'
  <2>1. link.pc \in {"pending", "site", "previous", "store"} =>
          link.grant # 0 /\ \A p \in Callers : proc'[p].snap.grant # link.grant
    <3>1. link.pc \in {"pending", "site", "previous", "store"} => link.grant # 0
      BY DEF Typed, Grants
    <3>2. QED  BY <3>1, <1>1 DEF Waiting
  <2>2. QED  BY <2>1 DEF Waiting, SameRow
<1>5. Owned' /\ Received' /\ OneSpender'
  BY <1>1 DEF Owned, Received, OneSpender, SameRow, Busy
<1>6. Held'
  BY <1>1 DEF Held, SameRow, Busy
<1>7. Unmoved'
  BY <1>1 DEF Unmoved, SameRow, Exists
<1>8. TurnedDown'
  BY DEF TurnedDown, SameRow
<1>9. NewestTokenKept'
  <2>. SUFFICES ASSUME row # NoRow, row.serial # 0, row.serial # live[row.grant],
                       row.grant \notin excused'
                PROVE  \E p \in Callers : /\ proc'[p].pc = "record" /\ row.claim = p
                                          /\ proc'[p].snap.grant = row.grant
                                          /\ proc'[p].got = live[row.grant]
    BY DEF NewestTokenKept, SameRow, Exists
  <2>1. PICK p \in Callers : /\ proc[p].pc = "record" /\ row.claim = p
                             /\ proc[p].snap.grant = row.grant /\ proc[p].got = live[row.grant]
    BY DEF NewestTokenKept, Exists
  <2>2. proc'[p] = proc[p]
    BY <2>1, <1>1 DEF Settles
  <2>3. QED  BY <2>1, <2>2
<1>10. Decided
  <2>1. row'.grant = row.grant
    BY DEF SameRow
  <2>2. QED  BY <1>8, <2>1 DEF Decided, TurnedDown
<1>11. QED  BY <1>2, <1>3, <1>4, <1>5, <1>6, <1>7, <1>8, <1>9, <1>10

\* One caller moves; the others are as they were.
LEMMA OneMoves ==
  ASSUME Typed, NEW p \in Callers, NEW c \in Caller, Becomes(p, c)
  PROVE  /\ proc' \in [Callers -> Caller] /\ proc'[p] = c
         /\ \A q \in Callers : q # p => proc'[q] = proc[q]
BY DEF Typed, Becomes

LEMMA SpendFacts ==
  ASSUME Typed, NEW what \in {"expiries", "faults"}, Spend(what)
  PROVE  BudgetsGoOn
BY DEF Typed, Spend, BudgetsGoOn

LEMMA NothingSpent ==
  ASSUME Typed, UNCHANGED used
  PROVE  BudgetsGoOn
BY DEF Typed, BudgetsGoOn

LEMMA RowStays ==
  ASSUME Typed, UNCHANGED row
  PROVE  SameRow
BY DEF Typed, SameRow

LEMMA RestStep ==
  ASSUME VaultInv, NEW p \in Callers, NEW c \in Caller, Becomes(p, c), Quiet(c), c.snap = NoRow,
         UNCHANGED <<fixed, site, live, link, refused>>, SameRow, BudgetsGoOn,
         primary' \in [Callers -> Nat], excused \subseteq excused',
         proc[p].pc = "record" /\ row.claim = p => row.grant \in excused'
  PROVE  VaultInv' /\ Decided
<1>1. Typed
  BY DEF VaultInv
<1>2. proc' \in [Callers -> Caller] /\ \A q \in Callers : Settles(q)
  BY <1>1, OneMoves DEF Settles
<1>3. QED  BY <1>2, CallersSettle

-----------------------------------------------------------------------------
(***************************************************************************)
(* Steps after which callers, row and flow are as they were, but for a     *)
(* caller that comes to rest.                                              *)
(***************************************************************************)
LEMMA AskForTokenStep ==
  ASSUME VaultInv, NEW p \in Callers, AskForToken(p)
  PROVE  VaultInv' /\ Decided
<1> DEFINE c == [Resting EXCEPT !.pc = "open"]
<1>1. Typed /\ SameRow /\ BudgetsGoOn /\ primary' \in [Callers -> Nat] /\ proc[p].pc = "idle"
  BY RowStays, NothingSpent DEF VaultInv, Typed, AskForToken, FreeCaller, world
<1>2. c \in Caller /\ Quiet(c) /\ c.snap = NoRow
  BY RestingFacts DEF Caller, Quiet
<1>3. QED
  BY <1>1, <1>2, RestStep DEF AskForToken, world

LEMMA RewrapAllStep ==
  ASSUME VaultInv, NEW p \in Callers, RewrapAll(p)
  PROVE  VaultInv' /\ Decided
<1> DEFINE c == [Resting EXCEPT !.pc = "open", !.goal = "rewrap"]
<1>1. Typed /\ SameRow /\ BudgetsGoOn /\ primary' \in [Callers -> Nat] /\ proc[p].pc = "idle"
  BY RowStays, NothingSpent DEF VaultInv, Typed, RewrapAll, FreeCaller, world
<1>2. c \in Caller /\ Quiet(c) /\ c.snap = NoRow
  BY RestingFacts DEF Caller, Quiet
<1>3. QED
  BY <1>1, <1>2, RestStep DEF RewrapAll, world

LEMMA CrashStep ==
  ASSUME VaultInv, NEW p \in Callers, Crash(p)
  PROVE  VaultInv' /\ Decided
<1>1. Typed /\ SameRow /\ BudgetsGoOn /\ primary' \in [Callers -> Nat]
  BY RowStays, SpendFacts DEF VaultInv, Typed, Crash
<1>2. proc[p].pc = "record" /\ row.claim = p => row.grant \in excused'
  BY DEF VaultInv, Owned, Busy, Crash, LostWith
<1>3. Resting \in Caller /\ Quiet(Resting) /\ Resting.snap = NoRow
  BY RestingFacts DEF Quiet
<1>4. QED
  BY <1>1, <1>2, <1>3, RestStep DEF Crash, Fails

LEMMA RotateKeyStep ==
  ASSUME VaultInv, NEW p \in Callers, RotateKey(p)
  PROVE  VaultInv' /\ Decided
<1>1. Typed /\ SameRow /\ BudgetsGoOn
  BY RowStays, NothingSpent DEF VaultInv, RotateKey
<1>2. primary' \in [Callers -> Nat]
  BY <1>1 DEF Typed, RotateKey
<1>3. proc[p].pc = "record" /\ row.claim = p => row.grant \in excused'
  BY DEF VaultInv, Owned, Busy, RotateKey, LostWith
<1>4. Resting \in Caller /\ Quiet(Resting) /\ Resting.snap = NoRow
  BY RestingFacts DEF Quiet
<1>5. QED
  BY <1>1, <1>2, <1>3, <1>4, RestStep DEF RotateKey, Fails

LEMMA UserStep ==
  ASSUME VaultInv, DisableUser \/ EnableUser
  PROVE  VaultInv' /\ Decided
<1>1. UNCHANGED <<fixed, site, row, primary, proc, link, world>>
  BY DEF DisableUser, EnableUser
<1>2. Typed /\ SameRow /\ BudgetsGoOn /\ primary' \in [Callers -> Nat]
      /\ proc' \in [Callers -> Caller] /\ \A q \in Callers : Settles(q)
  BY <1>1, RowStays, NothingSpent DEF VaultInv, Typed, Settles, world
<1>3. QED  BY <1>1, <1>2, CallersSettle DEF world

\* A fresh token runs out, or is marked as run out.
LEMMA Stale ==
  ASSUME Typed, row # NoRow, row' = [row EXCEPT !.fresh = FALSE]
  PROVE  SameRow
<1>1. row \in FullRow
  BY DEF Typed
<1>2. row' \in FullRow
  BY <1>1 DEF FullRow
<1>3. QED  BY <1>1, <1>2, NoRowFacts DEF SameRow, FullRow

LEMMA AccessExpiresStep ==
  ASSUME VaultInv, AccessExpires
  PROVE  VaultInv' /\ Decided
<1>1. Typed /\ SameRow /\ BudgetsGoOn /\ primary' \in [Callers -> Nat]
      /\ proc' \in [Callers -> Caller] /\ \A q \in Callers : Settles(q)
  BY Stale, SpendFacts DEF VaultInv, Typed, Settles, AccessExpires, Exists
<1>2. QED  BY <1>1, CallersSettle DEF AccessExpires

LEMMA CallProviderStep ==
  ASSUME VaultInv, NEW p \in Callers, NEW results, CallProvider(p, results),
         proc[p].pc = "use",
         UNCHANGED <<fixed, enabled, site, linked, primary, link, live, excused, refused>>
  PROVE  VaultInv' /\ Decided
<1> DEFINE again == [Resting EXCEPT !.pc = "open", !.retried = TRUE]
<1>1. Typed /\ primary' \in [Callers -> Nat]
  BY DEF VaultInv, Typed
<1>2. /\ Resting \in Caller /\ Quiet(Resting) /\ Resting.snap = NoRow
      /\ again \in Caller /\ Quiet(again) /\ again.snap = NoRow
  BY RestingFacts DEF Quiet, Caller
<1>3. BudgetsGoOn
  BY <1>1, SpendFacts, NothingSpent DEF CallProvider
<1>4. SameRow
  BY <1>1, RowStays, Stale
  DEF CallProvider, expire_integration_access, expire_user_integration_access, Exists
<1>5. Becomes(p, Resting) \/ Becomes(p, again)
  BY DEF CallProvider, Fails
<1>6. QED
  BY <1>1, <1>2, <1>3, <1>4, <1>5, RestStep

LEMMA UseTokenStep ==
  ASSUME VaultInv, NEW p \in Callers, UseToken(p)
  PROVE  VaultInv' /\ Decided
<1>1. /\ proc[p].pc = "use"
      /\ UNCHANGED <<fixed, enabled, site, linked, primary, link, live, excused, refused>>
  BY DEF UseToken
<1>2. \/ \E results : CallProvider(p, results)
      \/ Fails(p) /\ UNCHANGED <<row, used>>
  <2>1. CASE JiraApiRequest(p)
    BY <2>1 DEF JiraApiRequest
  <2>2. CASE JiraUserApiRequest(p)
    BY <2>2 DEF JiraUserApiRequest
  <2>3. CASE AsanaApiUrlRequest(p)
    BY <2>3 DEF AsanaApiUrlRequest
  <2>4. CASE AsanaUserApiRequest(p)
    BY <2>4 DEF AsanaUserApiRequest
  <2>5. CASE SlackWorkspaceCall(p)
    BY <2>5 DEF SlackWorkspaceCall
  <2>6. QED  BY <2>1, <2>2, <2>3, <2>4, <2>5 DEF UseToken
<1>3. CASE \E results : CallProvider(p, results)
  BY <1>1, <1>3, CallProviderStep
<1>4. CASE Fails(p) /\ UNCHANGED <<row, used>>
  <2>1. Typed /\ SameRow /\ BudgetsGoOn /\ primary' \in [Callers -> Nat]
    BY <1>1, <1>4, RowStays, NothingSpent DEF VaultInv, Typed
  <2>2. Resting \in Caller /\ Quiet(Resting) /\ Resting.snap = NoRow
    BY RestingFacts DEF Quiet
  <2>3. QED  BY <1>1, <1>4, <2>1, <2>2, RestStep DEF Fails
<1>5. QED  BY <1>2, <1>3, <1>4

\* The row is read to be rewrapped: the snapshot is the row.
LEMMA ReadForRewrap ==
  ASSUME VaultInv, NEW p \in Callers, row # NoRow, proc[p].pc = "open",
         Becomes(p, [proc[p] EXCEPT !.pc = "rotate", !.snap = row]),
         UNCHANGED <<fixed, site, row, primary, link, world>>
  PROVE  VaultInv' /\ Decided
<1>. USE DEF VaultInv, world
<1> DEFINE c == [proc[p] EXCEPT !.pc = "rotate", !.snap = row]
<1>1. row \in FullRow /\ proc[p] \in Caller
  BY Fields
<1>2. c \in Caller /\ c.pc = "rotate" /\ c.snap = row
  BY <1>1 DEF Caller
<1> HIDE DEF c
<1>3. /\ proc' \in [Callers -> Caller] /\ proc'[p] = c
      /\ \A q \in Callers : q # p => proc'[q] = proc[q]
  BY <1>2, OneMoves DEF c
<1>4. Typed'
  BY <1>1, <1>2, <1>3 DEF Typed, Busy, fixed
<1>5. Issued' /\ Waiting'
  BY <1>2, <1>3 DEF Issued, Waiting
<1>6. Owned' /\ Held' /\ Received' /\ OneSpender'
  BY <1>2, <1>3 DEF Owned, Held, Received, OneSpender, Busy
<1>7. Unmoved'
  BY <1>2, <1>3, Fields DEF Unmoved, Exists
<1>8. TurnedDown' /\ Decided
  BY DEF TurnedDown, Decided
<1>9. NewestTokenKept'
  <2>. SUFFICES ASSUME row # NoRow, row.serial # 0, row.serial # live[row.grant],
                       row.grant \notin excused
                PROVE  \E q \in Callers : /\ proc'[q].pc = "record" /\ row.claim = q
                                          /\ proc'[q].snap.grant = row.grant
                                          /\ proc'[q].got = live[row.grant]
    BY DEF NewestTokenKept, Exists
  <2>1. PICK q \in Callers : /\ proc[q].pc = "record" /\ row.claim = q
                             /\ proc[q].snap.grant = row.grant /\ proc[q].got = live[row.grant]
    BY DEF NewestTokenKept, Exists
  <2>2. QED  BY <2>1, <1>3
<1>10. QED  BY <1>4, <1>5, <1>6, <1>7, <1>8, <1>9

LEMMA OpenReadStep ==
  ASSUME VaultInv, NEW p \in Callers, OpenRead(p)
  PROVE  VaultInv' /\ Decided
<1>1. /\ proc[p].pc = "open"
      /\ UNCHANGED <<fixed, enabled, site, linked, row, primary, link, world>>
  BY DEF OpenRead
<1>2. /\ Typed /\ SameRow /\ BudgetsGoOn /\ primary' \in [Callers -> Nat]
      /\ provider \in {"jira", "asana", "slack"} /\ row.rev \in Nat /\ proc[p] \in Caller
      /\ row.key \in Nat /\ primary[p] \in Nat
  BY <1>1, RowStays, NothingSpent, Fields, NoRowFacts DEF VaultInv, Typed, world, FullRow
<1>3. CASE ~Exists \/ Undecryptable(p)
  <2>1. Becomes(p, Resting)
    BY <1>2, <1>3 DEF OpenRead, Undecryptable
  <2>2. Resting \in Caller /\ Quiet(Resting) /\ Resting.snap = NoRow
    BY RestingFacts DEF Quiet
  <2>3. QED  BY <1>1, <1>2, <2>1, <2>2, RestStep DEF world
<1>4. CASE Exists /\ row.key = primary[p]
  <2>1. Becomes(p, AfterOpen(proc[p], row))
    BY <1>2, <1>4 DEF OpenRead, Undecryptable
  <2>2. /\ AfterOpen(proc[p], row) \in Caller /\ Quiet(AfterOpen(proc[p], row))
        /\ AfterOpen(proc[p], row).snap = NoRow
    BY <1>2, AfterOpenIsQuiet DEF Quiet
  <2>3. QED  BY <1>1, <1>2, <2>1, <2>2, RestStep DEF world
<1>5. CASE Exists /\ row.key < primary[p]
  <2>1. Becomes(p, [proc[p] EXCEPT !.pc = "rotate", !.snap = row])
    BY <1>2, <1>5 DEF OpenRead, Undecryptable
  <2>2. QED  BY <1>1, <1>5, <2>1, ReadForRewrap DEF Exists
<1>6. QED  BY <1>2, <1>3, <1>4, <1>5 DEF Undecryptable

-----------------------------------------------------------------------------
(***************************************************************************)
(* Steps of the refresh.                                                   *)
(***************************************************************************)

\* The snapshot is sealed again under the primary key.
LEMMA RotateWrites ==
  ASSUME VaultInv, NEW p \in Callers, proc[p].pc = "rotate", MayRotate(proc[p].snap),
         row' = Rewrapped(proc[p].snap, primary[p]),
         Becomes(p, AfterOpen(proc[p], [proc[p].snap EXCEPT !.rev = @ + 1])),
         UNCHANGED <<fixed, site, primary, link, world>>
  PROVE  VaultInv' /\ Decided
<1>. USE DEF VaultInv, world
<1> DEFINE s == proc[p].snap
          c == AfterOpen(proc[p], [s EXCEPT !.rev = @ + 1])
<1>1. /\ row # NoRow /\ row.rev = s.rev /\ row.claim = Nobody
      /\ row \in FullRow /\ s \in FullRow /\ proc[p] \in Caller /\ primary[p] \in Nat
      /\ s.rev \in Nat /\ s.rev > 0
  BY Fields DEF MayRotate, rotate_integration_credentials, rotate_user_integration_credentials,
                Exists, Typed
<1>2. /\ row' \in FullRow /\ row'.grant = s.grant /\ row'.serial = s.serial
      /\ row'.rev = s.rev + 1 /\ row'.claim = Nobody
  <2>1. s.rev + 1 \in Nat \ {0} /\ s.grant \in Grants /\ s.serial \in Nat
    BY <1>1 DEF FullRow
  <2>2. row' = [row EXCEPT !.grant = s.grant, !.serial = s.serial,
                           !.key = primary[p], !.rev = s.rev + 1]
    BY DEF Rewrapped
  <2>3. QED  BY <1>1, <2>1, <2>2, Zenon DEF FullRow
<1>3. row' # NoRow /\ row'.rev > row.rev
  BY <1>1, <1>2, NoRowFacts
<1>4. c \in Caller /\ Quiet(c) /\ c.snap = NoRow
  <2>1. [s EXCEPT !.rev = @ + 1].rev \in Nat
    BY <1>1 DEF FullRow
  <2>2. QED  BY <1>1, <2>1, AfterOpenIsQuiet DEF Typed, Quiet
<1>5. Becomes(p, c)
  OBVIOUS
<1> HIDE DEF c
<1>6. /\ proc' \in [Callers -> Caller] /\ proc'[p] = c
      /\ \A q \in Callers : q # p => proc'[q] = proc[q]
  BY <1>4, <1>5, OneMoves
\* Either the rewrap puts back what the row holds, or its grant is excused.
<1>7. s.grant \in excused \/ (row.grant = s.grant /\ row.serial = s.serial)
  BY <1>1 DEF Unmoved
<1>8. s.grant <= used.grants /\ s.grant # 0
  BY <1>1 DEF Issued, FullRow, Grants
<1> HIDE DEF s
<1>9. \A q \in Callers : /\ (Quiet(proc'[q]) /\ proc'[q].snap = NoRow) \/ proc'[q] = proc[q]
                         /\ proc'[q].pc \in {"rotate", "post", "record"} => proc'[q] = proc[q]
  BY <1>4, <1>6 DEF Quiet
<1>10. Typed'
  BY <1>2, <1>6, <1>9 DEF Typed, Busy, fixed
<1>11. Issued'
  <2>1. \A q \in Callers : proc'[q].snap.grant <= used.grants
    BY <1>9, NoRowFacts, Fields DEF Issued
  <2>2. QED  BY <2>1, <1>2, <1>8 DEF Issued
<1>12. Waiting'
  <2>1. link.pc \in {"pending", "site", "previous", "store"} => link.grant # 0
    BY DEF Typed, Grants
  <2>2. link.pc \in {"pending", "site", "previous", "store"} => link.grant # s.grant
    BY DEF Waiting, s
  <2>3. QED  BY <2>1, <2>2, <1>2, <1>9, NoRowFacts DEF Waiting
<1>13. Owned' /\ Received' /\ OneSpender'
  BY <1>2, <1>9, NoRowFacts DEF Owned, Received, OneSpender, Busy
<1>14. Held'
  <2>1. ASSUME NEW q \in Callers, Busy(q), s.grant = proc[q].snap.grant
        PROVE  s.grant \in excused
    BY <2>1, <1>1, <1>7, NoRowFacts DEF Held
  <2>2. QED  BY <2>1, <1>2, <1>9 DEF Held, Busy
<1>15. Unmoved'
  <2>1. ASSUME NEW q \in Callers, proc[q].pc = "rotate", proc[q].snap.grant \notin excused
        PROVE  row'.rev > proc[q].snap.rev
    BY <2>1, <1>3, <1>2, <1>1, Fields DEF Unmoved
  <2>2. QED  BY <2>1, <1>2, <1>3, <1>1, <1>9, Fields DEF Unmoved, Exists
<1>16. TurnedDown' /\ Decided
  BY <1>2, <1>7 DEF TurnedDown, Decided
<1>17. NewestTokenKept'
  <2>1. s.grant \notin excused /\ s.serial # 0 => s.serial = live[s.grant]
    BY <1>1, <1>7, NoRowFacts DEF NewestTokenKept, Exists
  <2>2. QED  BY <2>1, <1>2 DEF NewestTokenKept, Exists
<1>18. QED  BY <1>10, <1>11, <1>12, <1>13, <1>14, <1>15, <1>16, <1>17

LEMMA OpenRotateStep ==
  ASSUME VaultInv, NEW p \in Callers, OpenRotate(p)
  PROVE  VaultInv' /\ Decided
<1>1. /\ proc[p].pc = "rotate"
      /\ UNCHANGED <<fixed, enabled, site, linked, primary, link, world>>
  BY DEF OpenRotate
<1>2. CASE MayRotate(proc[p].snap)
  BY <1>1, <1>2, RotateWrites DEF OpenRotate
<1>3. CASE ~MayRotate(proc[p].snap)
  <2> DEFINE c == [proc[p] EXCEPT !.pc = "open", !.tries = @ + 1, !.snap = NoRow]
  <2>1. /\ Typed /\ SameRow /\ BudgetsGoOn /\ primary' \in [Callers -> Nat]
        /\ proc[p] \in Caller
    BY <1>1, <1>3, RowStays, NothingSpent, Fields DEF VaultInv, Typed, world, OpenRotate
  <2>2. c \in Caller /\ Quiet(c) /\ c.snap = NoRow
    <3>1. proc[p].tries + 1 \in Nat
      BY <2>1 DEF Caller
    <3>2. c \in Caller /\ c.pc = "open" /\ c.snap = NoRow
      BY <2>1, <3>1, Zenon DEF Caller
    <3>3. QED  BY <3>2 DEF Quiet
  <2>3. Resting \in Caller /\ Quiet(Resting) /\ Resting.snap = NoRow
    BY RestingFacts DEF Quiet
  <2>4. Becomes(p, Resting) \/ Becomes(p, c)
    BY <1>3 DEF OpenRotate
  <2> HIDE DEF c
  <2>5. QED  BY <1>1, <2>1, <2>2, <2>3, <2>4, RestStep DEF world
<1>4. QED  BY <1>2, <1>3

\* A granted claim; a row the caller cannot decrypt is to be given back.
LEMMA ClaimGranted ==
  ASSUME VaultInv, NEW p \in Callers, proc[p].pc = "claim", row # NoRow, ClaimFree,
         row' = [row EXCEPT !.claim = p, !.lapsed = FALSE],
         NEW c \in Caller, Becomes(p, c),
         (c.pc = "release" /\ c.snap = NoRow) \/ (c.pc = "post" /\ c.snap = row'),
         UNCHANGED <<fixed, site, primary, link, world>>
  PROVE  VaultInv' /\ Decided
<1>. USE DEF VaultInv, world
<1>1. /\ proc' \in [Callers -> Caller] /\ proc'[p] = c
      /\ \A q \in Callers : q # p => proc'[q] = proc[q]
  BY OneMoves
<1>2. /\ row \in FullRow /\ row' \in FullRow /\ row'.grant = row.grant /\ row'.serial = row.serial
      /\ row'.rev = row.rev /\ row'.claim = p /\ ~row'.lapsed /\ row' # NoRow
  <2>1. row \in FullRow
    BY Fields
  <2>2. /\ row' \in FullRow /\ row'.grant = row.grant /\ row'.serial = row.serial
        /\ row'.rev = row.rev /\ row'.claim = p /\ ~row'.lapsed
    BY <2>1 DEF FullRow
  <2>3. QED  BY <2>1, <2>2, NoRowFacts
\* Whoever else is busy with this grant has outlived its lease.
<1>3. \A q \in Callers : Busy(q) /\ proc[q].snap.grant = row.grant => row.grant \in excused
  BY <1>2, NoRowFacts DEF Held, ClaimFree
<1>4. Typed'
  BY <1>1, <1>2 DEF Typed, Busy, fixed
<1>14. /\ c.snap.grant \in {0, row.grant}
       /\ c.pc \in {"rotate", "post", "record"} => c.pc = "post" /\ c.snap.grant = row.grant
  BY <1>2, NoRowFacts
<1>5. Issued'
  <2>1. c.snap.grant <= used.grants
    BY <1>14, Fields DEF Issued
  <2>2. QED  BY <1>1, <1>2, <2>1 DEF Issued
<1>6. Waiting'
  <2>1. link.pc \in {"pending", "site", "previous", "store"} => link.grant # 0
    BY DEF Typed, Grants
  <2>2. QED  BY <2>1, <1>1, <1>2, <1>14 DEF Waiting
<1>7. Owned'
  BY <1>1, <1>2 DEF Owned, Busy
<1>8. Held'
  BY <1>1, <1>2, <1>3 DEF Held, Busy
<1>9. Unmoved'
  BY <1>1, <1>2 DEF Unmoved, Exists
<1>10. Received' /\ TurnedDown' /\ Decided
  BY <1>1, <1>2 DEF Received, TurnedDown, Decided
<1>11. OneSpender'
  <2>1. ASSUME NEW q \in Callers, q # p, proc'[q].pc \in {"post", "record"},
               proc'[p].pc \in {"post", "record"}, proc'[q].snap.grant = proc'[p].snap.grant
        PROVE  proc'[q].snap.grant \in excused'
    BY <2>1, <1>1, <1>3, <1>14 DEF Busy
  <2>2. QED  BY <2>1, <1>1 DEF OneSpender
<1>12. NewestTokenKept'
  BY <1>2, <1>3 DEF NewestTokenKept, Exists, Busy
<1>13. QED
  BY <1>4, <1>5, <1>6, <1>7, <1>8, <1>9, <1>10, <1>11, <1>12

LEMMA ClaimForRefreshStep ==
  ASSUME VaultInv, NEW p \in Callers, ClaimForRefresh(p)
  PROVE  VaultInv' /\ Decided
<1> DEFINE granted == claim_integration_credentials \/ claim_user_integration_credentials
<1>1. /\ proc[p].pc = "claim" /\ Typed /\ proc[p] \in Caller
      /\ UNCHANGED <<fixed, enabled, site, linked, primary, link, world>>
  BY Fields DEF VaultInv, ClaimForRefresh
<1>2. CASE granted
  <2> DEFINE post == [proc[p] EXCEPT !.pc = "post", !.snap = row', !.base = 0]
             back == [Resting EXCEPT !.pc = "release"]
  <2>1. row # NoRow /\ ClaimFree /\ row' = [row EXCEPT !.claim = p, !.lapsed = FALSE]
    BY <1>2 DEF ClaimForRefresh, claim_integration_credentials,
                claim_user_integration_credentials, Exists
  <2>2. row' \in FullRow
    <3>1. row \in FullRow
      BY <2>1, <1>1, Fields
    <3>2. QED  BY <2>1, <3>1 DEF FullRow
  <2>3. post \in Caller /\ post.pc = "post" /\ post.snap = row'
    BY <1>1, <2>2 DEF Caller
  <2>4. back \in Caller /\ back.pc = "release" /\ back.snap = NoRow
    BY RestingFacts DEF Caller
  <2>5. Becomes(p, post) \/ Becomes(p, back)
    BY <1>2 DEF ClaimForRefresh
  <2> HIDE DEF post, back
  <2>6. QED  BY <1>1, <2>1, <2>3, <2>4, <2>5, ClaimGranted
<1>3. CASE ~granted
  <2> DEFINE c == [proc[p] EXCEPT !.pc = "open", !.goal = "poll", !.tries = 0]
  <2>1. c \in Caller /\ c.pc = "open" /\ c.snap = proc[p].snap
    BY <1>1 DEF Caller
  <2>2. Becomes(p, c) /\ UNCHANGED row
    BY <1>3 DEF ClaimForRefresh
  <2> HIDE DEF c
  <2>3. proc' \in [Callers -> Caller] /\ \A q \in Callers : Settles(q)
    BY <1>1, <2>1, <2>2, OneMoves DEF Settles, Quiet
  <2>4. SameRow /\ BudgetsGoOn /\ primary' \in [Callers -> Nat]
    BY <1>1, <2>2, RowStays, NothingSpent DEF Typed, world
  <2>5. QED  BY <1>1, <2>3, <2>4, CallersSettle DEF world
<1>4. QED  BY <1>2, <1>3

\* The provider answered: it may have replaced the token of grant g, and the
\* caller has the newest one, or nothing and a lost one is excused.
LEMMA AnswerStep ==
  ASSUME VaultInv, NEW p \in Callers, proc[p].pc = "post", NEW g, g = proc[p].snap.grant,
         live' \in [Grants -> Nat], \A h \in Grants : h # g => live'[h] = live[h],
         excused \subseteq excused', BudgetsGoOn,
         NEW c \in Caller, Becomes(p, c),
         \/ c.pc = "release" /\ c.snap = NoRow /\ (live' = live \/ g \in excused')
         \/ c.pc = "record" /\ c.snap = proc[p].snap /\ c.got = live'[g],
         UNCHANGED <<fixed, site, row, primary, link, refused>>
  PROVE  VaultInv' /\ Decided
<1>. USE DEF VaultInv
<1>1. /\ proc' \in [Callers -> Caller] /\ proc'[p] = c
      /\ \A q \in Callers : q # p => proc'[q] = proc[q]
  BY OneMoves
<1>2. Busy(p) /\ g \in Grants /\ proc[p].snap \in FullRow
  BY Fields DEF Busy
<1>3. Typed'
  BY <1>1, <1>2 DEF Typed, BudgetsGoOn, Busy, fixed
<1>4. Issued'
  BY <1>1, NoRowFacts, Fields DEF Issued, BudgetsGoOn
<1>5. Waiting'
  <2>1. link.pc \in {"pending", "site", "previous", "store"} => link.grant # 0 /\ link.grant \in Grants
    BY DEF Typed, Grants
  <2>2. link.pc \in {"pending", "site", "previous", "store"} => live'[link.grant] = live[link.grant]
    BY <2>1 DEF Waiting
  <2>3. QED  BY <2>1, <2>2, <1>1, NoRowFacts DEF Waiting
<1>6. Owned' /\ Held' /\ Unmoved'
  BY <1>1, <1>2 DEF Owned, Held, Unmoved, Busy, Exists
<1>7. OneSpender'
  BY <1>1, <1>2 DEF OneSpender, Busy
<1>8. Received'
  <2>1. ASSUME NEW q \in Callers, q # p, proc[q].pc = "record", proc[q].snap.grant = g
        PROVE  g \in excused'
    BY <2>1, <1>2 DEF OneSpender, Busy
  <2>2. ASSUME NEW q \in Callers, q # p, proc[q].pc = "record", proc[q].snap.grant # g
        PROVE  live'[proc[q].snap.grant] = live[proc[q].snap.grant]
    BY <2>2, Fields
  <2>3. QED  BY <2>1, <2>2, <1>1 DEF Received
<1>9. TurnedDown' /\ Decided
  BY DEF TurnedDown, Decided
<1>10. NewestTokenKept'
  <2>. SUFFICES ASSUME row # NoRow, row.serial # 0, row.serial # live'[row.grant],
                       row.grant \notin excused'
                PROVE  \E q \in Callers : /\ proc'[q].pc = "record" /\ row.claim = q
                                          /\ proc'[q].snap.grant = row.grant
                                          /\ proc'[q].got = live'[row.grant]
    BY DEF NewestTokenKept, Exists
  <2>1. row.grant \in Grants
    BY Fields
  <2>2. CASE row.grant = g
    <3>1. row.claim = p
      BY <2>2, <1>2 DEF Held
    <3>2. row.serial = live[g]
      BY <2>2, <3>1 DEF NewestTokenKept, Exists
    <3>3. c.pc = "record"
      BY <3>2, <2>2
    <3>4. QED  BY <3>1, <3>3, <1>1, <2>2
  <2>3. CASE row.grant # g
    <3>1. live'[row.grant] = live[row.grant]
      BY <2>1, <2>3
    <3>2. PICK q \in Callers : /\ proc[q].pc = "record" /\ row.claim = q
                               /\ proc[q].snap.grant = row.grant /\ proc[q].got = live[row.grant]
      BY <3>1 DEF NewestTokenKept, Exists
    <3>3. QED  BY <3>1, <3>2, <1>1, <2>3
  <2>4. QED  BY <2>2, <2>3
<1>11. QED
  BY <1>3, <1>4, <1>5, <1>6, <1>7, <1>8, <1>9, <1>10

LEMMA RefreshStep ==
  ASSUME VaultInv, NEW p \in Callers, NEW ends, Refresh(p, ends)
  PROVE  VaultInv' /\ Decided
<1>1. PICK g : g = proc[p].snap.grant
  OBVIOUS
<1>2. /\ proc[p].pc = "post" /\ Typed /\ proc[p] \in Caller
      /\ UNCHANGED <<fixed, enabled, site, linked, row, primary, link>>
  BY Fields DEF VaultInv, Refresh
<1>3. /\ g \in Grants /\ proc[p].snap \in FullRow /\ live \in [Grants -> Nat]
      /\ primary' \in [Callers -> Nat] /\ SameRow /\ proc[p].snap.serial \in Nat
  BY <1>1, <1>2, Fields, RowStays DEF Typed
<1> DEFINE back == [Resting EXCEPT !.pc = "release"]
           kept(got) == [proc[p] EXCEPT !.pc = "record", !.got = got]
<1>4. back \in Caller /\ back.pc = "release" /\ back.snap = NoRow
  BY RestingFacts DEF Caller
<1>5. ASSUME NEW got \in Nat
      PROVE  kept(got) \in Caller /\ kept(got).pc = "record" /\ kept(got).got = got
             /\ kept(got).snap = proc[p].snap
  BY <1>2, <1>5 DEF Caller
<1>6. ASSUME NEW got PROVE Answered(p, got) => Becomes(p, IF got = 0 THEN back ELSE kept(got))
  BY DEF Answered
<1> HIDE DEF back, kept
<1>7. CASE Answered(p, 0) /\ UNCHANGED world
  <2>1. Becomes(p, back)
    BY <1>6, <1>7
  <2>2. BudgetsGoOn
    BY <1>2, <1>7, NothingSpent DEF world
  <2>3. QED  BY <1>2, <1>3, <1>4, <1>7, <2>1, <2>2, RestStep DEF Quiet, world
<1>8. ASSUME NEW e \in ends, NEW kind,
             proc[p].snap.serial # 0, proc[p].snap.serial = live[g],
             live' = [live EXCEPT ![g] = IF e.acted = 1 /\ kind = "new" THEN @ + 1 ELSE @],
             Answered(p, IF e.result = "ok" THEN live'[g] ELSE 0),
             IF e.result = "ok" THEN UNCHANGED used ELSE Spend("faults"),
             excused' = IF e.acted = 1 /\ e.result # "ok" THEN excused \cup {g} ELSE excused,
             UNCHANGED refused
      PROVE  VaultInv' /\ Decided
  <2>1. /\ live' \in [Grants -> Nat] /\ \A h \in Grants : h # g => live'[h] = live[h]
        /\ live'[g] \in Nat /\ live'[g] # 0
    <3>1. live[g] \in Nat /\ live[g] + 1 \in Nat /\ live[g] # 0 /\ live[g] + 1 # 0
      BY <1>3, <1>8
    <3>2. QED  BY <1>3, <1>8, <3>1
  <2>2. excused \subseteq excused' /\ BudgetsGoOn
    BY <1>2, <1>8, SpendFacts, NothingSpent
  <2>3. CASE e.result = "ok"
    <3>1. Becomes(p, kept(live'[g]))
      BY <1>6, <1>8, <2>1, <2>3
    <3>2. QED  BY <1>1, <1>2, <1>3, <1>5, <1>8, <2>1, <2>2, <3>1, AnswerStep
  <2>4. CASE e.result # "ok"
    <3>1. Becomes(p, back)
      BY <1>6, <1>8, <2>4
    <3>2. live' = live \/ g \in excused'
      <4>1. CASE e.acted = 1
        BY <4>1, <1>8, <2>4
      <4>2. CASE e.acted # 1
        BY <4>2, <1>3, <1>8
      <4>3. QED  BY <4>1, <4>2
    <3>3. QED  BY <1>1, <1>2, <1>3, <1>4, <1>8, <2>1, <2>2, <3>1, <3>2, AnswerStep
  <2>5. QED  BY <2>3, <2>4
<1>9. QED  BY <1>1, <1>7, <1>8 DEF Refresh

\* A sealed row with a higher revision takes the place of the row: a caller
\* busy with its grant is excused, and so is a token that is not the newest.
LEMMA SealStep ==
  ASSUME VaultInv, row' \in FullRow, row'.rev > row.rev, row'.claim = Nobody,
         NEW g, g = row'.grant, g <= used.grants,
         row'.serial = 0 \/ row'.serial = live[g] \/ g \in excused',
         excused \subseteq excused', proc' \in [Callers -> Caller],
         \A q \in Callers : proc'[q] = proc[q] \/ (Quiet(proc'[q]) /\ proc'[q].snap = NoRow),
         \A q \in Callers : /\ proc'[q].pc \in {"post", "record"} /\ proc'[q].snap.grant = g
                            => g \in excused',
         link' \in Flow, link'.pc # "idle" => link'.grant \in Grants,
         link'.grant \in {0, link.grant},
         link'.prev.grant <= used.grants,
         link'.pc \in {"pending", "site", "previous", "store"} =>
           /\ link.pc \in {"pending", "site", "previous", "store"}
           /\ link'.grant = link.grant /\ link'.serial = link.serial
           /\ g # link.grant /\ link'.prev.grant # link.grant,
         TurnedDown', UNCHANGED <<fixed, primary, live, refused, used>>,
         site' \in {"none", "off", "on"}
  PROVE  VaultInv'
<1>. USE DEF VaultInv
<1>1. \A q \in Callers : proc'[q].pc \in {"rotate", "post", "record"} => proc'[q] = proc[q]
  BY DEF Quiet
<1>2. row' # NoRow
  BY NoRowFacts
<1>3. Typed'
  BY <1>1 DEF Typed, Busy, fixed
<1>4. Issued'
  <2>1. \A q \in Callers : proc'[q].snap.grant <= used.grants
    BY NoRowFacts, Fields DEF Issued
  <2>2. link'.grant <= used.grants
    BY Fields DEF Issued
  <2>3. QED  BY <2>1, <2>2 DEF Issued
<1>5. Waiting'
  <2>. SUFFICES ASSUME link'.pc \in {"pending", "site", "previous", "store"}
                PROVE  /\ link'.serial = live'[link'.grant] /\ link'.grant \notin refused'
                       /\ row'.grant # link'.grant /\ link'.prev.grant # link'.grant
                       /\ \A q \in Callers : proc'[q].snap.grant # link'.grant
    BY DEF Waiting
  <2>1. link.grant # 0
    BY DEF Typed, Grants
  <2>2. QED  BY <2>1, NoRowFacts DEF Waiting
<1>6. Owned' /\ Received' /\ OneSpender'
  BY <1>1, NoRowFacts DEF Owned, Received, OneSpender, Busy
<1>7. Held'
  BY <1>1 DEF Held, Busy
<1>8. Unmoved'
  <2>1. ASSUME NEW q \in Callers, proc[q].pc = "rotate", proc[q].snap.grant \notin excused
        PROVE  row'.rev > proc[q].snap.rev
    <3>1. row.rev >= proc[q].snap.rev /\ row.rev \in Nat /\ proc[q].snap.rev \in Nat
      BY <2>1, Fields DEF Unmoved
    <3>2. row'.rev \in Nat
      BY DEF FullRow
    <3>3. QED  BY <3>1, <3>2
  <2>2. row'.rev \in Nat /\ \A q \in Callers : proc[q].snap.rev \in Nat
    BY Fields DEF FullRow
  <2>3. ASSUME NEW q \in Callers, proc'[q].pc = "rotate", proc'[q].snap.grant \notin excused'
        PROVE  row'.rev > proc'[q].snap.rev
    BY <1>1, <2>1, <2>3
  <2>4. QED  BY <1>1, <1>2, <2>2, <2>3 DEF Unmoved, Exists
<1>9. NewestTokenKept'
  BY DEF NewestTokenKept, Exists
<1>10. QED  BY <1>3, <1>4, <1>5, <1>6, <1>7, <1>8, <1>9

LEMMA SealedFacts ==
  ASSUME NEW g \in Grants, NEW s \in Nat, NEW r \in Nat, r > 0, NEW k \in Nat
  PROVE  /\ Sealed(g, s, r, k) \in FullRow /\ Sealed(g, s, r, k).grant = g
         /\ Sealed(g, s, r, k).serial = s /\ Sealed(g, s, r, k).rev = r
         /\ Sealed(g, s, r, k).claim = Nobody
BY DEF Sealed, FullRow

LEMMA ReplaceStep ==
  ASSUME VaultInv, NEW p \in Callers, ReplaceAfterRefresh(p)
  PROVE  VaultInv' /\ Decided
<1>1. PICK s : s = proc[p].snap
  OBVIOUS
<1>2. PICK g : g = s.grant
  OBVIOUS
<1> DEFINE wins == \/ replace_claimed_integration_credentials(p, s)
                   \/ replace_claimed_user_integration_credentials(p, s)
           back == [Resting EXCEPT !.pc = "release"]
<1>3. /\ proc[p].pc = "record" /\ Busy(p) /\ Typed /\ proc[p] \in Caller /\ proc[p].got \in Nat
      /\ s \in FullRow /\ g \in Grants /\ s.rev \in Nat /\ s.rev > 0 /\ primary[p] \in Nat
      /\ primary' \in [Callers -> Nat]
      /\ UNCHANGED <<fixed, enabled, site, linked, primary, link>>
  BY <1>1, <1>2, Fields DEF VaultInv, ReplaceAfterRefresh, Typed, Busy
\* While the claim is the caller's, the guarded write succeeds.
<1>4. wins <=> row.claim = p
  <2>1. row.claim = p => row # NoRow
    BY NoRowFacts
  <2>2. QED
    BY <1>1, <1>3, <2>1
    DEF replace_claimed_integration_credentials, replace_claimed_user_integration_credentials,
        VaultInv, Owned, Typed, Exists
<1>5. back \in Caller /\ Quiet(back) /\ back.snap = NoRow
  BY RestingFacts DEF Caller, Quiet
<1>6. CASE /\ wins /\ row' = Sealed(g, proc[p].got, s.rev + 1, primary[p])
           /\ Becomes(p, Using(proc[p])) /\ UNCHANGED world
  <2>1. /\ row' \in FullRow /\ row'.grant = g /\ row'.serial = proc[p].got
        /\ row'.rev = s.rev + 1 /\ row'.claim = Nobody
    <3>1. s.rev + 1 \in Nat /\ s.rev + 1 > 0
      BY <1>3
    <3>2. QED  BY <1>3, <1>6, <3>1, SealedFacts
  <2>2. row.rev = s.rev /\ row.grant = g /\ row.claim = p
    BY <1>1, <1>2, <1>3, <1>4, <1>6 DEF VaultInv, Owned
  <2>3. Using(proc[p]) \in Caller /\ Quiet(Using(proc[p])) /\ Using(proc[p]).snap = NoRow
    BY <1>3, RestingFacts DEF Using, Caller, Quiet
  <2>4. /\ proc' \in [Callers -> Caller] /\ proc'[p] = Using(proc[p])
        /\ \A q \in Callers : q # p => proc'[q] = proc[q]
    BY <1>3, <1>6, <2>3, OneMoves
  <2>5. \A q \in Callers : proc'[q].pc \in {"post", "record"} /\ proc'[q].snap.grant = g
                           => g \in excused'
    BY <1>1, <1>2, <1>3, <1>6, <2>3, <2>4 DEF VaultInv, OneSpender, Quiet, world
  <2>6. g <= used.grants /\ (row'.serial = live[g] \/ g \in excused')
    BY <1>1, <1>2, <1>3, <1>6, <2>1 DEF VaultInv, Issued, Received, world
  <2>7. TurnedDown' /\ Decided
    BY <1>3, <1>6, <2>1, <2>2 DEF VaultInv, TurnedDown, Decided, world
  <2>8. /\ link' \in Flow
        /\ link'.pc # "idle" => link'.grant \in Grants
        /\ link'.grant = link.grant /\ link'.prev.grant <= used.grants
    BY <1>3 DEF VaultInv, Typed, Issued
  <2>9. link.pc \in {"pending", "site", "previous", "store"} =>
          g # link.grant /\ link.prev.grant # link.grant
    BY <1>1, <1>2, <1>3 DEF VaultInv, Waiting
  <2>10. row'.rev > row.rev
    BY <2>1, <2>2, <1>3
  <2>11. /\ site' \in {"none", "off", "on"} /\ UNCHANGED <<live, refused, used>>
         /\ excused \subseteq excused'
    BY <1>3, <1>6 DEF Typed, world
  <2> HIDE DEF wins, back
  <2>12. VaultInv'
    <3>1. \A q \in Callers : proc'[q] = proc[q] \/ (Quiet(proc'[q]) /\ proc'[q].snap = NoRow)
      BY <2>3, <2>4
    <3>2. link'.pc \in {"pending", "site", "previous", "store"} =>
            /\ link.pc \in {"pending", "site", "previous", "store"}
            /\ link'.grant = link.grant /\ link'.serial = link.serial
            /\ g # link.grant /\ link'.prev.grant # link.grant
      BY <1>3, <2>9
    <3>3. UNCHANGED <<fixed, primary, live, refused, used>> /\ g = row'.grant
      BY <1>3, <2>1, <2>11
    <3>4. link'.grant \in {0, link.grant}
      BY <2>8
    <3> HIDE DEF VaultInv
    <3>5. QED
      BY <2>1, <2>4, <2>5, <2>6, <2>7, <2>8, <2>10, <2>11, <3>1, <3>2, <3>3, <3>4, SealStep
  <2>13. QED  BY <2>7, <2>12
<1>7. CASE /\ ~wins /\ Becomes(p, back) /\ UNCHANGED <<row, world>>
  <2>1. SameRow /\ BudgetsGoOn
    BY <1>3, <1>7, RowStays, NothingSpent DEF world
  <2>2. QED  BY <1>3, <1>4, <1>5, <1>7, <2>1, RestStep DEF world
<1>8. CASE /\ Spend("faults") /\ Becomes(p, back) /\ excused' = excused \cup {g}
           /\ UNCHANGED <<row, live, refused>>
  <2>1. SameRow /\ BudgetsGoOn
    BY <1>3, <1>8, RowStays, SpendFacts
  <2>2. row.claim = p => row.grant \in excused'
    BY <1>1, <1>2, <1>3, <1>8 DEF VaultInv, Owned
  <2>3. QED  BY <1>3, <1>5, <1>8, <2>1, <2>2, RestStep
<1>9. QED  BY <1>1, <1>2, <1>6, <1>7, <1>8 DEF ReplaceAfterRefresh

LEMMA ReleaseStep ==
  ASSUME VaultInv, NEW p \in Callers, ReleaseRefresh(p)
  PROVE  VaultInv' /\ Decided
<1> DEFINE mine == \/ release_integration_credential_claim(p)
                   \/ release_user_integration_credential_claim(p)
<1>1. /\ proc[p].pc = "release" /\ Becomes(p, Resting) /\ Typed
      /\ UNCHANGED <<fixed, enabled, site, linked, primary, link, live, excused, refused>>
      /\ primary' \in [Callers -> Nat]
  BY DEF ReleaseRefresh, Fails, VaultInv, Typed
<1>2. Resting \in Caller /\ Quiet(Resting) /\ Resting.snap = NoRow
  BY RestingFacts DEF Quiet
<1>3. BudgetsGoOn
  BY <1>1, SpendFacts, NothingSpent DEF ReleaseRefresh
<1>4. CASE UNCHANGED row
  <2>1. SameRow
    BY <1>1, <1>4, RowStays
  <2>2. QED  BY <1>1, <1>2, <1>3, <2>1, RestStep
<1>5. CASE mine /\ row' = [row EXCEPT !.claim = Nobody, !.lapsed = FALSE]
  <2>. USE DEF VaultInv
  <2>1. row.claim = p /\ row \in FullRow
    BY <1>1, <1>5, Fields DEF release_integration_credential_claim,
                              release_user_integration_credential_claim, Exists
  <2>2. /\ row' \in FullRow /\ row'.grant = row.grant /\ row'.serial = row.serial
        /\ row'.rev = row.rev /\ row'.claim = Nobody /\ row' # NoRow /\ row # NoRow
    <3>1. /\ row' \in FullRow /\ row'.grant = row.grant /\ row'.serial = row.serial
          /\ row'.rev = row.rev /\ row'.claim = Nobody
      BY <1>5, <2>1 DEF FullRow
    <3>2. QED  BY <2>1, <3>1, NoRowFacts
  <2>3. /\ proc' \in [Callers -> Caller] /\ proc'[p] = Resting
        /\ \A q \in Callers : q # p => proc'[q] = proc[q]
    BY <1>1, <1>2, OneMoves
  <2>4. \A q \in Callers : proc'[q].pc \in {"rotate", "post", "record"} =>
           q # p /\ proc'[q] = proc[q]
    BY <1>2, <2>3 DEF Quiet
  <2>5. Typed'
    BY <1>1, <1>3, <2>2, <2>3, <2>4 DEF Typed, BudgetsGoOn, Busy, fixed
  <2>6. Issued'
    BY <1>1, <1>2, <1>3, <2>2, <2>3, NoRowFacts, Fields DEF Issued, BudgetsGoOn
  <2>7. Waiting'
    <3>1. link.pc \in {"pending", "site", "previous", "store"} => link.grant # 0
      BY DEF Typed, Grants
    <3>2. QED  BY <3>1, <1>1, <1>2, <2>2, <2>3, NoRowFacts DEF Waiting
  <2>8. Owned' /\ Received' /\ OneSpender'
    BY <1>1, <2>2, <2>4, NoRowFacts DEF Owned, Received, OneSpender, Busy
  <2>9. Held'
    BY <1>1, <2>1, <2>2, <2>4 DEF Held, Busy
  <2>10. Unmoved'
    BY <1>1, <2>2, <2>4 DEF Unmoved, Exists
  <2>11. TurnedDown' /\ Decided
    BY <1>1, <2>2 DEF TurnedDown, Decided
  <2>12. NewestTokenKept'
    BY <1>1, <2>1, <2>2 DEF NewestTokenKept, Exists
  <2>13. QED
    BY <2>5, <2>6, <2>7, <2>8, <2>9, <2>10, <2>11, <2>12
<1>6. QED  BY <1>4, <1>5 DEF ReleaseRefresh

LEMMA LeaseExpiresStep ==
  ASSUME VaultInv, LeaseExpires
  PROVE  VaultInv' /\ Decided
<1>. USE DEF VaultInv
<1>1. /\ row # NoRow /\ row.claim \in Callers /\ Typed /\ row' = [row EXCEPT !.lapsed = TRUE]
      /\ UNCHANGED <<fixed, enabled, site, linked, primary, proc, link, live, refused>>
  BY Fields DEF LeaseExpires, Exists
<1>2. /\ row' \in FullRow /\ row'.grant = row.grant /\ row'.serial = row.serial
      /\ row'.rev = row.rev /\ row'.claim = row.claim /\ row' # NoRow
  <2>1. row \in FullRow
    BY <1>1, Fields
  <2>2. /\ row' \in FullRow /\ row'.grant = row.grant /\ row'.serial = row.serial
        /\ row'.rev = row.rev /\ row'.claim = row.claim
    BY <1>1, <2>1 DEF FullRow
  <2>3. QED  BY <2>2, NoRowFacts
<1>3. BudgetsGoOn /\ excused \subseteq excused'
  BY <1>1, SpendFacts, NothingSpent DEF LeaseExpires
<1>4. Typed'
  BY <1>1, <1>2, <1>3 DEF Typed, BudgetsGoOn, Busy, fixed
<1>5. Issued' /\ Waiting'
  BY <1>1, <1>2, <1>3 DEF Issued, Waiting, BudgetsGoOn
<1>6. Owned' /\ Received' /\ OneSpender'
  BY <1>1, <1>2, <1>3 DEF Owned, Received, OneSpender, Busy
<1>7. Held'
  <2>1. ASSUME NEW q \in Callers, Busy(q), row.grant = proc[q].snap.grant
        PROVE  row.grant \in excused'
    <3>1. CASE row.grant \in excused
      BY <3>1, <1>3
    <3>2. CASE row.grant \notin excused
      <4>1. row.claim = q
        BY <2>1, <3>2 DEF Held
      <4>2. Working(row.claim)
        BY <2>1, <4>1 DEF Working, Busy
      <4>3. QED  BY <4>2 DEF LeaseExpires
    <3>3. QED  BY <3>1, <3>2
  <2>2. QED  BY <1>1, <1>2, <2>1 DEF Held, Busy
<1>8. Unmoved'
  BY <1>1, <1>2, <1>3 DEF Unmoved, Exists
<1>9. TurnedDown' /\ Decided
  BY <1>1, <1>2, <1>3 DEF TurnedDown, Decided
<1>10. NewestTokenKept'
  BY <1>1, <1>2, <1>3 DEF NewestTokenKept, Exists
<1>11. QED
  BY <1>4, <1>5, <1>6, <1>7, <1>8, <1>9, <1>10

-----------------------------------------------------------------------------
(***************************************************************************)
(* Steps of the connecting flow that leave the row alone.                  *)
(***************************************************************************)
LEMMA FlowStep ==
  ASSUME VaultInv, UNCHANGED <<fixed, row, primary, proc, live, excused, used>>,
         site' \in {"none", "off", "on"},
         link' \in Flow, link'.pc # "idle" => link'.grant \in Grants,
         link'.grant <= used.grants, link'.prev.grant <= used.grants,
         \A g \in refused' : g \in 1 .. used.grants,
         link'.pc \in {"pending", "site", "previous", "store"} =>
           /\ link.pc \in {"pending", "site", "previous", "store"}
           /\ link'.grant = link.grant /\ link'.serial = link.serial
           /\ link'.prev.grant # link.grant /\ refused' = refused,
         TurnedDown'
  PROVE  VaultInv' /\ Decided
<1>. USE DEF VaultInv
<1>1. Typed'
  BY DEF Typed, Busy, fixed
<1>2. Issued' /\ Waiting'
  BY DEF Issued, Waiting
<1>3. Owned' /\ Held' /\ Unmoved' /\ Received' /\ OneSpender' /\ NewestTokenKept'
  BY DEF Owned, Held, Unmoved, Received, OneSpender, NewestTokenKept, Busy, Exists
<1>4. Decided
  BY DEF Decided, TurnedDown
<1>5. QED  BY <1>1, <1>2, <1>3, <1>4

\* The flow ends, but not from its rollback.
LEMMA FlowEnds ==
  ASSUME VaultInv, UNCHANGED <<fixed, row, primary, proc, world>>, Done,
         link.pc # "rollback", site' \in {"none", "off", "on"}
  PROVE  VaultInv' /\ Decided
<1>1. link' \in Flow /\ link'.pc = "idle" /\ link'.grant = 0 /\ link'.prev = NoRow
  BY RestingFacts DEF Done
<1>2. link'.grant <= used.grants /\ link'.prev.grant <= used.grants /\ 0 \notin refused
  BY <1>1, Fields, NoRowFacts DEF VaultInv, Issued
<1>3. TurnedDown'
  BY <1>1, <1>2, NoRowFacts DEF VaultInv, TurnedDown, world
<1>4. \A g \in refused' : g \in 1 .. used.grants
  BY DEF VaultInv, Issued, world
<1>5. QED  BY <1>1, <1>2, <1>3, <1>4, FlowStep DEF world

\* The flow goes on with the grant it has and what it kept.
LEMMA FlowGoesOn ==
  ASSUME VaultInv, UNCHANGED <<fixed, row, primary, proc, world>>,
         link.pc \in {"pending", "site", "previous", "store"},
         NEW l \in Flow, link' = l, l.pc \in {"pending", "site", "previous", "store"},
         l.grant = link.grant, l.serial = link.serial,
         l.prev \in {link.prev, row, NoRow},
         site' \in {"none", "off", "on"}
  PROVE  VaultInv' /\ Decided
<1>. USE DEF VaultInv, world
<1>1. link'.grant \in Grants /\ link'.grant <= used.grants /\ link'.grant # 0
  BY DEF Typed, Issued, Grants
<1>2. link'.prev.grant <= used.grants /\ link'.prev.grant # link.grant
  BY <1>1, NoRowFacts, Fields DEF Issued, Waiting
<1>3. TurnedDown'
  <2>1. 0 \notin refused
    BY DEF Issued
  <2>2. link'.prev.grant \in refused => link'.prev.grant \in excused
    BY <2>1, NoRowFacts DEF TurnedDown
  <2>3. QED  BY <2>2 DEF TurnedDown
<1>4. \A g \in refused' : g \in 1 .. used.grants
  BY DEF Issued
<1>5. QED  BY <1>1, <1>2, <1>3, <1>4, FlowStep

LEMMA WaitingFlowSteps ==
  ASSUME VaultInv, SelectAsanaWorkspace \/ PendingExpires \/ UpsertSite
  PROVE  VaultInv' /\ Decided
<1>1. /\ Typed /\ UNCHANGED <<fixed, row, primary, proc, world>>
      /\ link \in Flow /\ site \in {"none", "off", "on"}
      /\ link.pc \in {"pending", "site"} /\ link.pc # "rollback"
  BY DEF VaultInv, Typed, SelectAsanaWorkspace, PendingExpires, UpsertSite, JiraSite,
         AsanaWorkspace, SlackWorkspace
<1>2. site' \in {"none", "off", "on"}
  BY <1>1 DEF SelectAsanaWorkspace, PendingExpires, UpsertSite, JiraSite, AsanaWorkspace,
              SlackWorkspace, WithoutUnconfigured
<1>3. \/ Done
      \/ link' = [link EXCEPT !.pc = "site"]
      \/ \E pc \in {"store", "previous"} : link' = [link EXCEPT !.existing = site, !.pc = pc]
  BY DEF SelectAsanaWorkspace, PendingExpires, UpsertSite, JiraSite, AsanaWorkspace,
         SlackWorkspace
<1>4. CASE Done
  BY <1>1, <1>2, <1>4, FlowEnds
<1>5. CASE link' = [link EXCEPT !.pc = "site"]
  <2>1. /\ link' \in Flow /\ link'.pc = "site" /\ link'.grant = link.grant
        /\ link'.serial = link.serial /\ link'.prev = link.prev
    BY <1>1, <1>5 DEF Flow
  <2>2. QED  BY <1>1, <1>2, <2>1, FlowGoesOn
<1>6. CASE \E pc \in {"store", "previous"} : link' = [link EXCEPT !.existing = site, !.pc = pc]
  <2>1. /\ link' \in Flow /\ link'.pc \in {"store", "previous"} /\ link'.grant = link.grant
        /\ link'.serial = link.serial /\ link'.prev = link.prev
    BY <1>1, <1>6 DEF Flow
  <2>2. QED  BY <1>1, <1>2, <2>1, FlowGoesOn
<1>7. QED  BY <1>3, <1>4, <1>5, <1>6

LEMMA AccountTakenStep ==
  ASSUME VaultInv, AccountTaken
  PROVE  VaultInv' /\ Decided
<1>1. /\ Typed /\ UNCHANGED <<fixed, site, row, primary, proc, world>>
      /\ link \in Flow /\ site' \in {"none", "off", "on"}
      /\ link.pc \in {"previous", "store", "link"}
      /\ link' = [link EXCEPT !.account = "conflicting"]
  BY DEF VaultInv, Typed, AccountTaken
<1>2. /\ link' \in Flow /\ link'.pc = link.pc /\ link'.grant = link.grant
      /\ link'.serial = link.serial /\ link'.prev = link.prev
  BY <1>1 DEF Flow
<1>3. CASE link.pc # "link"
  BY <1>1, <1>2, <1>3, FlowGoesOn
<1>4. CASE link.pc = "link"
  <2>1. TurnedDown' /\ link'.grant \in Grants
    BY <1>1, <1>2, <1>4 DEF VaultInv, TurnedDown, Typed, world
  <2>2. /\ link'.grant <= used.grants /\ link'.prev.grant <= used.grants
        /\ \A g \in refused' : g \in 1 .. used.grants
    BY <1>1, <1>2 DEF VaultInv, Issued, world
  <2>3. QED  BY <1>1, <1>2, <1>4, <2>1, <2>2, FlowStep DEF world
<1>5. QED  BY <1>3, <1>4

LEMMA UpsertConnectionStep ==
  ASSUME VaultInv, UpsertConnection
  PROVE  VaultInv' /\ Decided
<1>1. /\ Typed /\ link.pc = "link" /\ link.grant \in Grants /\ link \in Flow
      /\ UNCHANGED <<fixed, enabled, site, row, primary, proc, live, excused, used>>
      /\ site' \in {"none", "off", "on"}
  BY DEF VaultInv, Typed, UpsertConnection
<1>2. CASE Done /\ UNCHANGED refused
  BY <1>1, <1>2, FlowEnds DEF world
<1>3. CASE link' = [link EXCEPT !.pc = "rollback"] /\ refused' = refused \cup {link.grant}
  <2>1. /\ link' \in Flow /\ link'.pc = "rollback" /\ link'.grant = link.grant
        /\ link'.prev = link.prev
    BY <1>1, <1>3 DEF Flow
  <2>2. /\ link'.grant <= used.grants /\ link'.prev.grant <= used.grants
        /\ \A g \in refused' : g \in 1 .. used.grants
    BY <1>1, <1>3, <2>1, Fields DEF VaultInv, Issued, Grants
  <2>3. link.prev.grant # link.grant
    BY <1>1, NoRowFacts DEF VaultInv, TurnedDown, Grants
  <2>4. TurnedDown'
    BY <1>1, <1>3, <2>1, <2>3 DEF VaultInv, TurnedDown
  <2>5. QED  BY <1>1, <1>3, <2>1, <2>2, <2>4, FlowStep
<1>4. QED  BY <1>2, <1>3 DEF UpsertConnection

\* A person authorizes: the grant is new to the row, to every caller and to
\* what the flow kept.
LEMMA NewGrantStep ==
  ASSUME VaultInv, NEW kinds, NEW accounts, accounts \subseteq Accounts, NEW sites,
         NEW next, next \in {"pending", "site", "previous", "store"},
         NewGrant(kinds, accounts, sites, next)
  PROVE  VaultInv' /\ Decided
<1>. USE DEF VaultInv
<1>1. PICK g : g = used.grants + 1
  OBVIOUS
<1>2. /\ link.pc = "idle" /\ used.grants < MaxGrants /\ Typed
      /\ used' = [used EXCEPT !.grants = @ + 1]
      /\ UNCHANGED <<fixed, enabled, site, linked, row, primary, proc, excused, refused>>
  BY DEF NewGrant, Spend
<1>3. /\ used' \in [expiries : Nat, faults : Nat, grants : 0 .. MaxGrants]
      /\ used'.grants = g /\ g \in Grants /\ g > used.grants /\ used.grants \in Nat
  <2>1. used.grants \in 0 .. MaxGrants /\ used.grants + 1 \in 1 .. MaxGrants
    BY <1>2, Fields, CredentialsAssumption
  <2>2. used' \in [expiries : Nat, faults : Nat, grants : 0 .. MaxGrants] /\ used'.grants = g
    BY <1>1, <1>2, <2>1 DEF Typed
  <2>3. QED  BY <1>1, <2>1, <2>2 DEF Grants
<1>4. PICK serial \in {0, 1}, account \in accounts :
        /\ live' = [live EXCEPT ![g] = serial]
        /\ \/ link' = [Disconnected EXCEPT !.grant = g, !.serial = serial,
                                           !.account = account, !.pc = next]
           \/ UNCHANGED link
  BY <1>1 DEF NewGrant
<1>5. live' \in [Grants -> Nat] /\ live'[g] = serial /\ \A h \in Grants : h # g => live'[h] = live[h]
  BY <1>3, <1>4 DEF Typed
<1>6. /\ row.grant # g /\ g \notin refused /\ \A q \in Callers : proc[q].snap.grant # g
      /\ row.grant <= g /\ \A q \in Callers : proc[q].snap.grant <= g
      /\ \A h \in refused : h \in 1 .. g
  BY <1>3, Fields DEF Issued
<1>7. /\ link' \in Flow /\ (link'.pc # "idle" => link'.grant = g /\ link'.pc = next)
      /\ link'.grant <= g /\ link'.prev.grant <= g
      /\ link'.pc # "idle" => link'.serial = serial /\ link'.prev = NoRow
  <2>1. CASE UNCHANGED link
    BY <1>2, <1>3, <2>1, Fields DEF Typed, Issued
  <2>2. CASE link' = [Disconnected EXCEPT !.grant = g, !.serial = serial,
                                          !.account = account, !.pc = next]
    <3>1. g \in 0 .. MaxGrants /\ account \in {"own", "conflicting"} /\ g \in Nat
      BY <1>3, <1>4 DEF Grants, Accounts
    <3>2. /\ link' \in Flow /\ link'.grant = g /\ link'.pc = next /\ link'.serial = serial
          /\ link'.prev = NoRow
      <4>1. Disconnected \in Flow /\ Disconnected.prev = NoRow
        BY RestingFacts
      <4>2. next \in {"idle", "pending", "site", "previous", "store", "link", "rollback"}
            /\ serial \in Nat
        OBVIOUS
      <4>3. QED  BY <2>2, <3>1, <4>1, <4>2, Zenon DEF Flow
    <3>3. QED  BY <3>1, <3>2, NoRowFacts
  <2>3. QED  BY <1>4, <2>1, <2>2
<1>8. Typed'
  BY <1>2, <1>3, <1>5, <1>7 DEF Typed, Busy, fixed
<1>9. Issued'
  BY <1>2, <1>3, <1>6, <1>7 DEF Issued
<1>10. Waiting'
  <2>1. g # 0
    BY <1>3 DEF Grants
  <2>2. QED  BY <1>2, <1>5, <1>6, <1>7, <2>1, NoRowFacts DEF Waiting
<1>11. Owned' /\ Held' /\ Unmoved' /\ OneSpender'
  BY <1>2 DEF Owned, Held, Unmoved, OneSpender, Busy, Exists
<1>12. Received'
  <2>1. \A q \in Callers : proc[q].pc = "record" =>
          live'[proc[q].snap.grant] = live[proc[q].snap.grant]
    BY <1>5, <1>6, Fields
  <2>2. QED  BY <1>2, <2>1 DEF Received
<1>13. NewestTokenKept'
  <2>1. row # NoRow => live'[row.grant] = live[row.grant]
    BY <1>5, <1>6, Fields
  <2>2. QED  BY <1>2, <2>1 DEF NewestTokenKept, Exists
<1>14. TurnedDown' /\ Decided
  <2>1. 0 \notin refused
    BY <1>6
  <2>2. row.grant \in refused => row.grant \in excused
    BY <1>2 DEF TurnedDown
  <2>3. link'.prev.grant \in refused => link'.prev.grant \in excused
    <3>1. CASE UNCHANGED link
      BY <3>1 DEF TurnedDown
    <3>2. CASE link'.pc # "idle"
      BY <3>2, <1>7, <2>1, NoRowFacts
    <3>3. link' = link \/ link'.pc # "idle"
      BY <1>4, RestingFacts DEF Disconnected
    <3>4. QED  BY <3>1, <3>2, <3>3
  <2>4. link'.pc \notin {"link", "rollback"}
    BY <1>7
  <2>5. QED  BY <1>2, <2>2, <2>3, <2>4 DEF TurnedDown, Decided
<1>15. QED
  BY <1>8, <1>9, <1>10, <1>11, <1>12, <1>13, <1>14

LEMMA CallbackSteps ==
  ASSUME VaultInv, JiraMemberCallback \/ JiraSiteCallback \/ AsanaCallback \/ SlackCallback
  PROVE  VaultInv' /\ Decided
<1>1. CASE JiraMemberCallback
  BY <1>1, NewGrantStep DEF JiraMemberCallback, JiraCurrentUser
<1>2. CASE JiraSiteCallback
  BY <1>2, NewGrantStep DEF JiraSiteCallback, JiraCurrentUser
<1>3. CASE AsanaCallback
  BY <1>3, NewGrantStep DEF AsanaCallback
<1>4. CASE SlackCallback
  BY <1>4, NewGrantStep DEF SlackCallback, Accounts
<1>5. QED  BY <1>1, <1>2, <1>3, <1>4

-----------------------------------------------------------------------------
(***************************************************************************)
(* Steps of the connecting flow that write the row.                        *)
(***************************************************************************)
LEMMA OpenPreviousStep ==
  ASSUME VaultInv, OpenPrevious
  PROVE  VaultInv' /\ Decided
<1> DEFINE to(prev) == [link EXCEPT !.pc = "store", !.prev = prev]
<1>1. /\ Typed /\ link.pc = "previous" /\ link \in Flow /\ link.grant \in Grants
      /\ UNCHANGED <<fixed, enabled, site, linked, primary, proc, world>>
      /\ site' \in {"none", "off", "on"} /\ row \in {NoRow} \cup FullRow
  BY DEF VaultInv, Typed, OpenPrevious
<1>2. ASSUME NEW prev \in {NoRow} \cup FullRow
      PROVE  /\ to(prev) \in Flow /\ to(prev).pc = "store" /\ to(prev).grant = link.grant
             /\ to(prev).serial = link.serial /\ to(prev).prev = prev
  BY <1>1, <1>2 DEF Flow
<1>3. CASE UNCHANGED row /\ \E prev \in {row, NoRow} : link' = to(prev)
  <2>1. PICK prev \in {row, NoRow} : link' = to(prev)
    BY <1>3
  <2>2. /\ link' \in Flow /\ link'.pc = "store" /\ link'.grant = link.grant
        /\ link'.serial = link.serial /\ link'.prev \in {link.prev, row, NoRow}
    BY <1>1, <1>2, <2>1
  <2> HIDE DEF to
  <2>3. QED  BY <1>1, <1>3, <2>2, FlowGoesOn
<1>4. ASSUME NEW p \in Callers, Exists, row.claim = Nobody, row' = Rewrapped(row, primary[p]),
             link' = to(row')
      PROVE  VaultInv' /\ Decided
  <2>1. /\ row \in FullRow /\ row.rev + 1 \in Nat \ {0} /\ row.rev \in Nat
        /\ row.grant \in Grants /\ row.serial \in Nat /\ primary[p] \in Nat
    BY <1>1, <1>4, Fields DEF Exists, Typed
  <2>2. /\ row' \in FullRow /\ row'.grant = row.grant /\ row'.serial = row.serial
        /\ row'.rev = row.rev + 1 /\ row'.claim = Nobody
    <3>1. row' = [row EXCEPT !.grant = row.grant, !.serial = row.serial,
                             !.key = primary[p], !.rev = row.rev + 1]
      BY <1>4 DEF Rewrapped
    <3>2. QED  BY <1>4, <2>1, <3>1, Zenon DEF FullRow
  <2>3. /\ link' \in Flow /\ link'.pc = "store" /\ link'.grant = link.grant
        /\ link'.serial = link.serial /\ link'.prev = row'
    BY <1>2, <1>4, <2>2
  <2> HIDE DEF to
  <2>4. row'.rev > row.rev
    BY <2>1, <2>2
  <2>5. /\ row.grant <= used.grants /\ row.grant # link.grant
        /\ UNCHANGED <<live, excused, refused, used>>
    BY <1>1 DEF VaultInv, Issued, Waiting, world
  <2>6. row'.serial = 0 \/ row'.serial = live[row.grant] \/ row.grant \in excused'
    BY <1>1, <1>4, <2>2, <2>5, NoRowFacts DEF VaultInv, NewestTokenKept
  <2>7. \A q \in Callers : /\ proc'[q].pc \in {"post", "record"} /\ proc'[q].snap.grant = row.grant
                           => row.grant \in excused'
    BY <1>1, <1>4, <2>5, NoRowFacts DEF VaultInv, Held, Busy
  <2>8. TurnedDown' /\ Decided
    BY <1>1, <2>2, <2>3, <2>5 DEF VaultInv, TurnedDown, Decided
  <2>9. VaultInv'
    <3>1. \A q \in Callers : proc'[q] = proc[q] \/ (Quiet(proc'[q]) /\ proc'[q].snap = NoRow)
      BY <1>1
    <3>2. PICK g : g = row.grant
      OBVIOUS
    <3>3. /\ g = row'.grant /\ g <= used.grants
          /\ row'.serial = 0 \/ row'.serial = live[g] \/ g \in excused'
      BY <3>2, <2>2, <2>5, <2>6
    <3>4. \A q \in Callers : /\ proc'[q].pc \in {"post", "record"} /\ proc'[q].snap.grant = g
                             => g \in excused'
      BY <3>2, <2>7
    <3>5. link'.pc \in {"pending", "site", "previous", "store"} =>
            /\ link.pc \in {"pending", "site", "previous", "store"}
            /\ link'.grant = link.grant /\ link'.serial = link.serial
            /\ g # link.grant /\ link'.prev.grant # link.grant
      BY <1>1, <2>2, <2>3, <2>5, <3>2
    <3>6. /\ link'.grant \in {0, link.grant} /\ link'.prev.grant <= used.grants
          /\ link'.pc # "idle" => link'.grant \in Grants
      BY <1>1, <2>2, <2>3, <2>5
    <3>7. /\ UNCHANGED <<fixed, primary, live, refused, used>> /\ excused \subseteq excused'
          /\ proc' \in [Callers -> Caller]
      BY <1>1, <2>5 DEF Typed
    <3>8. QED
      BY <1>1, <2>2, <2>3, <2>4, <2>8, <3>1, <3>3, <3>4, <3>5, <3>6, <3>7, SealStep
  <2>10. QED  BY <2>8, <2>9
<1>5. PICK p \in Callers :
        CASE Exists /\ row.key = primary[p] -> link' = to(row) /\ UNCHANGED row
          [] Exists /\ row.key < primary[p] /\ row.claim = Nobody ->
               /\ row' = Rewrapped(row, primary[p]) /\ link' = to(row')
          [] OTHER -> link' = to(NoRow) /\ UNCHANGED row
  BY DEF OpenPrevious
<1> HIDE DEF to
<1>6. CASE Exists /\ row.key = primary[p] /\ link' = to(row) /\ UNCHANGED row
  BY <1>3, <1>6
<1>7. CASE Exists /\ row.claim = Nobody /\ row' = Rewrapped(row, primary[p]) /\ link' = to(row')
  BY <1>4, <1>7
<1>8. CASE link' = to(NoRow) /\ UNCHANGED row
  BY <1>3, <1>8
<1>9. QED  BY <1>5, <1>6, <1>7, <1>8

LEMMA StoreGrantStep ==
  ASSUME VaultInv, StoreGrant
  PROVE  VaultInv' /\ Decided
<1>1. /\ Typed /\ link.pc = "store" /\ link \in Flow /\ link.grant \in Grants
      /\ UNCHANGED <<fixed, enabled, linked, primary, proc, world>>
      /\ site \in {"none", "off", "on"} /\ row.rev \in Nat
  BY Fields DEF VaultInv, Typed, StoreGrant
<1>2. CASE ~MayStore
  <2>1. Done /\ UNCHANGED row /\ StoreFails
    BY <1>2 DEF StoreGrant
  <2>2. link.existing \in {"none", "off", "on"}
    BY <1>1 DEF Flow
  <2>3. site' \in {"none", "off", "on"}
    BY <1>1, <2>1, <2>2 DEF StoreFails, JiraStoreFails, AsanaStoreFails, SlackStoreFails,
                            WithoutUnconfigured
  <2>4. QED  BY <1>1, <2>1, <2>3, FlowEnds
<1>3. CASE MayStore
  <2>1. PICK p \in Callers : row' = Sealed(link.grant, link.serial, row.rev + 1, primary[p])
    BY <1>3 DEF StoreGrant, VaultStore
  <2>2. /\ row' \in FullRow /\ row'.grant = link.grant /\ row'.serial = link.serial
        /\ row'.rev = row.rev + 1 /\ row'.claim = Nobody
    <3>1. row.rev + 1 \in Nat /\ row.rev + 1 > 0 /\ primary[p] \in Nat
      BY <1>1 DEF Typed
    <3>2. link.serial \in Nat
      BY <1>1 DEF Flow
    <3>3. QED  BY <1>1, <2>1, <3>1, <3>2, SealedFacts
  <2>3. /\ link' \in Flow
        /\ \/ link'.pc = "idle" /\ link'.grant = 0 /\ link'.prev = NoRow
           \/ link'.pc = "link" /\ link'.grant = link.grant /\ link'.prev = link.prev
    <3>1. Done \/ link' = [link EXCEPT !.pc = "link"]
      BY <1>3 DEF StoreGrant
    <3>2. CASE Done
      BY <3>2, RestingFacts DEF Done
    <3>3. CASE link' = [link EXCEPT !.pc = "link"]
      BY <3>3, <1>1 DEF Flow
    <3>4. QED  BY <3>1, <3>2, <3>3
  <2>4. /\ link.grant <= used.grants /\ link.serial = live[link.grant] /\ link.grant \notin refused
        /\ link.prev.grant # link.grant /\ \A q \in Callers : proc[q].snap.grant # link.grant
        /\ link.prev.grant <= used.grants /\ 0 \notin refused
    BY <1>1 DEF VaultInv, Issued, Waiting
  <2>5. UNCHANGED <<fixed, primary, proc, live, excused, refused, used, site>>
        /\ site' \in {"none", "off", "on"} /\ proc' \in [Callers -> Caller]
    BY <1>1, <1>3 DEF StoreGrant, world, Typed
  <2>6. link'.prev.grant \in refused => link'.prev.grant \in excused
    BY <2>3, <2>4, NoRowFacts DEF VaultInv, TurnedDown
  <2>7. link' # link
    BY <1>1, <2>3
  <2>8. TurnedDown' /\ Decided
    BY <2>2, <2>3, <2>4, <2>5, <2>6, <2>7 DEF TurnedDown, Decided
  <2>9. VaultInv'
    <3>1. PICK g : g = link.grant
      OBVIOUS
    <3>2. /\ g = row'.grant /\ g <= used.grants
          /\ row'.serial = 0 \/ row'.serial = live[g] \/ g \in excused'
          /\ row'.rev > row.rev
      BY <1>1, <3>1, <2>2, <2>4
    <3>3. \A q \in Callers : /\ proc'[q].pc \in {"post", "record"} /\ proc'[q].snap.grant = g
                             => g \in excused'
      BY <2>4, <2>5, <3>1
    <3>4. /\ link'.pc # "idle" => link'.grant \in Grants
          /\ link'.grant \in {0, link.grant} /\ link'.prev.grant <= used.grants
          /\ link'.pc \notin {"pending", "site", "previous", "store"}
      BY <1>1, <2>3, <2>4, Fields, NoRowFacts
    <3>5. \A q \in Callers : proc'[q] = proc[q] \/ (Quiet(proc'[q]) /\ proc'[q].snap = NoRow)
      BY <2>5
    <3>6. QED
      BY <2>2, <2>3, <2>5, <2>8, <3>2, <3>3, <3>4, <3>5, SealStep
  <2>10. QED  BY <2>8, <2>9
<1>4. QED  BY <1>2, <1>3

\* The row is deleted; a rewrap that still holds it is excused.
LEMMA DeleteStep ==
  ASSUME VaultInv, DeleteRow, Done \/ UNCHANGED link,
         UNCHANGED <<fixed, primary, proc, live, refused, used>>,
         site' \in {"none", "off", "on"}
  PROVE  VaultInv' /\ Decided
<1>. USE DEF VaultInv
<1>1. /\ row' = NoRow /\ excused \subseteq excused'
      /\ \A p \in Callers : proc[p].pc = "rotate" => proc[p].snap.grant \in excused'
  BY DEF DeleteRow, HeldForRewrap
<1>2. link' \in Flow /\ (link' = link \/ (link'.pc = "idle" /\ link'.grant = 0 /\ link'.prev = NoRow))
  BY RestingFacts DEF Done, Typed
<1>3. 0 \notin refused /\ used.grants \in Nat
  BY Fields DEF Issued
<1>4. Typed'
  BY <1>1, <1>2 DEF Typed, Busy, fixed
<1>5. Issued'
  BY <1>1, <1>2, <1>3, NoRowFacts DEF Issued
<1>6. Waiting'
  <2>1. link.pc \in {"pending", "site", "previous", "store"} => link.grant # 0
    BY DEF Typed, Grants
  <2>2. QED  BY <1>1, <1>2, <2>1, NoRowFacts DEF Waiting
<1>7. Owned' /\ Received' /\ OneSpender'
  BY <1>1, NoRowFacts DEF Owned, Received, OneSpender, Busy
<1>8. Held'
  BY <1>1, NoRowFacts, Fields DEF Held, Busy, Grants
<1>9. Unmoved'
  BY <1>1 DEF Unmoved
<1>10. TurnedDown' /\ Decided
  BY <1>1, <1>2, <1>3, NoRowFacts DEF TurnedDown, Decided
<1>11. NewestTokenKept'
  BY <1>1 DEF NewestTokenKept, Exists
<1>12. QED
  BY <1>4, <1>5, <1>6, <1>7, <1>8, <1>9, <1>10, <1>11

LEMMA DisconnectStep ==
  ASSUME VaultInv, Disconnect
  PROVE  VaultInv' /\ Decided
<1>1. UNCHANGED <<fixed, primary, proc, link, live, refused, used>>
  BY DEF Disconnect
<1>2. DeleteRow /\ site' \in {"none", "off", "on"}
  BY DEF VaultInv, Typed, Disconnect, DisconnectJiraSite, DisconnectAsanaSite,
         DisconnectSlackSite, DisconnectJiraUser, DisconnectAsanaUser
<1>3. QED  BY <1>1, <1>2, DeleteStep

\* The rollback leaves the row and gives up on the grant it holds.
LEMMA GivenUp ==
  ASSUME VaultInv, link.pc = "rollback", Done, excused' = excused \cup {link.grant},
         UNCHANGED <<fixed, row, primary, proc, live, refused, used>>,
         site' \in {"none", "off", "on"}
  PROVE  VaultInv' /\ Decided
<1>. USE DEF VaultInv
<1>1. link' \in Flow /\ link'.pc = "idle" /\ link'.grant = 0 /\ link'.prev = NoRow
  BY RestingFacts DEF Done
<1>2. 0 \notin refused /\ used.grants \in Nat
  BY Fields DEF Issued
<1>3. Typed' /\ Issued' /\ Waiting'
  BY <1>1, <1>2, NoRowFacts DEF Typed, Issued, Waiting, Busy, fixed
<1>4. Owned' /\ Held' /\ Unmoved' /\ Received' /\ OneSpender' /\ NewestTokenKept'
  BY DEF Owned, Held, Unmoved, Received, OneSpender, NewestTokenKept, Busy, Exists
<1>5. TurnedDown' /\ Decided
  BY <1>1, <1>2, NoRowFacts DEF TurnedDown, Decided
<1>6. QED  BY <1>3, <1>4, <1>5

\* Asana puts back the credential it kept.
LEMMA Restored ==
  ASSUME VaultInv, link.pc = "rollback", Done, link.prev # NoRow, NEW p \in Callers,
         row' = [Sealed(link.prev.grant, link.prev.serial, row.rev + 1, primary[p])
                   EXCEPT !.fresh = link.prev.fresh],
         excused' = excused \cup (IF Outdated(link.prev) THEN {link.prev.grant} ELSE {}),
         UNCHANGED <<fixed, primary, proc, live, refused, used>>,
         site' \in {"none", "off", "on"}
  PROVE  VaultInv' /\ Decided
<1>1. PICK s : s = link.prev
  OBVIOUS
<1>2. PICK g : g = s.grant
  OBVIOUS
<1>3. /\ s \in FullRow /\ g \in Grants /\ s.serial \in Nat /\ s.fresh \in BOOLEAN
      /\ row.rev + 1 \in Nat /\ row.rev \in Nat /\ primary[p] \in Nat
  BY <1>1, <1>2, Fields DEF VaultInv, Typed, FullRow
<1>4. /\ row' \in FullRow /\ row'.grant = g /\ row'.serial = s.serial
      /\ row'.rev = row.rev + 1 /\ row'.claim = Nobody
  <2>1. PICK r : r = Sealed(g, s.serial, row.rev + 1, primary[p])
    OBVIOUS
  <2>2. /\ r \in FullRow /\ r.grant = g /\ r.serial = s.serial /\ r.rev = row.rev + 1
        /\ r.claim = Nobody
    <3>1. row.rev + 1 > 0
      BY <1>3
    <3>2. QED  BY <1>3, <2>1, <3>1, SealedFacts
  <2>3. row' = [r EXCEPT !.fresh = s.fresh]
    BY <1>1, <1>2, <2>1
  <2>4. QED  BY <1>3, <2>2, <2>3, Zenon DEF FullRow
<1>5. link' \in Flow /\ link'.pc = "idle" /\ link'.grant = 0 /\ link'.prev = NoRow
  BY RestingFacts DEF Done
<1>6. /\ 0 \notin refused /\ used.grants \in Nat /\ g <= used.grants
      /\ excused \subseteq excused'
      /\ s.serial = live[g] \/ g \in excused'
      /\ \A q \in Callers : /\ proc[q].pc \in {"post", "record"} /\ proc[q].snap.grant = g
                            => g \in excused'
  BY <1>1, <1>2, Fields DEF VaultInv, Issued, Outdated
<1>7. link' # link
  BY <1>5
<1>8. TurnedDown' /\ Decided
  BY <1>1, <1>2, <1>4, <1>5, <1>6, <1>7, NoRowFacts DEF VaultInv, TurnedDown, Decided
<1>9. VaultInv'
  <2>1. /\ g = row'.grant /\ row'.rev > row.rev
        /\ row'.serial = 0 \/ row'.serial = live[g] \/ g \in excused'
    BY <1>3, <1>4, <1>6
  <2>2. \A q \in Callers : /\ proc'[q].pc \in {"post", "record"} /\ proc'[q].snap.grant = g
                           => g \in excused'
    BY <1>6
  <2>3. /\ link'.pc # "idle" => link'.grant \in Grants
        /\ link'.grant \in {0, link.grant} /\ link'.prev.grant <= used.grants
        /\ link'.pc \notin {"pending", "site", "previous", "store"}
    BY <1>5, <1>6, NoRowFacts
  <2>4. \A q \in Callers : proc'[q] = proc[q] \/ (Quiet(proc'[q]) /\ proc'[q].snap = NoRow)
    OBVIOUS
  <2>5. proc' \in [Callers -> Caller]
    BY DEF VaultInv, Typed
  <2>6. QED
    BY <1>4, <1>5, <1>6, <1>8, <2>1, <2>2, <2>3, <2>4, <2>5, SealStep
<1>10. QED  BY <1>8, <1>9

LEMMA RollbackStep ==
  ASSUME VaultInv, Rollback
  PROVE  VaultInv' /\ Decided
<1>1. /\ link.pc = "rollback" /\ Done /\ site \in {"none", "off", "on"}
      /\ UNCHANGED <<fixed, enabled, linked, primary, proc, live, refused, used>>
  BY DEF VaultInv, Typed, Rollback
<1>2. site' \in {"none", "off", "on"}
  BY <1>1 DEF Rollback, JiraMemberRollback, JiraSiteRollback, AsanaSiteRollback,
              AsanaMemberRollback
<1>3. \/ DeleteRow
      \/ UNCHANGED row /\ excused' = excused \cup {link.grant}
      \/ RestorePrevious
  BY DEF Rollback, JiraMemberRollback, JiraSiteRollback, AsanaSiteRollback, AsanaMemberRollback
<1>4. CASE DeleteRow
  BY <1>1, <1>2, <1>4, DeleteStep
<1>5. CASE UNCHANGED row /\ excused' = excused \cup {link.grant}
  BY <1>1, <1>2, <1>5, GivenUp
<1>6. CASE RestorePrevious
  <2>1. CASE link.prev = NoRow
    BY <1>4, <1>6, <2>1 DEF RestorePrevious
  <2>2. CASE link.prev # NoRow /\ MayStore
    BY <1>1, <1>2, <1>6, <2>2, Restored DEF RestorePrevious
  <2>3. CASE link.prev # NoRow /\ ~MayStore
    BY <1>5, <1>6, <2>3 DEF RestorePrevious
  <2>4. QED  BY <2>1, <2>2, <2>3
<1>7. QED  BY <1>3, <1>4, <1>5, <1>6

-----------------------------------------------------------------------------
(***************************************************************************)
(* The theorems.                                                           *)
(***************************************************************************)
LEMMA VaultInvHolds == Init => VaultInv
<1>. SUFFICES ASSUME Init PROVE VaultInv
  OBVIOUS
<1>1. /\ row = NoRow /\ link = Disconnected /\ refused = {} /\ excused = {}
      /\ proc = [p \in Callers |-> Resting] /\ live = [g \in Grants |-> 0]
      /\ used = [expiries |-> 0, faults |-> 0, grants |-> 0]
      /\ primary = [p \in Callers |-> 0] /\ site \in {"none", "off", "on"}
      /\ provider \in {"jira", "asana", "slack"} /\ subject \in {"site", "user"}
  BY DEF Init
<1>2. \A p \in Callers : /\ proc[p] = Resting /\ proc[p].pc = "idle" /\ proc[p].snap = NoRow
                         /\ proc[p].snap.grant = 0
  BY <1>1, RestingFacts, NoRowFacts
<1>3. Typed
  <2>1. used \in [expiries : Nat, faults : Nat, grants : 0 .. MaxGrants]
    BY <1>1, CredentialsAssumption
  <2>2. proc \in [Callers -> Caller] /\ primary \in [Callers -> Nat] /\ live \in [Grants -> Nat]
    BY <1>1, RestingFacts
  <2>3. link \in Flow /\ link.pc = "idle"
    BY <1>1, RestingFacts
  <2>4. QED  BY <1>1, <1>2, <2>1, <2>2, <2>3 DEF Typed, Busy
<1>4. Issued /\ Waiting
  <2>1. row.grant = 0 /\ link.grant = 0 /\ link.prev.grant = 0 /\ used.grants = 0 /\ link.pc = "idle"
    BY <1>1, RestingFacts, NoRowFacts
  <2>2. QED  BY <1>1, <1>2, <2>1 DEF Issued, Waiting
<1>5. Owned /\ Held /\ Unmoved /\ Received /\ OneSpender
  BY <1>2 DEF Owned, Held, Unmoved, Received, OneSpender, Busy
<1>6. TurnedDown /\ NewestTokenKept
  BY <1>1, RestingFacts DEF TurnedDown, NewestTokenKept, Exists
<1>7. QED  BY <1>3, <1>4, <1>5, <1>6 DEF VaultInv

LEMMA CallerStep ==
  ASSUME VaultInv, NEW p \in Callers, Step(p)
  PROVE  VaultInv' /\ Decided
<1>1. CASE OpenRead(p) \/ OpenRotate(p) \/ ClaimForRefresh(p)
  BY <1>1, OpenReadStep, OpenRotateStep, ClaimForRefreshStep
<1>2. CASE JiraRefresh(p) \/ AsanaRefresh(p) \/ SlackRefresh(p)
  BY <1>2, RefreshStep DEF JiraRefresh, AsanaRefresh, SlackRefresh
<1>3. CASE ReplaceAfterRefresh(p) \/ ReleaseRefresh(p) \/ UseToken(p)
  BY <1>3, ReplaceStep, ReleaseStep, UseTokenStep
<1>4. QED  BY <1>1, <1>2, <1>3 DEF Step

LEMMA VaultInvKept ==
  ASSUME VaultInv, Next
  PROVE  VaultInv' /\ Decided
<1>1. CASE \E p \in Callers : AskForToken(p) \/ RewrapAll(p) \/ Step(p) \/ Crash(p) \/ RotateKey(p)
  BY <1>1, AskForTokenStep, RewrapAllStep, CallerStep, CrashStep, RotateKeyStep
<1>2. CASE JiraMemberCallback \/ JiraSiteCallback \/ AsanaCallback \/ SlackCallback
  BY <1>2, CallbackSteps
<1>3. CASE SelectAsanaWorkspace \/ PendingExpires \/ UpsertSite
  BY <1>3, WaitingFlowSteps
<1>4. CASE AccountTaken \/ OpenPrevious \/ StoreGrant \/ UpsertConnection
  BY <1>4, AccountTakenStep, OpenPreviousStep, StoreGrantStep, UpsertConnectionStep
<1>5. CASE Rollback \/ Disconnect \/ AccessExpires \/ LeaseExpires
  BY <1>5, RollbackStep, DisconnectStep, AccessExpiresStep, LeaseExpiresStep
<1>6. CASE DisableUser \/ EnableUser
  BY <1>6, UserStep
<1>7. QED  BY <1>1, <1>2, <1>3, <1>4, <1>5, <1>6 DEF Next

LEMMA VaultInvStutters ==
  ASSUME VaultInv, UNCHANGED vars
  PROVE  VaultInv'
BY DEF VaultInv, Typed, Issued, Waiting, Owned, Held, Unmoved, Received, TurnedDown,
       NewestTokenKept, OneSpender, Busy, Exists, vars, world, fixed

\* Every reachable state of a credential row, its callers and its connecting
\* flow satisfies the invariant.
THEOREM VaultInvAlways == Spec => []VaultInv
<1>1. Init => VaultInv
  BY VaultInvHolds
<1>2. VaultInv /\ [Next]_vars => VaultInv'
  BY VaultInvKept, VaultInvStutters
<1>3. QED  BY <1>1, <1>2, PTL DEF Spec

\* Rewrapping, expiring, claiming and refreshing never lose the newest refresh
\* token of the grant the row holds (IntegrationCredentialVault), unless a
\* fault excused it.
THEOREM NewestKept == Spec => []NewestTokenKept
<1>1. VaultInv => NewestTokenKept
  BY DEF VaultInv
<1>2. QED  BY <1>1, VaultInvAlways, PTL

\* claim_for_refresh and the guarded write let one caller spend a grant's
\* refresh token at a time, however many replicas there are.
THEOREM OneSpenderAlways == Spec => []OneSpender
<1>1. VaultInv => OneSpender
  BY DEF VaultInv
<1>2. QED  BY <1>1, VaultInvAlways, PTL

\* No refresh and no rewrap puts another grant into the row, and a grant whose
\* account was turned down is rolled back.
THEOREM CallbackDecidesAlways == Spec => CallbackDecides
<1>1. VaultInv /\ [Next]_vars =>
        [/\ Exists /\ row' # NoRow /\ row'.grant # row.grant
              => link' # link \/ row'.grant \in excused
         /\ row' # NoRow /\ row'.grant \in refused'
              => link'.pc = "rollback" \/ row'.grant \in excused']_vars
  BY VaultInvKept DEF Decided
<1>2. QED  BY <1>1, VaultInvAlways, PTL DEF Spec, CallbackDecides

=============================================================================
