------------------------------ MODULE Accounts ------------------------------
(***************************************************************************)
(* The user service (service/user/api), with the token middleware it runs  *)
(* (pkg/middleware/jwt.go): accounts, departments, sign-in, refresh,       *)
(* sign-out and the black list in Redis.  The other services run the same  *)
(* middleware without Redis, which leaves them the check of the expiry.    *)
(*                                                                         *)
(* A request is a sequence of steps of its handler, one per call of        *)
(* PostgreSQL or Redis, and requests interleave.  Ids are MAX + 1, read    *)
(* before the row is inserted.  Redis is asked with its errors ignored.    *)
(***************************************************************************)
EXTENDS DeptPath, Functions

CONSTANTS
    Handler,      \* requests in progress at one time
    NewName,      \* usernames free to be taken
    Founded,      \* departments at the start: id -> the ids from the root down
    Staff,        \* accounts at the start: id -> [role, dept]
    AskedDept,    \* departments asked for in a new account, there or not
    AccessTTL,    \* life of an access token, in ticks
    RefreshTTL,   \* life of a refresh token, in ticks
    Micro,        \* the microseconds of a tick at which tokens are issued
    MaxTime,      \* bound on the clock
    MaxCalls,     \* bound on the requests
    MaxFaults     \* bound on the failures of Redis and of PostgreSQL

ASSUME TTLAssumption == AccessTTL \in Nat \ {0} /\ RefreshTTL \in Nat /\ AccessTTL <= RefreshTTL

ASSUME FoundedAssumption ==
    /\ IsFiniteSet(DOMAIN Founded) /\ DOMAIN Founded \subseteq Nat \ {0}
    /\ \A d \in DOMAIN Founded :
          /\ Founded[d] \in Seq(DOMAIN Founded) \ {<<>>}
          /\ Last(Founded[d]) = d
          /\ Len(Founded[d]) > 1 => Founded[Last(Front(Founded[d]))] = Front(Founded[d])

ASSUME StaffAssumption ==
    /\ IsFiniteSet(DOMAIN Staff) /\ DOMAIN Staff \subseteq Nat
    /\ \A u \in DOMAIN Staff :
          u > 10000 /\ Staff[u].role \in 1 .. 3 /\ Staff[u].dept \in DOMAIN Founded

ASSUME AskedAssumption == AskedDept \subseteq Nat

ASSUME BoundAssumption == MaxTime \in Nat /\ MaxCalls \in Nat /\ MaxFaults \in Nat

VARIABLES
    depts,      \* sys_department: id -> [parent, path]
    users,      \* sys_user: id -> [name, role, dept, status, maker]
    tokens,     \* the pairs of tokens given out
    blacklist,  \* Redis: <<jti, kind>> -> the time the entry lapses
    handler,    \* the request each handler is serving
    clock,      \* time
    calls,      \* requests begun
    faults,     \* failures so far
    since,      \* history: when each disabled account was last disabled
    logouts,    \* history: the tokens whose sign-out was answered with "ok"
    unwritten,  \* history: those of them Redis did not record
    stale,      \* history: the requests accepted after such an answer
    late        \* history: the requests accepted for a disabled account

history == <<since, logouts, unwritten, stale, late>>
vars == <<depts, users, tokens, blacklist, handler, clock, calls, faults, history>>

Idle == [pc |-> "idle"]

Jti == (0 .. MaxTime) \X (Micro \cup DOMAIN Staff)

(* A pair of tokens: both carry the same claims.  seen is history: when    *)
(* the account was read for it.                                            *)
Pair == [jti : Jti, uid : Nat, role : 1 .. 3, dept : Nat,
         at : 0 .. MaxTime, seen : 0 .. MaxTime]

(* A row of sys_user; maker is history: the claims of its creator, role 0  *)
(* for the accounts of the seed script.                                    *)
Account == [name : NewName \cup DOMAIN Staff, role : 1 .. 3, dept : Nat,
            status : {0, 1}, maker : [role : 0 .. 3, dept : Nat]]

AcInit ==
    /\ depts = [d \in DOMAIN Founded |->
                  [parent |-> IF Len(Founded[d]) = 1 THEN 0
                              ELSE Founded[d][Len(Founded[d]) - 1],
                   path |-> FoldLeft(BuildPath, <<>>, Founded[d])]]
    /\ users = [u \in DOMAIN Staff |->
                  [name |-> u, role |-> Staff[u].role, dept |-> Staff[u].dept,
                   status |-> 1, maker |-> [role |-> 0, dept |-> 0]]]
    /\ tokens = {[jti |-> <<0, u>>, uid |-> u, role |-> Staff[u].role,
                  dept |-> Staff[u].dept, at |-> 0, seen |-> 0] : u \in DOMAIN Staff}
    /\ blacklist = <<>>
    /\ handler = [h \in Handler |-> Idle]
    /\ clock = 0 /\ calls = 0 /\ faults = 0
    /\ since = <<>>
    /\ logouts = {} /\ unwritten = {} /\ stale = {} /\ late = {}

Begin(h, request) ==
    /\ handler[h] = Idle
    /\ calls < MaxCalls
    /\ calls' = calls + 1
    /\ handler' = [handler EXCEPT ![h] = request]

Continue(h, request) ==
    handler' = [handler EXCEPT ![h] = request] /\ UNCHANGED calls

Finish(h) == Continue(h, Idle)

At(h, pc) == handler[h].pc = pc

Fault == faults < MaxFaults /\ faults' = faults + 1

(* The keys are given a value, new or instead of the one they had. *)
Put(f, keys, value) ==
    [k \in DOMAIN f \cup keys |-> IF k \in keys THEN value ELSE f[k]]

(***************************************************************************)
(* Tokens                                                                  *)
(***************************************************************************)
(* Login: the account is read by its name.  A wrong password or a disabled *)
(* account ends the request.                                               *)
Login(h) ==
    /\ \E u \in DOMAIN users :
          /\ users[u].status = 1
          /\ Begin(h, [pc |-> "mint", uid |-> u, role |-> users[u].role,
                       dept |-> users[u].dept, seen |-> clock, spent |-> {}])
    /\ UNCHANGED <<depts, users, tokens, blacklist, clock, faults, history>>

(* Mutant: a refresh does not look whether the account is still enabled. *)
RefreshUnchecked(h) ==
    /\ \E t \in tokens :
          /\ clock < t.at + RefreshTTL
          /\ Begin(h, [pc |-> "mint", uid |-> t.uid, role |-> t.role,
                       dept |-> t.dept, seen |-> clock, spent |-> {t.jti}])
    /\ UNCHANGED <<depts, users, tokens, blacklist, clock, faults, history>>

(* Refresh: the claims come from the token, the status from the table. *)
Refresh(h) ==
    /\ \E t \in tokens :
          /\ clock < t.at + RefreshTTL
          /\ t.uid \in DOMAIN users /\ users[t.uid].status = 1
          /\ Begin(h, [pc |-> "mint", uid |-> t.uid, role |-> t.role,
                       dept |-> t.dept, seen |-> clock, spent |-> {t.jti}])
    /\ UNCHANGED <<depts, users, tokens, blacklist, clock, faults, history>>

(* Redis SET key "1" ttl for each of the keys, or the call fails. *)
Listed(keys, ttl) == Put(blacklist, keys, clock + ttl)

(* GenerateTokens and the answer; a refresh first lists the token it used, *)
(* and does not mind when that fails.                                      *)
Mint(h) ==
    /\ At(h, "mint")
    /\ \E us \in Micro :
          tokens' = tokens \cup
             {[jti |-> <<clock, us>>, uid |-> handler[h].uid, role |-> handler[h].role,
               dept |-> handler[h].dept, at |-> clock, seen |-> handler[h].seen]}
    /\ \/ /\ blacklist' = Listed(handler[h].spent \X {"refresh"}, RefreshTTL)
          /\ UNCHANGED faults
       \/ handler[h].spent # {} /\ Fault /\ UNCHANGED blacklist
    /\ Finish(h)
    /\ UNCHANGED <<depts, users, clock, history>>

OnBlacklist(jti) ==
    /\ <<jti, "access">> \in DOMAIN blacklist
    /\ clock < blacklist[<<jti, "access">>]

Operation == {"logout", "dept", "user", "status"}

(* JWTAuth lets a request through to its handler: the token has not        *)
(* expired, and it is not on the black list or Redis did not answer.  The  *)
(* account is not looked at.                                               *)
Authenticate(h, t, op) ==
    /\ clock < t.at + AccessTTL
    /\ \/ ~OnBlacklist(t.jti) /\ UNCHANGED faults
       \/ Fault
    /\ Begin(h, [pc |-> op, token |-> t])
    /\ stale' = IF t \in logouts
                THEN stale \cup {[token |-> t, blind |-> faults' # faults]}
                ELSE stale
    /\ late' = IF t.uid \in DOMAIN since
               THEN late \cup {[token |-> t, at |-> clock, off |-> since[t.uid]]}
               ELSE late
    /\ UNCHANGED <<depts, users, tokens, blacklist, clock, since, logouts, unwritten>>

Claim(h) == handler[h].token

(* Mutant: the black list keeps a token for one tick. *)
LogoutShort(h) ==
    /\ At(h, "logout")
    /\ \/ /\ blacklist' = Listed({<<Claim(h).jti, "access">>}, 1)
          /\ UNCHANGED <<faults, unwritten>>
       \/ /\ Fault
          /\ unwritten' = unwritten \cup {Claim(h)}
          /\ UNCHANGED blacklist
    /\ logouts' = logouts \cup {Claim(h)}
    /\ Finish(h)
    /\ UNCHANGED <<depts, users, tokens, clock, since, stale, late>>

(* Logout: the token goes on the black list for as long as a token lives,  *)
(* and the answer is "ok" whatever Redis said.                             *)
Logout(h) ==
    /\ At(h, "logout")
    /\ \/ /\ blacklist' = Listed({<<Claim(h).jti, "access">>}, AccessTTL)
          /\ UNCHANGED <<faults, unwritten>>
       \/ /\ Fault
          /\ unwritten' = unwritten \cup {Claim(h)}
          /\ UNCHANGED blacklist
    /\ logouts' = logouts \cup {Claim(h)}
    /\ Finish(h)
    /\ UNCHANGED <<depts, users, tokens, clock, since, stale, late>>

(***************************************************************************)
(* Departments                                                             *)
(***************************************************************************)
(* NextID: MAX(id) + 1, or 0 when the query fails and nobody looks. *)
NextID(ids, base) ==
    IF ids = {} THEN base + 1 ELSE Max(ids) + 1

(* CreateDept reads the parent; only the school administrator may. *)
FindParent(h) ==
    /\ At(h, "dept")
    /\ \/ /\ Claim(h).role # 1
          /\ Finish(h)
       \/ /\ Claim(h).role = 1
          /\ \E p \in DOMAIN depts :
                Continue(h, [pc |-> "dept id", parent |-> p, path |-> depts[p].path])
    /\ UNCHANGED <<depts, users, tokens, blacklist, clock, faults, history>>

DeptID(h) ==
    /\ At(h, "dept id")
    /\ \/ /\ Continue(h, [pc |-> "dept insert", id |-> NextID(DOMAIN depts, 10),
                          row |-> [parent |-> handler[h].parent, path |-> handler[h].path]])
          /\ UNCHANGED faults
       \/ /\ Fault
          /\ Continue(h, [pc |-> "dept insert", id |-> 0,
                          row |-> [parent |-> handler[h].parent, path |-> handler[h].path]])
    /\ UNCHANGED <<depts, users, tokens, blacklist, clock, history>>

(* The insert: an id or a department code that is taken is refused. *)
InsertDept(h) ==
    /\ At(h, "dept insert")
    /\ \/ /\ handler[h].id \notin DOMAIN depts
          /\ LET path == BuildPath(handler[h].row.path, handler[h].id)
             IN  depts' = Put(depts, {handler[h].id}, [handler[h].row EXCEPT !.path = path])
       \/ UNCHANGED depts
    /\ Finish(h)
    /\ UNCHANGED <<users, tokens, blacklist, clock, faults, history>>

(***************************************************************************)
(* Accounts                                                                *)
(***************************************************************************)
(* The check CreateUser and UpdateUserStatus make of a college             *)
(* administrator: the department lies in the own subtree.                  *)
InOwnSubtree(claims, dept) ==
    claims.role = 2 => dept \in SubtreeIDs(depts, claims.dept)

(* CreateUser up to the check.  A college administrator makes only         *)
(* ordinary users, of the own subtree; nobody else is refused anything,    *)
(* not even a department that is not there.                                *)
CheckUser(h) ==
    /\ At(h, "user")
    /\ \/ \E name \in NewName, role \in 1 .. 3, d \in AskedDept :
            /\ ~(Claim(h).role = 2 /\ role <= 2)
            /\ InOwnSubtree(Claim(h), d)
            /\ Continue(h, [pc |-> "user id",
                            row |-> [name |-> name, role |-> role, dept |-> d, status |-> 1,
                                     maker |-> [role |-> Claim(h).role, dept |-> Claim(h).dept]]])
       \/ Claim(h).role = 2 /\ Finish(h)
    /\ UNCHANGED <<depts, users, tokens, blacklist, clock, faults, history>>

(* UserModel.NextID. *)
NextUserID == NextID(DOMAIN users, 10000)

UserID(h) ==
    /\ At(h, "user id")
    /\ \/ /\ Continue(h, [pc |-> "user insert", id |-> NextUserID,
                          row |-> handler[h].row])
          /\ UNCHANGED faults
       \/ /\ Fault
          /\ Continue(h, [pc |-> "user insert", id |-> 0, row |-> handler[h].row])
    /\ UNCHANGED <<depts, users, tokens, blacklist, clock, history>>

NameTaken(name) == \E u \in DOMAIN users : users[u].name = name

(* Mutant: an account with the same id is replaced. *)
InsertUserReplaces(h) ==
    /\ At(h, "user insert")
    /\ users' = IF NameTaken(handler[h].row.name) THEN users
                ELSE Put(users, {handler[h].id}, handler[h].row)
    /\ Finish(h)
    /\ UNCHANGED <<depts, tokens, blacklist, clock, faults, history>>

(* The insert: an id or a username that is taken is refused. *)
InsertUser(h) ==
    /\ At(h, "user insert")
    /\ users' = IF handler[h].id \in DOMAIN users \/ NameTaken(handler[h].row.name)
                THEN users
                ELSE Put(users, {handler[h].id}, handler[h].row)
    /\ Finish(h)
    /\ UNCHANGED <<depts, tokens, blacklist, clock, faults, history>>

(* UpdateUserStatus: the account and the subtree are read ... *)
CheckStatus(h) ==
    /\ At(h, "status")
    /\ \E u \in DOMAIN users, status \in {0, 1} :
          \/ /\ InOwnSubtree(Claim(h), users[u].dept)
             /\ Continue(h, [pc |-> "set status", uid |-> u, status |-> status])
          \/ /\ ~InOwnSubtree(Claim(h), users[u].dept)
             /\ Finish(h)
    /\ UNCHANGED <<depts, users, tokens, blacklist, clock, faults, history>>

(* ... and the status is written.  The tokens of the account stay. *)
UpdateStatus(h) ==
    /\ At(h, "set status")
    /\ LET u == handler[h].uid IN
       /\ users' = [users EXCEPT ![u].status = handler[h].status]
       /\ since' = IF handler[h].status = 1
                   THEN [v \in DOMAIN since \ {u} |-> since[v]]
                   ELSE IF users[u].status = 0 THEN since
                        ELSE Put(since, {u}, clock)
    /\ Finish(h)
    /\ UNCHANGED <<depts, tokens, blacklist, clock, faults, logouts, unwritten, stale, late>>

(* ListUsers, all its pages: the accounts of the own subtree, or of the     *)
(* subtree asked for (0: none is).  No department means no restriction.    *)
Listing(claims, filter) ==
    LET own == IF claims.role = 2 THEN SubtreeIDs(depts, claims.dept) ELSE {}
        asked == IF filter = 0 THEN own ELSE SubtreeIDs(depts, filter)
        refused == \/ claims.role > 2
                   \/ claims.role = 2 /\ own = {}
                   \/ claims.role = 2 /\ filter # 0 /\ filter \notin own
    IN  {u \in DOMAIN users : ~refused /\ (asked = {} \/ users[u].dept \in asked)}

Tick ==
    /\ clock < MaxTime
    /\ clock' = clock + 1
    /\ UNCHANGED <<depts, users, tokens, blacklist, handler, calls, faults, history>>

AcNext ==
    \/ \E h \in Handler :
          \/ Login(h) \/ Refresh(h) \/ Mint(h) \/ Logout(h)
          \/ \E t \in tokens, op \in Operation : Authenticate(h, t, op)
          \/ FindParent(h) \/ DeptID(h) \/ InsertDept(h)
          \/ CheckUser(h) \/ UserID(h) \/ InsertUser(h)
          \/ CheckStatus(h) \/ UpdateStatus(h)
    \/ Tick

AcSpec == AcInit /\ [][AcNext]_vars

(***************************************************************************)
(* Properties                                                              *)
(***************************************************************************)
(* Types of the tables, of the tokens and of the black list, with the keys *)
(* the database keeps unique: usernames are not shared, and a token is     *)
(* never read before it is issued.                                         *)
AcTypeOK ==
    /\ \A d \in DOMAIN depts : d \in Nat /\ depts[d].parent \in Nat
    /\ \A u \in DOMAIN users : u \in Nat /\ users[u] \in Account
    /\ tokens \subseteq Pair
    /\ \A k \in DOMAIN blacklist : k \in Jti \X {"access", "refresh"}
    /\ \A u, v \in DOMAIN users : users[u].name = users[v].name => u = v
    /\ \A t \in tokens : t.seen <= t.at

(* The departments found by the text of their paths are those found by     *)
(* following parent_id, however departments are created at the same time:  *)
(* an id that begins with the digits of another is not taken for its       *)
(* child.  A department 0, made when NextID failed, is the one exception:  *)
(* parent_id 0 also marks the root.                                        *)
SubtreeIsDescendants ==
    0 \notin DOMAIN depts =>
        \A d \in DOMAIN depts : SubtreeIDs(depts, d) = Descendants(depts, d)

(* The tree the API draws for an administrator hangs together: it shows    *)
(* exactly the departments of the scope that the rpc, the reports and the  *)
(* checks of CreateUser use, none lost for want of its parent.             *)
TreeShowsScope ==
    /\ DeptTree(depts, 1, 1) = DOMAIN depts
    /\ \A d \in DOMAIN depts : DeptTree(depts, 2, d) = DeptScope(depts, d)

(* Shared assets are visible within a college: the sets the departments    *)
(* see divide what lies below the root, so whoever is seen sees back.      *)
CollegesAreDisjoint ==
    LET views == {CollegeSubtreeIDs(depts, d) : d \in DOMAIN depts}
    IN  /\ \A v, w \in views : v = w \/ v \cap w = {}
        /\ UNION views = {d \in DOMAIN depts : PathDepth(depts[d].path) >= 2}

(* The services take their scopes from paths, as text: whatever departments *)
(* are created at the same time, subtrees, colleges and the tree that is   *)
(* shown are those of the organisation.                                    *)
ScopesFollowTree == SubtreeIsDescendants /\ CollegesAreDisjoint /\ TreeShowsScope

(* The claims of a token are those of its account for as long as the       *)
(* account exists, across refreshes and although two accounts can be       *)
(* created with the same id in hand.                                       *)
ClaimsAreTrue ==
    \A t \in tokens :
        /\ t.uid \in DOMAIN users
        /\ t.role = users[t.uid].role
        /\ t.dept = users[t.uid].dept

(* The types and the keys together with the claims that rest on them. *)
AcInv == AcTypeOK /\ ClaimsAreTrue

(* An account made by a college administrator is an ordinary user of a     *)
(* department that stands below the administrator's own, by parent_id, and *)
(* the administrator finds it again in the list, with and without its      *)
(* department as the filter.                                               *)
MadeInOwnCollege ==
    \A u \in DOMAIN users :
        (users[u].maker.role = 2 /\ 0 \notin DOMAIN depts) =>
            /\ users[u].role = 3
            /\ users[u].dept \in Descendants(depts, users[u].maker.dept)
            /\ u \in Listing(users[u].maker, 0) \cap Listing(users[u].maker, users[u].dept)

(* What disabling an account achieves, which is less than doc/03 says: its *)
(* access tokens are not listed and JWTAuth does not look at the account,  *)
(* so its requests go on being accepted, but by no refresh for longer than *)
(* an access token lives.  Only a token still being made when the account  *)
(* was disabled, from a row read before that, is accepted later.           *)
DisabledRunsOut ==
    \A s \in late :
        \/ s.at < s.off + AccessTTL
        \/ s.token.seen <= s.off /\ s.off < s.token.at

(* After a sign-out was answered user-api does not accept the access token *)
(* again for the rest of its life, unless Redis failed to record it or     *)
(* failed to answer the middleware: both errors are ignored.               *)
SignedOutStaysOut ==
    \A s \in stale : s.blind \/ s.token \in unwritten
=============================================================================
