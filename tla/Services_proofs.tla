--------------------------- MODULE Services_proofs ---------------------------
(***************************************************************************)
(* Proofs about the services that MCServices composes, each by itself.       *)
(* Accounts, for every set of visitors and names: what each stage of a       *)
(* set-up has already made true, as long as no two were under way at once.   *)
(* ServerLifecycle, for every set of requests and of callers of Close: what  *)
(* each phase of Close and each stage of the start has made true, so that     *)
(* what is closed is known from closePhase alone.  RateLimits, for every      *)
(* rate, burst and window: what is left in a bucket and what is left of a     *)
(* streak of failures.  SkillStore, for every set of names and requests:      *)
(* what a reload under way knows of the tree while no event is left.  LogHub, *)
(* for every bound and set of readers: how what is in a reader's queue joins   *)
(* what it has got to the lines of the log, so that the hub is a RunLog.       *)
(***************************************************************************)
EXTENDS Accounts, ServerLifecycle, RateLimits, SkillStore, LogHub, FiniteSetTheorems, FunctionTheorems,
        TLAPS

-----------------------------------------------------------------------------
(* Accounts *)

Record == [user : UserName, hash : Visitor]

SetupsTyped ==
  setups \in [Visitor -> [stage : {"new", "checked", "stored", "set", "read", "keyed", "answered", "refused"},
                          user : UserName \cup {Nobody}, read : Visitor \cup {Nobody}]]

\* A request that found no user has a name; from its third step on there is an
\* account.
Named ==
  \A v \in Visitor :
    /\ setups[v].stage \notin {"new", "refused"} => setups[v].user \in UserName
    /\ setups[v].stage \in {"set", "read", "keyed"} => account # Nobody

\* Before anything is stored there is no account, no key and no cookie.
NothingYet == account = Nobody /\ apiKey = Nobody /\ cookies = {}

\* What is true at each stage of the one set-up under way.
StageHolds(v) ==
  /\ setups[v].stage = "checked" => users = {} /\ NothingYet
  /\ setups[v].stage = "stored" => users = {Account(v)} /\ NothingYet
  /\ setups[v].stage \in {"set", "read"} =>
       /\ account = Account(v) /\ users = {account} /\ apiKey = Nobody
       /\ \A cookie \in cookies : cookie.key = Nobody
  /\ setups[v].stage = "read" => setups[v].read = v
  /\ setups[v].stage = "keyed" => account = Account(v) /\ users = {account} /\ apiKey = v

\* ... and between two of them; the last if the process could not read the row.
AtRest ==
  \/ users = {} /\ NothingYet
  \/ account # Nobody /\ users = {account} /\ apiKey = account.hash
  \/ /\ unread /\ account = Nobody /\ apiKey = Nobody
     /\ \E u \in users : users = {u}

OneAtATime ==
  ~contested =>
    /\ \A v, w \in Visitor : UnderWay(v) /\ UnderWay(w) => v = w
    /\ \A v \in Visitor : StageHolds(v)
    /\ (\A v \in Visitor : ~UnderWay(v)) => AtRest
    /\ \A cookie \in cookies : cookie.key # Nobody => \E u \in users : cookie.key = u.hash
    /\ \A v \in Visitor : setups[v].stage = "answered" => users = {Account(v)}

\* A key that the pages have is that of the account from which the server
\* started, and no set-up begins with an account there.
PagesSettled ==
  pageKey # Nobody =>
    account # Nobody /\ apiKey = pageKey /\ \A v \in Visitor : ~UnderWay(v)

AccountInv == AccountTypeOK /\ SetupsTyped /\ Named /\ OneAtATime /\ PagesSettled

-----------------------------------------------------------------------------
\* An account is a record, so that its hash is not Nobody.
LEMMA AccountIsRecord ==
  ASSUME AccountTypeOK, account # Nobody
  PROVE  account \in Record /\ account.hash \in Visitor /\ account.hash # Nobody
BY NobodyApart DEF AccountTypeOK, Record

LEMMA AccountsBegin == AccountInit => AccountInv
BY DEF AccountInit, AccountInv, AccountTypeOK, SetupsTyped, Named, OneAtATime, PagesSettled,
       Fresh, UnderWay, StageHolds, AtRest, NothingYet, Key

\* Each step of a set-up keeps what the stages before it have made true.
LEMMA SetupKeeps ==
  ASSUME AccountInv, NEW v \in Visitor,
         \/ \E name \in UserName : SetupChecks(v, name)
         \/ SetupStores(v) \/ SetupSetsUser(v) \/ SetupReadsUser(v)
         \/ SetupSetsKey(v) \/ SetupAnswers(v)
  PROVE  AccountInv'
<1>. USE NobodyApart DEF AccountInv, AccountTypeOK, SetupsTyped, Named, OneAtATime, PagesSettled,
             UnderWay, StageHolds, AtRest, NothingYet, Key, Account, At
<1>1. CASE \E name \in UserName : SetupChecks(v, name)
  <2>1. PICK name \in UserName : SetupChecks(v, name)
    BY <1>1
  <2>2. /\ setups'[v] = [stage |-> "checked", user |-> name, read |-> Nobody]
        /\ \A w \in Visitor \ {v} : setups'[w] = setups[w]
    BY <2>1 DEF SetupChecks
  <2>3. AccountTypeOK' /\ SetupsTyped'
    BY <2>1 DEF SetupChecks
  <2>4. ~contested' => users = {} /\ NothingYet /\ \A w \in Visitor : ~UnderWay(w)
    BY <2>1 DEF SetupChecks
  <2>5. Named' /\ OneAtATime' /\ PagesSettled'
    BY <2>1, <2>2, <2>4, ZenonT(40) DEF SetupChecks
  <2>. QED BY <2>3, <2>5
<1>2. CASE SetupStores(v)
  <2>1. /\ setups' = [setups EXCEPT ![v].stage = setups'[v].stage]
        /\ setups[v].stage = "checked" /\ setups'[v].stage \in {"stored", "refused"}
    BY <1>2 DEF SetupStores, StoreUser, StoreFails
  <2>2. \A w \in Visitor : Account(w)' = Account(w)
    BY <2>1
  <2>3. AccountTypeOK' /\ SetupsTyped' /\ Named' /\ PagesSettled'
    BY <1>2, <2>1 DEF SetupStores, StoreUser, StoreFails
  <2>4. ASSUME ~contested
        PROVE  /\ users = {} /\ NothingYet /\ NothingYet'
               /\ \A w \in Visitor : w # v => ~UnderWay(w) /\ ~UnderWay(w)'
               /\ \A w \in Visitor : setups[w].stage # "answered" /\ setups'[w].stage # "answered"
    <3>1. UnderWay(v) /\ StageHolds(v)
      BY <2>1, <2>4
    <3>2. users = {} /\ NothingYet /\ NothingYet'
      BY <1>2, <2>1, <3>1 DEF SetupStores
    <3>3. \A w \in Visitor : w # v => ~UnderWay(w) /\ setups'[w] = setups[w]
      BY <2>1, <2>4, <3>1 DEF SetupsTyped
    <3>4. \A w \in Visitor : setups[w].stage # "answered"
      BY <2>4, <3>2
    <3>5. setups'[v].stage # "answered"
      BY <2>1
    <3>. QED BY <3>2, <3>3, <3>4, <3>5
  <2>5. CASE StoreUser(v)
    <3>1. ~contested => users' = {Account(v)'} /\ setups'[v].stage = "stored"
      BY <2>2, <2>4, <2>5 DEF StoreUser
    <3>2. OneAtATime'
      BY <1>2, <2>1, <2>4, <3>1 DEF SetupStores
    <3>. QED BY <2>3, <3>2
  <2>6. CASE StoreFails(v)
    <3>1. setups'[v].stage = "refused" /\ users' = users
      BY <2>6 DEF StoreFails
    <3>2. OneAtATime'
      BY <1>2, <2>1, <2>4, <3>1 DEF SetupStores
    <3>. QED BY <2>3, <3>2
  <2>. QED BY <1>2, <2>5, <2>6 DEF SetupStores
<1>3. CASE SetupSetsUser(v)
  BY <1>3 DEF SetupSetsUser
<1>4. CASE SetupReadsUser(v)
  <2>1. account # Nobody /\ account.hash \in Visitor /\ account.hash # Nobody
    BY <1>4, AccountIsRecord DEF SetupReadsUser
  <2>. QED BY <1>4, <2>1 DEF SetupReadsUser
<1>5. CASE SetupSetsKey(v)
  BY <1>5 DEF SetupSetsKey
<1>6. CASE SetupAnswers(v)
  BY <1>6 DEF SetupAnswers
<1>. QED BY <1>1, <1>2, <1>3, <1>4, <1>5, <1>6

\* A login gives a cookie of the key of the account, or, between the user and
\* the key of a set-up, of nobody's key.
LEMMA LogInKeeps == ASSUME AccountInv, LogIn PROVE AccountInv'
<1>1. account.user \in UserName
  BY AccountIsRecord DEF LogIn, AccountInv, Record
<1>. QED
  BY <1>1 DEF LogIn, AccountInv, AccountTypeOK, SetupsTyped, Named, OneAtATime, PagesSettled,
              UnderWay, StageHolds, AtRest, NothingYet, Key, Account

\* A process that starts again takes the row that is there, unless the read
\* fails, and no set-up is under way then.
LEMMA RestartKeeps == ASSUME AccountInv, RestartServer PROVE AccountInv'
<1>. USE DEF AccountInv, AccountTypeOK, UnderWay
<1>1. /\ account' \in Record \cup {Nobody}
      /\ account' # Nobody => account' \in users /\ account'.hash \in Visitor /\ account'.hash # Nobody
      /\ account' = Nobody => users = {} \/ unread'
  BY NobodyApart DEF RestartServer, ReadUser, Record
<1>2. \A v \in Visitor :
        /\ UnderWay(v) => setups'[v] = [stage |-> "refused", user |-> setups[v].user, read |-> setups[v].read]
        /\ ~UnderWay(v) => setups'[v] = setups[v]
  BY DEF RestartServer, SetupsTyped
<1>3. SetupsTyped'
  BY <1>2 DEF RestartServer, SetupsTyped
<1>4. AccountTypeOK' /\ Named'
  BY <1>1, <1>2 DEF RestartServer, Named, Key, Record
\* At whatever stage it ended, there is one row or none.
<1>5. ~contested => (users = {} /\ cookies = {}) \/ \E u \in users : users = {u}
  BY DEF SetupsTyped, Named, OneAtATime, StageHolds, AtRest, NothingYet, Account
<1>6. \A v \in Visitor : /\ setups'[v].stage \in {"new", "refused", "answered"}
                         /\ setups'[v].stage = "answered" => setups'[v] = setups[v]
  <2>. TAKE v \in Visitor
  <2>1. setups[v].stage \in {"new", "checked", "stored", "set", "read", "keyed", "answered", "refused"}
    BY DEF SetupsTyped
  <2>2. CASE UnderWay(v)
    <3>1. setups'[v] = [stage |-> "refused", user |-> setups[v].user, read |-> setups[v].read]
      BY <1>2, <2>2
    <3>. QED BY <3>1
  <2>3. CASE ~UnderWay(v)
    BY <1>2, <2>1, <2>3
  <2>. QED BY <2>2, <2>3
<1>7. ~contested => AtRest'
  <2>1. CASE account' = Nobody
    BY <1>1, <1>5, <2>1 DEF RestartServer, AtRest, NothingYet
  <2>2. CASE account' # Nobody
    BY <1>1, <1>5, <2>2 DEF RestartServer, AtRest
  <2>. QED BY <2>1, <2>2
<1>8. ~contested => \A cookie \in cookies' : cookie.key # Nobody => \E u \in users' : cookie.key = u.hash
  BY DEF RestartServer, OneAtATime
<1>9. ~contested => \A v \in Visitor : setups'[v].stage = "answered" => users' = {Account(v)}'
  BY <1>6 DEF RestartServer, OneAtATime, Account
<1>10. OneAtATime'
  BY <1>6, <1>7, <1>8, <1>9 DEF RestartServer, OneAtATime, StageHolds
<1>11. PagesSettled'
  BY <1>1, <1>6 DEF RestartServer, PagesSettled
<1>. QED BY <1>3, <1>4, <1>10, <1>11

\* What the run checks, from the inductive invariant.
LEMMA AccountInvGives == ASSUME AccountInv PROVE AccountStays /\ PagesFollow
<1>1. account # Nobody => account.hash # Nobody
  BY AccountIsRecord DEF AccountInv
<1>2. AccountStays
  <2>1. ~contested /\ account # Nobody => users = {account}
    BY DEF AccountInv, OneAtATime, StageHolds, AtRest, NothingYet, SetupsTyped, UnderWay
  <2>. QED BY <1>1, <2>1 DEF AccountStays, AccountInv, OneAtATime, AtRest, NothingYet, LoggedIn
<1>3. PagesFollow
  BY DEF AccountInv, PagesSettled, PagesFollow, LoggedIn, PageUser
<1>. QED BY <1>2, <1>3

\* Whatever the order of set-ups, logins and restarts: without two set-ups at
\* once the account that was set up is the one that is stored, its cookies stay
\* good, and the pages lock nobody out but until the first restart (Manager.Setup,
\* Server.handleSetup and main.go).
THEOREM AccountIsKept == AccountSpec => []AccountLasts
<1>1. AccountInit => AccountInv
  BY AccountsBegin
<1>2. AccountInv /\ [AccountNext]_accountVars => AccountInv'
  <2>. SUFFICES ASSUME AccountInv, [AccountNext]_accountVars PROVE AccountInv'
    OBVIOUS
  <2>1. ASSUME NEW v \in Visitor, NEW name \in UserName, SetupChecks(v, name) PROVE AccountInv'
    BY <2>1, SetupKeeps
  <2>2. ASSUME NEW v \in Visitor,
               \/ SetupStores(v) \/ SetupSetsUser(v) \/ SetupReadsUser(v)
               \/ SetupSetsKey(v) \/ SetupAnswers(v)
        PROVE  AccountInv'
    BY <2>2, SetupKeeps
  <2>3. CASE LogIn
    BY <2>3, LogInKeeps
  <2>4. CASE RestartServer
    BY <2>4, RestartKeeps
  <2>5. CASE UNCHANGED accountVars
    BY <2>5 DEF accountVars, AccountInv, AccountTypeOK, SetupsTyped, Named, OneAtATime,
                PagesSettled, UnderWay, StageHolds, AtRest, NothingYet, Account
  <2>. QED BY <2>1, <2>2, <2>3, <2>4, <2>5 DEF AccountNext
<1>3. AccountInv => AccountLasts
  BY AccountInvGives DEF AccountInv, AccountLasts
<1>. QED BY <1>1, <1>2, <1>3, PTL DEF AccountSpec

-----------------------------------------------------------------------------
(* ServerLifecycle *)

\* While the process starts there is no work and nobody closes.
Starting ==
  boot = "starting" =>
    /\ main = "starting" /\ quiesced = "no" /\ phase = 1 /\ step = "none"
    /\ \A c \in Closer : at[c] = "idle"
    /\ \E n \in 1 .. 7 : open = {StartOrder[i] : i \in 1 .. n}

\* Work comes from the listener, which only a started process has.
WorkIsServed ==
  /\ main = "starting" => boot = "starting"
  /\ listening \/ main \in {"serving", "draining"} => boot = "up"
  /\ boot # "up" => \A r \in Request : handler[r] = "new" /\ run[r] = "none"
  /\ streams \subseteq Tracked
  /\ boot = "failed" => "mcp" \notin open /\ "prober" \notin open

\* What the phases of Close have waited for, and does not come back.
Drained ==
  /\ phase > 1 \/ (\E c \in Closer : at[c] = "closing") => quiesced = "runs"
  /\ phase > 1 => Tracked = {}
  /\ phase > 3 => LiveRuns = {}
  /\ step # "none" => Now \in {"mcp", "skills", "prober", "store"}
  /\ step = "failed" => Now = "store"
  /\ \A c \in Closer : at[c] = "ok" => Now = "done"

\* The resources are closed in the order of the phases: those of earlier phases
\* are, those of later ones are not.
ClosedInOrder ==
  /\ \A i \in 1 .. 11 : i < phase => Phase[i] \notin open \/ (Phase[i] = "hub" /\ ~ownsHub)
  /\ step \in {"closed", "failed"} => Now \notin open
  /\ boot = "up" =>
       \A i \in 1 .. 11 : Phase[i] \in Resource \ open =>
         \/ i < phase
         \/ i = phase /\ (step # "none" \/ Phase[i] = "store")

ServerInv == ServerTypeOK /\ Starting /\ WorkIsServed /\ Drained /\ ClosedInOrder

-----------------------------------------------------------------------------
LEMMA Phases ==
  /\ DOMAIN Phase = 1 .. 11 /\ \A i, j \in 1 .. 11 : Phase[i] = Phase[j] => i = j
  /\ Phase[1] = "requests" /\ Phase[2] = "streams" /\ Phase[3] = "runs" /\ Phase[4] = "mcp"
  /\ Phase[5] = "httpLimiter" /\ Phase[6] = "loginLimiter" /\ Phase[7] = "skills"
  /\ Phase[8] = "prober" /\ Phase[9] = "store" /\ Phase[10] = "hub" /\ Phase[11] = "done"
BY DEF Phase

LEMMA Resources ==
  Resource = {"hub", "store", "httpLimiter", "loginLimiter", "runs", "skills", "mcp", "prober"}
<1>1. DOMAIN StartOrder = 1 .. 8
  BY DEF StartOrder
<1>2. \A i \in 1 .. 8 : i = 1 \/ i = 2 \/ i = 3 \/ i = 4 \/ i = 5 \/ i = 6 \/ i = 7 \/ i = 8
  OBVIOUS
<1>. QED BY <1>1, <1>2 DEF Resource, StartOrder
LEMMA ServerBegins == ServerInit => ServerInv
<1>. SUFFICES ASSUME ServerInit PROVE ServerInv
  OBVIOUS
<1>. USE DEF ServerInit
<1>1. ServerTypeOK
  <2>1. open \subseteq Resource
    BY Resources
  <2>2. phase \in DOMAIN Phase
    BY Phases
  <2>. QED BY <2>1, <2>2 DEF ServerTypeOK
<1>2. Starting
  <2>1. open = {StartOrder[i] : i \in 1 .. 1}
    BY DEF StartOrder
  <2>. QED BY <2>1 DEF Starting
<1>3. WorkIsServed /\ Drained
  BY DEF WorkIsServed, Drained
<1>4. ClosedInOrder
  BY DEF ClosedInOrder
<1>. QED BY <1>1, <1>2, <1>3, <1>4 DEF ServerInv

\* The constructor opens the resources one by one.
LEMMA OneMoreOpen ==
  ASSUME NEW n \in 1 .. 7
  PROVE  /\ Cardinality({StartOrder[i] : i \in 1 .. n}) = n
         /\ {StartOrder[i] : i \in 1 .. n} \cup {StartOrder[n + 1]} = {StartOrder[i] : i \in 1 .. n + 1}
<1>1. \A i, j \in 1 .. 8 : StartOrder[i] = StartOrder[j] => i = j
  BY DEF StartOrder
<1>. DEFINE f == [i \in 1 .. n |-> StartOrder[i]]
            T == {StartOrder[i] : i \in 1 .. n}
<1>2. ExistsBijection(1 .. n, T)
  <2>1. f \in [1 .. n -> T] /\ \A a, b \in 1 .. n : f[a] = f[b] => a = b
    BY <1>1
  <2>2. \A t \in T : \E i \in 1 .. n : f[i] = t
    OBVIOUS
  <2>3. f \in Bijection(1 .. n, T)
    BY <2>1, <2>2, Fun_IsBij
  <2>. QED BY <2>3 DEF ExistsBijection
<1>3. IsFiniteSet(1 .. n) /\ Cardinality(1 .. n) = n
  <2>1. 1 \in Int /\ n \in Int /\ ~(1 > n) /\ n - 1 + 1 = n
    OBVIOUS
  <2>. QED BY <2>1, FS_Interval
<1>4. Cardinality({StartOrder[i] : i \in 1 .. n}) = n
  BY <1>2, <1>3, FS_Bijection
<1>5. T \cup {StartOrder[n + 1]} = {StartOrder[i] : i \in 1 .. n + 1}
  OBVIOUS
<1>. QED BY <1>4, <1>5

-----------------------------------------------------------------------------
\* The start: each resource after the one before, and a failure at any of them.
LEMMA StartKeeps ==
  ASSUME ServerInv, Start \/ StartFailsEarly \/ StartFailsLate
  PROVE  ServerInv'
<1>. USE Phases DEF ServerInv
<1>1. /\ boot = "starting" /\ main = "starting" /\ quiesced = "no" /\ phase = 1 /\ step = "none"
      /\ \A c \in Closer : at[c] = "idle"
      /\ \A r \in Request : handler[r] = "new" /\ run[r] = "none"
      /\ Tracked = {} /\ streams = {} /\ LiveRuns = {}
  BY DEF Start, StartFailsEarly, StartFailsLate, Starting, WorkIsServed, Tracked, LiveRuns
<1>2. PICK n \in 1 .. 7 : open = {StartOrder[i] : i \in 1 .. n}
  BY <1>1 DEF Starting
<1>3. UNCHANGED <<handler, streams, run, phase, step, ownsHub>> /\ Tracked' = {} /\ LiveRuns' = {}
  BY <1>1 DEF Start, StartFailsEarly, StartFailsLate, workVars, closeVars, Tracked, LiveRuns
<1>4. CASE Start
  <2>1. open' = {StartOrder[i] : i \in 1 .. n + 1} /\ (boot' = "up" <=> n = 7)
    <3>1. Cardinality(open) + 1 = n + 1 /\ open \cup {StartOrder[n + 1]} = {StartOrder[i] : i \in 1 .. n + 1}
      BY <1>2, OneMoreOpen
    <3>2. StartOrder[n + 1] = "prober" <=> n = 7
      BY DEF StartOrder
    <3>. QED BY <1>1, <1>4, <3>1, <3>2 DEF Start
  <2>2. n = 7 => open' = Resource
    BY <2>1, Resources DEF StartOrder
  <2>3. /\ n < 7 => UNCHANGED <<boot, main, listening>> /\ n + 1 \in 1 .. 7
        /\ open' \subseteq Resource
    <3>1. DOMAIN StartOrder = 1 .. 8
      BY DEF StartOrder
    <3>. QED BY <1>1, <1>4, <2>1, <3>1 DEF Start, Resource
  <2>4. Starting'
    BY <1>1, <1>3, <1>4, <2>1, <2>3 DEF Start, closeVars, Starting
  <2>5. ServerTypeOK'
    <3>1. boot' \in {"starting", "up"} /\ main' \in {"starting", "serving"} /\ listening' \in BOOLEAN
      <4>1. CASE n = 7
        BY <1>4, <2>1, <4>1 DEF Start
      <4>2. CASE n < 7
        BY <1>1, <2>3, <4>2 DEF ServerTypeOK
      <4>. QED BY <4>1, <4>2
    <3>. QED BY <1>3, <1>4, <2>3, <3>1 DEF Start, closeVars, ServerTypeOK
  <2>6. WorkIsServed' /\ Drained'
    BY <1>1, <1>3, <1>4, <2>1, <2>3 DEF Start, closeVars, WorkIsServed, Drained
  <2>7. ClosedInOrder'
    BY <1>1, <1>3, <1>4, <2>1, <2>2, <2>3 DEF Start, closeVars, ClosedInOrder
  <2>. QED BY <2>4, <2>5, <2>6, <2>7
<1>5. CASE StartFailsEarly
  BY <1>1, <1>3, <1>5
     DEF StartFailsEarly, workVars, closeVars, ServerTypeOK, Starting, WorkIsServed, Drained, ClosedInOrder
<1>6. CASE StartFailsLate
  BY <1>1, <1>2, <1>3, <1>6, MainCloses
     DEF StartFailsLate, workVars, closeVars, BeginQuiesce, ServerTypeOK, Starting, WorkIsServed, Drained,
         ClosedInOrder, StartOrder
<1>. QED BY <1>4, <1>5, <1>6

\* The handlers and the runs: nothing is tracked or started once it was refused.
LEMMA RequestKeeps ==
  ASSUME ServerInv, NEW r \in Request,
         Arrive(r) \/ BeginRequest(r) \/ BeginStream(r) \/ StartRun(r) \/ Work(r)
  PROVE  ServerInv'
<1>. USE DEF ServerInv
<1>1. /\ UNCHANGED <<processVars, main, closeVars>> /\ boot = "up"
      /\ ServerTypeOK' /\ streams' \subseteq Tracked'
  <2>. USE DEF ServerTypeOK, WorkIsServed, Tracked, processVars, workVars, closeVars
  <2>1. CASE Arrive(r) \/ BeginRequest(r)
    BY <2>1 DEF Arrive, BeginRequest
  <2>2. CASE BeginStream(r) \/ EndStream(r)
    BY <2>2 DEF BeginStream, EndStream
  <2>3. CASE StartRun(r) \/ EndRun(r)
    BY <2>3 DEF StartRun, EndRun
  <2>4. CASE EndRequest(r)
    BY <2>4 DEF EndRequest
  <2>. QED BY <2>1, <2>2, <2>3, <2>4 DEF Work
<1>2. /\ Tracked' \subseteq Tracked \/ quiesced = "no"
      /\ LiveRuns' \subseteq LiveRuns \/ Tracked # {}
  BY DEF Arrive, BeginRequest, BeginStream, StartRun, Work, EndStream, EndRequest, EndRun,
         ServerTypeOK, Tracked, LiveRuns
<1>3. Starting' /\ WorkIsServed'
  BY <1>1 DEF Starting, WorkIsServed, processVars, closeVars
<1>4. Drained'
  <2>1. phase \in 1 .. 11
    BY Phases DEF ServerTypeOK
  <2>2. /\ phase > 1 => Tracked' = {}
        /\ phase > 3 => LiveRuns' = {}
    BY <1>2, <2>1 DEF Drained
  <2>. QED BY <1>1, <2>2 DEF Drained, processVars, closeVars, Now
<1>5. ClosedInOrder'
  BY <1>1 DEF ClosedInOrder, processVars, closeVars, Now
<1>. QED BY <1>1, <1>3, <1>4, <1>5

\* The main goroutine; it closes the hub last.
LEMMA MainKeeps ==
  ASSUME ServerInv, Shutdown \/ QuiesceRuns \/ HTTPDrained \/ MainReturns
  PROVE  ServerInv'
<1>. USE Phases DEF ServerInv, processVars, workVars, closeVars, Tracked, LiveRuns
<1>1. CASE Shutdown
  <2>1. boot = "up" /\ boot' = "up" /\ main' = "draining" /\ quiesced' \in {"requests", "runs"}
        /\ (quiesced = "runs" => quiesced' = "runs")
    BY <1>1 DEF Shutdown, BeginQuiesce, ServerTypeOK, WorkIsServed
  <2>2. ServerTypeOK' /\ Starting' /\ WorkIsServed'
    BY <1>1, <2>1 DEF Shutdown, ServerTypeOK, Starting, WorkIsServed
  <2>3. Drained' /\ ClosedInOrder'
    BY <1>1, <2>1 DEF Shutdown, Drained, ClosedInOrder, Now
  <2>. QED BY <2>2, <2>3
<1>2. CASE QuiesceRuns
  BY <1>2 DEF QuiesceRuns, ServerTypeOK, Starting, WorkIsServed, Drained, ClosedInOrder, Now
<1>3. CASE HTTPDrained
  BY <1>3, MainCloses DEF HTTPDrained, ServerTypeOK, Starting, WorkIsServed, Drained, ClosedInOrder, Now
<1>4. CASE MainReturns
  <2>1. at[Main] = "ok" => phase = 11
    BY MainCloses DEF Drained, Now, ServerTypeOK
  <2>. QED
    BY <1>4, <2>1, MainCloses DEF MainReturns, ServerTypeOK, Starting, WorkIsServed, Drained, ClosedInOrder, Now
<1>. QED BY <1>1, <1>2, <1>3, <1>4

-----------------------------------------------------------------------------
\* Callers of Close that come, wait and give up move nothing but themselves.
LEMMA CallersKeep ==
  ASSUME ServerInv, NEW c \in Closer,
         \/ CallClose(c) \/ Expire(c) \/ TakeGate(c) \/ GiveUpGate(c) \/ CheckContext(c) \/ Leave(c)
  PROVE  ServerInv'
<1>. USE DEF ServerInv
<1>1. /\ UNCHANGED <<ownsHub, boot, open, listening, handler, streams, run, main, phase, step, closeErr>>
      /\ quiesced' = quiesced \/ (quiesced = "no" /\ quiesced' = "requests" /\ boot = "up")
  BY DEF CallClose, BeginQuiesce, Expire, TakeGate, GiveUpGate, CheckContext, Leave, processVars, workVars
<1>2. /\ ServerTypeOK' /\ (boot = "starting" => at' = at /\ quiesced' = quiesced)
      /\ \A d \in Closer : /\ at'[d] = "ok" => at[d] = "ok"
                           /\ at'[d] = "closing" => at[d] = "closing" \/ quiesced = "runs"
  <2>1. boot = "starting" => at' = at /\ quiesced' = quiesced
    BY <1>1 DEF CallClose, Expire, TakeGate, GiveUpGate, CheckContext, Leave, Starting
  <2>2. \/ at' = at
        \/ \E s \in {"waiting", "closing", "deadline"} :
             at' = [at EXCEPT ![c] = s] /\ (s = "closing" => quiesced = "runs")
    BY DEF CallClose, Expire, TakeGate, GiveUpGate, CheckContext, Leave
  <2>3. expired' \subseteq Closer /\ passed' \in BOOLEAN
    BY DEF CallClose, Expire, TakeGate, GiveUpGate, CheckContext, Leave, ServerTypeOK
  <2>. QED BY <1>1, <2>1, <2>2, <2>3 DEF ServerTypeOK
<1>3. Starting' /\ WorkIsServed' /\ ClosedInOrder'
  BY <1>1, <1>2 DEF Starting, WorkIsServed, ClosedInOrder, Tracked, Now
<1>4. Drained'
  BY <1>1, <1>2 DEF Drained, Tracked, LiveRuns, Now
<1>. QED BY <1>2, <1>3, <1>4

\* A phase that is left has waited for its users and closed its resource.
LEMMA PhaseKeeps ==
  ASSUME ServerInv, NEW c \in Closer,
         Wait(c) \/ CloseRuns(c) \/ CloseAtOnce(c) \/ StartStep(c)
  PROVE  ServerInv'
<1>. USE DEF ServerInv
<1>1. /\ UNCHANGED <<ownsHub, boot, listening, quiesced, handler, streams, run, main, at, expired, closeErr>>
      /\ at[c] = "closing" /\ quiesced = "runs" /\ boot # "starting"
  BY DEF Wait, CloseRuns, CloseAtOnce, StartStep, InPhase, processVars, workVars, Drained, Starting
<1>2. phase \in 1 .. 11 /\ step = "none"
  BY Phases DEF ServerTypeOK, Wait, CloseRuns, CloseAtOnce, StartStep, InPhase, Drained
<1>3. ASSUME phase' = phase + 1, passed' = FALSE, step' = step, phase # 11,
             open' = open \/ open' = open \ {Now},
             Now \in open' => Now = "hub" /\ ~ownsHub,
             phase = 1 => Tracked = {}, phase = 3 => LiveRuns = {}
      PROVE  ServerInv'
  <2>1. phase' \in 2 .. 11 /\ (phase' > 3 => phase = 3 \/ phase > 3)
    BY <1>2, <1>3
  <2>2. ServerTypeOK'
    <3>1. phase' \in DOMAIN Phase /\ open' \subseteq Resource
      BY <1>3, <2>1, Phases DEF ServerTypeOK
    <3>. QED BY <1>1, <1>3, <3>1 DEF ServerTypeOK
  <2>3. Starting' /\ WorkIsServed'
    BY <1>1, <1>3 DEF Starting, WorkIsServed, workVars, Tracked
  <2>4. \A d \in Closer : at[d] # "ok"
    BY <1>2, <1>3, Phases DEF Drained, Now
  <2>5. Drained'
    BY <1>1, <1>2, <1>3, <2>1, <2>4 DEF Drained, workVars, Tracked, LiveRuns
  <2>6. ClosedInOrder'
    <3>1. \A i \in 1 .. 11 : i < phase' => i < phase \/ i = phase
      BY <1>2, <1>3
    <3>2. \A i \in 1 .. 11 : Phase[i] \in open \ open' => i = phase
      BY <1>2, <1>3, Phases DEF Now
    <3>. QED BY <1>1, <1>2, <1>3, <3>1, <3>2 DEF ClosedInOrder, Now
  <2>. QED BY <2>2, <2>3, <2>5, <2>6
<1>4. CASE Wait(c)
  <2>1. Now \notin Resource \/ (Now = "hub" /\ ~ownsHub)
    BY <1>4, Resources DEF Wait, InPhase
  <2>2. open' = open /\ open \subseteq Resource
    BY <1>4 DEF Wait, processVars, ServerTypeOK
  <2>. QED BY <1>2, <1>3, <1>4, <2>1, <2>2, Phases DEF Wait, Advance, InPhase, Now, RequestsGone
<1>5. CASE CloseRuns(c)
  BY <1>2, <1>3, <1>5, Phases DEF CloseRuns, Advance, InPhase, Now
<1>6. CASE CloseAtOnce(c)
  BY <1>2, <1>3, <1>6, Phases DEF CloseAtOnce, Advance, InPhase, Now
<1>7. CASE StartStep(c)
  <2>1. CASE boot = "failed" /\ Now \in {"mcp", "prober"}
    BY <1>2, <1>3, <1>7, <2>1, Phases DEF StartStep, Advance, InPhase, Now, processVars, WorkIsServed
  <2>2. CASE ~(boot = "failed" /\ Now \in {"mcp", "prober"})
    <3>1. UNCHANGED <<open, phase, passed>> /\ step' = "running" /\ Now \in {"mcp", "skills", "prober", "store"}
      BY <1>7, <2>2 DEF StartStep, InPhase, processVars
    <3>2. ServerTypeOK' /\ Starting' /\ WorkIsServed'
      BY <1>1, <3>1 DEF ServerTypeOK, Starting, WorkIsServed, Tracked
    <3>3. Drained' /\ ClosedInOrder'
      BY <1>1, <1>2, <3>1 DEF Drained, ClosedInOrder, Tracked, LiveRuns, Now
    <3>. QED BY <3>2, <3>3
  <2>. QED BY <2>1, <2>2
<1>. QED BY <1>4, <1>5, <1>6, <1>7

\* The blocking closes: what the goroutine closes stays closed when its caller
\* has gone, and a later call goes on from there.
LEMMA StepKeeps ==
  ASSUME ServerInv,
         RunStep \/ \E c \in Closer : FinishStep(c) \/ FinishStepLate(c) \/ Return(c)
  PROVE  ServerInv'
<1>. USE DEF ServerInv
<1>1. phase \in 1 .. 11
  BY Phases DEF ServerTypeOK
<1>2. CASE RunStep
  <2>1. /\ UNCHANGED <<ownsHub, boot, listening, quiesced, handler, streams, run, main, at, expired>>
        /\ UNCHANGED <<phase, passed, closeErr>>
        /\ open' = open \ {Now} /\ step' \in {"closed", "failed"} /\ Now \in {"mcp", "skills", "prober", "store"}
    BY <1>2 DEF RunStep, workVars, Drained
  <2>2. ServerTypeOK' /\ Starting' /\ WorkIsServed' /\ Drained'
    BY <1>2, <2>1 DEF RunStep, ServerTypeOK, Starting, WorkIsServed, Drained, Tracked, LiveRuns, Now
  <2>3. ClosedInOrder'
    BY <1>1, <2>1, Phases DEF ClosedInOrder, Now
  <2>. QED BY <2>2, <2>3
<1>3. ASSUME NEW c \in Closer, FinishStep(c) PROVE ServerInv'
  <2>1. /\ UNCHANGED <<processVars, handler, streams, run, main, at, expired>>
        /\ at[c] = "closing" /\ Now \in {"mcp", "skills", "prober", "store"} /\ Now \notin open
        /\ step' = "none" /\ phase' = phase + 1 /\ passed' = FALSE /\ closeErr' \in BOOLEAN
    BY <1>3 DEF FinishStep, Advance, workVars, Drained, ClosedInOrder, ServerTypeOK
  <2>2. phase' \in 2 .. 11 /\ phase \in 4 .. 9
    BY <1>1, <2>1, Phases DEF Now
  <2>3. ServerTypeOK' /\ Starting' /\ WorkIsServed'
    <3>1. phase' \in DOMAIN Phase /\ phase # 1
      BY <2>2, Phases
    <3>. QED BY <2>1, <3>1 DEF ServerTypeOK, Starting, WorkIsServed, Tracked, processVars
  <2>4. Drained'
    BY <2>1, <2>2, Phases DEF Drained, Tracked, LiveRuns, Now, processVars
  <2>5. ClosedInOrder'
    BY <2>1, <2>2 DEF ClosedInOrder, Now, processVars
  <2>. QED BY <2>3, <2>4, <2>5
<1>4. ASSUME NEW c \in Closer, FinishStepLate(c) PROVE ServerInv'
  <2>1. /\ UNCHANGED <<processVars, handler, streams, run, main, expired, phase, closeErr>>
        /\ at[c] = "closing" /\ Now = "store"
        /\ step' = "none" /\ passed' = FALSE /\ at' = [at EXCEPT ![c] = "error"]
    BY <1>4 DEF FinishStepLate, workVars, Drained
  <2>2. ServerTypeOK' /\ WorkIsServed'
    BY <2>1 DEF ServerTypeOK, WorkIsServed, Tracked, processVars
  <2>3. Starting' /\ Drained'
    BY <2>1 DEF ServerTypeOK, Starting, Drained, Tracked, LiveRuns, Now, processVars
  <2>4. ClosedInOrder'
    BY <2>1 DEF ClosedInOrder, Now, processVars
  <2>. QED BY <2>2, <2>3, <2>4
<1>5. ASSUME NEW c \in Closer, Return(c) PROVE ServerInv'
  <2>1. /\ UNCHANGED <<processVars, handler, streams, run, main, expired, phase, passed, step, closeErr>>
        /\ at[c] = "closing" /\ Now = "done"
        /\ at' = [at EXCEPT ![c] = IF closeErr THEN "error" ELSE "ok"]
    BY <1>5 DEF Return, workVars
  <2>2. ServerTypeOK' /\ WorkIsServed'
    BY <2>1 DEF ServerTypeOK, WorkIsServed, Tracked, processVars
  <2>3. Starting' /\ Drained'
    BY <2>1 DEF ServerTypeOK, Starting, Drained, Tracked, LiveRuns, Now, processVars
  <2>4. ClosedInOrder'
    BY <2>1 DEF ClosedInOrder, Now, processVars
  <2>. QED BY <2>2, <2>3, <2>4
<1>. QED BY <1>2, <1>3, <1>4, <1>5

-----------------------------------------------------------------------------
\* What the run checks, from the inductive invariant.
LEMMA ServerInvGives == ASSUME ServerInv PROVE UsersFirst
<1>. USE Phases, Resources DEF ServerInv
<1>1. phase \in 1 .. 11
  BY DEF ServerTypeOK
<1>2. Tracked # {} \/ LiveRuns # {} => boot = "up"
  BY DEF WorkIsServed, Tracked, LiveRuns
<1>3. \A x \in Resource : \E i \in 3 .. 10 : Phase[i] = x
  OBVIOUS
<1>4. boot = "up" /\ phase < 4 => Resource \ {"runs"} \subseteq open
  <2>. SUFFICES ASSUME boot = "up", phase < 4, NEW i \in 3 .. 10, Phase[i] \in Resource \ open,
                       Phase[i] # "runs"
                PROVE  FALSE
    BY <1>3
  <2>1. i = 3 \/ (i > phase /\ i \in 1 .. 11)
    BY <1>1
  <2>2. i # 3
    OBVIOUS
  <2>. QED BY <1>1, <2>1, <2>2 DEF ClosedInOrder
<1>5. boot = "up" /\ phase = 1 => Resource \subseteq open
  <2>. SUFFICES ASSUME boot = "up", phase = 1, NEW i \in 3 .. 10, Phase[i] \in Resource \ open
                PROVE  FALSE
    BY <1>3
  <2>. QED BY DEF ClosedInOrder
<1>6. boot = "up" /\ "hub" \notin open => phase = 11 \/ (phase = 10 /\ step # "none")
  BY <1>1 DEF ClosedInOrder
<1>7. phase >= 10 => Tracked \cup LiveRuns \cup streams = {} /\ step = "none"
  BY <1>1 DEF Drained, WorkIsServed, Now
<1>8. ASSUME NEW c \in Closer, at[c] = "ok"
      PROVE  /\ open \subseteq (IF ownsHub THEN {} ELSE {"hub"})
             /\ Tracked \cup LiveRuns \cup streams = {} /\ step = "none"
  <2>1. phase = 11
    BY <1>1, <1>8 DEF Drained, Now
  <2>2. \A x \in Resource : x \in open => x = "hub" /\ ~ownsHub
    BY <1>3, <2>1 DEF ClosedInOrder
  <2>. QED BY <1>7, <2>1, <2>2 DEF ServerTypeOK
<1>9. /\ Tracked # {} => phase = 1
      /\ LiveRuns # {} => phase < 4
  BY <1>1 DEF Drained
<1>. QED BY <1>1, <1>2, <1>4, <1>5, <1>6, <1>7, <1>8, <1>9 DEF UsersFirst

\* Server.Close, its deadline and its resumption, with the start and with main.go:
\* nothing is closed while a handler, a stream or a run may still use it.
THEOREM ClosedAfterUse == ServerSpec => []NoUseAfterClose
<1>1. ServerInit => ServerInv
  BY ServerBegins
<1>2. ServerInv /\ [ServerNext]_serverVars => ServerInv'
  <2>. SUFFICES ASSUME ServerInv, [ServerNext]_serverVars PROVE ServerInv'
    OBVIOUS
  <2>1. CASE Start \/ StartFailsEarly \/ StartFailsLate
    BY <2>1, StartKeeps
  <2>2. ASSUME NEW r \in Request, Arrive(r) \/ BeginRequest(r) \/ BeginStream(r) \/ StartRun(r) \/ Work(r)
        PROVE  ServerInv'
    BY <2>2, RequestKeeps
  <2>3. CASE Shutdown \/ QuiesceRuns \/ HTTPDrained \/ MainReturns
    BY <2>3, MainKeeps
  <2>4. ASSUME NEW c \in Closer, CallClose(c) \/ Expire(c) \/ CloseStep(c) PROVE ServerInv'
    BY <2>4, CallersKeep, PhaseKeeps, StepKeeps DEF CloseStep
  <2>5. CASE RunStep
    BY <2>5, StepKeeps
  <2>6. CASE UNCHANGED serverVars
    BY <2>6
       DEF serverVars, processVars, workVars, closeVars, ServerInv, ServerTypeOK, Starting, WorkIsServed,
           Drained,
                ClosedInOrder, Tracked, LiveRuns, Now
  <2>. QED BY <2>1, <2>2, <2>3, <2>4, <2>5, <2>6 DEF ServerNext
<1>3. ServerInv => NoUseAfterClose
  BY ServerInvGives DEF ServerInv, NoUseAfterClose
<1>. QED BY <1>1, <1>2, <1>3, PTL DEF ServerSpec

-----------------------------------------------------------------------------
(* The limits of a login *)

Bucket  == [tokens : Nat, last : Nat, seen : Nat]
Attempt == [failures : Nat, lastFail : Nat, blocked : BOOLEAN, blockedAt : Nat]

\* What a bucket gets in a time.
Filled(t) == Rate * t

\* A request knows its client, and neither its clock nor the validation of its
\* password is older than Tick allows.
RequestsTyped ==
  /\ DOMAIN logins = Login
  /\ \A r \in Login :
       /\ logins[r].stage = "arrived" =>
            logins[r].peer \in Peer /\ logins[r].at \in 0 .. now /\ now <= logins[r].at + MaxRegress
       /\ logins[r].stage = "admitted" => logins[r].peer \in Peer
       /\ logins[r].stage = "validating" =>
            logins[r].peer \in Peer /\ logins[r].since \in 0 .. now /\ now <= logins[r].since + FailWindow

\* What a client got and what is left in its bucket is within the burst and the
\* rate until the bucket was filled; a dropped bucket would be full again for any
\* request, also for one whose clock is behind.
BucketsBounded ==
  \A p \in Peer :
    /\ admitted[p] <= Burst + Filled(now + regress[p])
    /\ buckets[p] # NoEntry =>
         /\ buckets[p].tokens <= Burst /\ buckets[p].last <= now /\ buckets[p].seen <= now
         /\ admitted[p] + buckets[p].tokens <= Burst + Filled(buckets[p].last + regress[p])
         /\ admitted[p] <= Burst + Filled(buckets[p].seen + regress[p])
    /\ limiterOpen /\ buckets[p] = NoEntry =>
         /\ admitted[p] <= Filled(now + regress[p])
         /\ \A r \in Login : logins[r].stage = "arrived" /\ logins[r].peer = p =>
              admitted[p] <= Filled(logins[r].at + regress[p])

BucketInv ==
  /\ now \in 0 .. MaxTime /\ limiterOpen \in BOOLEAN
  /\ buckets \in [Peer -> Bucket \cup {NoEntry}]
  /\ admitted \in [Peer -> Nat] /\ regress \in [Peer -> Nat]
  /\ RequestsTyped /\ BucketsBounded

-----------------------------------------------------------------------------
LEMMA Filling ==
  /\ \A t \in Int : Filled(t) \in Int
  /\ \A t, u \in Int : Filled(t + u) = Filled(t) + Filled(u)
  /\ \A t, u \in Int : t <= u => Filled(t) <= Filled(u)
  /\ Filled(0) = 0
<1>. Rate \in Nat
  BY LimitConstants
<1>1. \A t \in Int : Filled(t) \in Int
  BY DEF Filled
<1>2. \A t, u \in Int : Filled(t + u) = Filled(t) + Filled(u)
  BY DEF Filled
<1>3. \A t \in Nat : Filled(t) >= 0
  BY DEF Filled
<1>4. ASSUME NEW t \in Int, NEW u \in Int, t <= u PROVE Filled(t) <= Filled(u)
  <2>1. u - t \in Nat /\ u = t + (u - t)
    BY <1>4
  <2>2. Filled(u) = Filled(t) + Filled(u - t)
    BY <1>2, <2>1
  <2>. QED BY <1>1, <1>3, <2>1, <2>2
<1>5. Filled(0) = 0
  BY DEF Filled
<1>. QED BY <1>1, <1>2, <1>4, <1>5

LEMMA TwoNumbers ==
  ASSUME NEW a \in Int, NEW b \in Int
  PROVE  /\ Min({a, b}) = IF a <= b THEN a ELSE b
         /\ Max({a, b}) = IF a <= b THEN b ELSE a
BY DEF Min, Max

LEMMA DroppedIsFull == Filled(EntryTTL - MaxRegress) >= Burst
BY RefillWithinTTL DEF Filled

\* A request passes the bucket of its client, or is refused there.
LEMMA AllowKeeps == ASSUME BucketInv, NEW r \in Login, AllowClient(r) PROVE BucketInv'
<1>. DEFINE q == logins[r]
            p == q.peer
            b == IF buckets[p] = NoEntry THEN [tokens |-> Burst, last |-> q.at, seen |-> q.at] ELSE buckets[p]
            n == Tokens(b, q.at)
            back == Max({0, b.last - q.at})
            gap == IF q.at > b.last THEN q.at - b.last ELSE 0
            left == IF n < 1 THEN [b EXCEPT !.seen = q.at]
                    ELSE [tokens |-> n - 1, last |-> q.at, seen |-> q.at]
            more == IF n < 1 THEN 0 ELSE 1
<1>1. /\ Burst \in Nat /\ now \in Nat /\ now <= MaxTime /\ p \in Peer /\ q.at \in Nat /\ q.at <= now
      /\ limiterOpen /\ q.stage = "arrived" /\ now' = now /\ limiterOpen' = limiterOpen
  BY LimitConstants DEF AllowClient, BucketInv, RequestsTyped
<1>2. admitted[p] \in Nat /\ regress[p] \in Nat
  BY <1>1 DEF BucketInv
<1>3. /\ b \in Bucket /\ b.tokens <= Burst /\ b.last <= now
      /\ admitted[p] + b.tokens <= Burst + Filled(b.last + regress[p])
  <2>1. CASE buckets[p] = NoEntry
    <3>1. b = [tokens |-> Burst, last |-> q.at, seen |-> q.at]
      BY <2>1
    <3>a. q.at + regress[p] \in Int
      BY <1>1, <1>2
    <3>2. admitted[p] <= Filled(q.at + regress[p])
      BY <1>1, <2>1 DEF BucketInv, BucketsBounded
    <3>b. Filled(q.at + regress[p]) \in Int
      BY <3>a, Filling
    <3>. QED BY <1>1, <1>2, <3>1, <3>2, <3>b DEF Bucket
  <2>2. CASE buckets[p] # NoEntry
    <3>1. b = buckets[p] /\ b \in Bucket
      BY <1>1, <2>2 DEF BucketInv
    <3>. QED BY <1>1, <2>2, <3>1 DEF BucketInv, BucketsBounded
  <2>. QED BY <2>1, <2>2
<1>4. /\ regress' = [regress EXCEPT ![p] = @ + back]
      /\ buckets' = [buckets EXCEPT ![p] = left]
      /\ admitted' = [admitted EXCEPT ![p] = @ + more]
      /\ \/ logins' = [logins EXCEPT ![r] = Waiting]
         \/ logins' = [logins EXCEPT ![r] = [stage |-> "admitted", peer |-> p]]
  <2>1. admitted' = [admitted EXCEPT ![p] = @ + more]
    BY <1>1, <1>2 DEF AllowClient, BucketInv
  <2>. QED BY <2>1 DEF AllowClient
<1>. HIDE DEF b
<1>5. b.tokens \in Nat /\ b.last \in Nat /\ b.seen \in Nat
  BY <1>3 DEF Bucket
<1>6. back = (IF q.at <= b.last THEN b.last - q.at ELSE 0) /\ back \in Nat
  <2>1. b.last - q.at \in Int /\ (0 <= b.last - q.at <=> q.at <= b.last)
    BY <1>1, <1>5
  <2>2. back = IF 0 <= b.last - q.at THEN b.last - q.at ELSE 0
    BY <2>1 DEF Max
  <2>. HIDE DEF back
  <2>. QED BY <1>1, <1>5, <2>1, <2>2
<1>a. gap \in Nat /\ gap = IF q.at > b.last THEN q.at - b.last ELSE 0
  BY <1>1, <1>5
<1>7. n \in Nat /\ n <= Burst /\ n <= b.tokens + Filled(gap) /\ (n < 1 => b.tokens = 0)
  <2>2. n = Min({Burst, b.tokens + Filled(gap)})
    BY DEF Tokens, Filled
  <2>. HIDE DEF gap, n
  <2>1. Filled(gap) \in Nat
    BY <1>a, LimitConstants DEF Filled
  <2>. QED BY <1>1, <1>3, <1>5, <2>1, <2>2, TwoNumbers
<1>. HIDE DEF n, back, gap
<1>8. admitted[p] + n <= Burst + Filled(q.at + (regress[p] + back))
      /\ admitted[p] + b.tokens <= Burst + Filled(q.at + (regress[p] + back))
  <2>1. CASE q.at <= b.last
    <3>1. q.at + (regress[p] + back) = b.last + regress[p]
      BY <1>1, <1>2, <1>5, <1>6, <2>1
    <3>2. n <= b.tokens
      <4>1. gap = 0
        BY <1>1, <1>5, <1>a, <2>1
      <4>2. Filled(gap) = 0
        BY <4>1, Filling
      <4>. QED BY <1>5, <1>7, <4>2
    <3>3. b.last + regress[p] \in Int
      BY <1>2, <1>5
    <3>4. Filled(b.last + regress[p]) \in Int
      BY <3>3, Filling
    <3>. QED BY <1>1, <1>2, <1>3, <1>5, <1>7, <3>1, <3>2, <3>4
  <2>2. CASE q.at > b.last
    <3>1. q.at + (regress[p] + back) = (b.last + regress[p]) + (q.at - b.last)
      BY <1>1, <1>2, <1>5, <1>6, <2>2
    <3>2. Filled(q.at + (regress[p] + back)) = Filled(b.last + regress[p]) + Filled(q.at - b.last)
      <4>1. b.last + regress[p] \in Int /\ q.at - b.last \in Int
        BY <1>1, <1>2, <1>5
      <4>. QED BY <3>1, <4>1, Filling
    <3>3. Filled(b.last + regress[p]) \in Int /\ Filled(q.at - b.last) \in Int
      <4>1. b.last + regress[p] \in Int /\ q.at - b.last \in Int
        BY <1>1, <1>2, <1>5
      <4>. QED BY <4>1, Filling
    <3>4. gap = q.at - b.last
      BY <1>a, <2>2
    <3>5. n <= b.tokens + Filled(q.at - b.last) /\ Filled(q.at - b.last) >= 0
      BY <1>7, <1>a, <3>4, LimitConstants DEF Filled
    <3>. QED BY <1>1, <1>2, <1>3, <1>5, <1>7, <2>2, <3>2, <3>3, <3>5
  <2>. QED BY <1>1, <1>5, <2>1, <2>2
<1>9. /\ left \in Bucket /\ left.tokens <= Burst /\ left.last <= now /\ left.seen = q.at
      /\ admitted[p] + more + left.tokens <= Burst + Filled(left.last + (regress[p] + back))
      /\ admitted[p] + more <= Burst + Filled(q.at + (regress[p] + back))
  <2>1. CASE n < 1
    <3>1. left.tokens = b.tokens /\ left.last = b.last /\ left.seen = q.at /\ left \in Bucket
      BY <1>1, <1>3, <2>1 DEF Bucket
    <3>2. Filled(b.last + regress[p]) <= Filled(b.last + (regress[p] + back))
          /\ Filled(b.last + regress[p]) \in Int /\ Filled(b.last + (regress[p] + back)) \in Int
      <4>1. b.last + regress[p] \in Int /\ b.last + (regress[p] + back) \in Int
            /\ b.last + regress[p] <= b.last + (regress[p] + back)
        BY <1>2, <1>5, <1>6
      <4>. QED BY <4>1, Filling
    <3>3. Filled(q.at + (regress[p] + back)) \in Int
      <4>1. q.at + (regress[p] + back) \in Int
        BY <1>1, <1>2, <1>6
      <4>. QED BY <4>1, Filling
    <3>. QED BY <1>1, <1>2, <1>3, <1>5, <1>8, <2>1, <3>1, <3>2, <3>3
  <2>2. CASE ~(n < 1)
    <3>1. left = [tokens |-> n - 1, last |-> q.at, seen |-> q.at] /\ n - 1 \in Nat
      BY <1>7, <2>2
    <3>2. Filled(q.at + (regress[p] + back)) \in Int
      <4>1. q.at + (regress[p] + back) \in Int
        BY <1>1, <1>2, <1>6
      <4>. QED BY <4>1, Filling
    <3>. QED BY <1>1, <1>2, <1>7, <1>8, <2>2, <3>1, <3>2 DEF Bucket
  <2>. QED BY <2>1, <2>2
<1>10. more \in Nat
  OBVIOUS
<1>. HIDE DEF left, more
<1>11. /\ buckets' \in [Peer -> Bucket \cup {NoEntry}] /\ admitted' \in [Peer -> Nat] /\ regress' \in [Peer -> Nat]
       /\ buckets'[p] = left /\ admitted'[p] = admitted[p] + more /\ regress'[p] = regress[p] + back
       /\ \A o \in Peer : o # p => /\ buckets'[o] = buckets[o] /\ admitted'[o] = admitted[o]
                                   /\ regress'[o] = regress[o]
  BY <1>1, <1>2, <1>4, <1>6, <1>9, <1>10 DEF BucketInv
<1>12. RequestsTyped' /\ \A o \in Login : logins'[o].stage = "arrived" => logins'[o] = logins[o]
  BY <1>1, <1>4 DEF BucketInv, RequestsTyped, Waiting
<1>13. left # NoEntry
  BY <1>9, NoEntryApart DEF Bucket
<1>14. Burst + Filled(q.at + (regress[p] + back)) <= Burst + Filled(now + (regress[p] + back))
       /\ Filled(q.at + (regress[p] + back)) \in Int /\ Filled(now + (regress[p] + back)) \in Int
  <2>1. q.at + (regress[p] + back) \in Int /\ now + (regress[p] + back) \in Int
        /\ q.at + (regress[p] + back) <= now + (regress[p] + back)
    BY <1>1, <1>2, <1>6
  <2>2. /\ Filled(q.at + (regress[p] + back)) <= Filled(now + (regress[p] + back))
        /\ Filled(q.at + (regress[p] + back)) \in Int /\ Filled(now + (regress[p] + back)) \in Int
    BY <2>1, Filling
  <2>. QED BY <1>1, <2>2
<1>15. BucketsBounded'
  <2>. SUFFICES ASSUME NEW o \in Peer PROVE (BucketsBounded!(o))'
    BY DEF BucketsBounded
  <2>1. CASE o = p
    BY <1>1, <1>2, <1>9, <1>10, <1>11, <1>13, <1>14, <2>1
  <2>2. CASE o # p
    BY <1>1, <1>11, <1>12, <2>2 DEF BucketInv, BucketsBounded
  <2>. QED BY <2>1, <2>2
<1>. QED BY <1>1, <1>11, <1>12, <1>15 DEF BucketInv

\* Buckets that were not seen for a while are dropped.
LEMMA PruneKeeps == ASSUME BucketInv, Prune PROVE BucketInv'
<1>1. /\ limiterOpen /\ UNCHANGED <<now, limiterOpen, logins, admitted, regress>>
      /\ buckets' = [p \in Peer |-> IF buckets[p] # NoEntry /\ Stale(buckets[p]) THEN NoEntry ELSE buckets[p]]
  BY DEF Prune
<1>2. buckets' \in [Peer -> Bucket \cup {NoEntry}]
  BY <1>1 DEF BucketInv
<1>3. RequestsTyped'
  BY <1>1 DEF BucketInv, RequestsTyped
<1>4. ASSUME NEW p \in Peer, buckets[p] # NoEntry, Stale(buckets[p]), NEW t \in 0 .. now, now <= t + MaxRegress
      PROVE  admitted[p] <= Filled(t + regress[p])
  <2>. DEFINE s == buckets[p].seen
              g == regress[p]
              d == EntryTTL - MaxRegress
  <2>1. s \in Int /\ g \in Int /\ d \in Int /\ t \in Int /\ now \in Int /\ now - s >= EntryTTL
        /\ EntryTTL \in Int /\ MaxRegress \in Int /\ Burst \in Int /\ admitted[p] \in Int
    BY <1>4, LimitConstants DEF BucketInv, Bucket, Stale
  <2>2. admitted[p] <= Burst + Filled(s + g)
    BY <1>4 DEF BucketInv, BucketsBounded
  <2>. HIDE DEF s, g
  <2>3. (s + g) + d <= t + g /\ s + g \in Int /\ t + g \in Int /\ (s + g) + d \in Int
    BY <1>4, <2>1
  <2>. HIDE DEF d
  <2>4. Filled(s + g) + Filled(d) <= Filled(t + g)
    BY <2>1, <2>3, Filling
  <2>5. Filled(d) >= Burst
    BY DroppedIsFull DEF d
  <2>6. Filled(s + g) \in Int /\ Filled(d) \in Int /\ Filled(t + g) \in Int
    BY <2>1, <2>3, Filling
  <2>7. admitted[p] <= Filled(t + g)
    BY <2>1, <2>2, <2>4, <2>5, <2>6
  <2>. QED BY <2>7 DEF g
<1>5. now \in 0 .. now /\ now <= now + MaxRegress
  BY LimitConstants DEF BucketInv
<1>6. BucketsBounded'
  <2>. SUFFICES ASSUME NEW p \in Peer PROVE (BucketsBounded!(p))'
    BY DEF BucketsBounded
  <2>1. CASE buckets[p] # NoEntry /\ Stale(buckets[p])
    <3>1. buckets'[p] = NoEntry /\ admitted[p] <= Filled(now + regress[p])
      BY <1>1, <1>4, <1>5, <2>1
    <3>2. ASSUME NEW r \in Login, logins[r].stage = "arrived", logins[r].peer = p
          PROVE  admitted[p] <= Filled(logins[r].at + regress[p])
      BY <1>4, <2>1, <3>2 DEF BucketInv, RequestsTyped
    <3>. QED BY <1>1, <3>1, <3>2 DEF BucketInv, BucketsBounded
  <2>2. CASE ~(buckets[p] # NoEntry /\ Stale(buckets[p]))
    <3>1. buckets'[p] = buckets[p]
      BY <1>1, <2>2
    <3>. QED BY <1>1, <3>1 DEF BucketInv, BucketsBounded
  <2>. QED BY <2>1, <2>2
<1>. QED BY <1>1, <1>2, <1>3, <1>6 DEF BucketInv

\* A request arrives, a limiter is closed, or a login goes on behind the bucket.
LEMMA OthersKeepBuckets ==
  ASSUME BucketInv,
         \/ \E r \in Login, p \in Peer : Arrives(r, p)
         \/ \E r \in Login : RefuseClosed(r) \/ LoginAllowed(r) \/ LoginFails(r) \/ LoginSucceeds(r)
         \/ CloseLimiter
  PROVE  BucketInv'
<1>1. ASSUME NEW r \in Login, NEW p \in Peer, Arrives(r, p) PROVE BucketInv'
  <2>1. /\ logins' = [logins EXCEPT ![r] = [stage |-> "arrived", peer |-> p, at |-> now]]
        /\ UNCHANGED <<now, buckets, limiterOpen, admitted, regress>>
    BY <1>1 DEF Arrives
  <2>2. now \in 0 .. now /\ now <= now + MaxRegress
    BY LimitConstants DEF BucketInv
  <2>3. RequestsTyped'
    BY <2>1, <2>2 DEF BucketInv, RequestsTyped
  <2>4. \A o \in Login : logins'[o] = logins[o] \/ logins'[o].at = now
    BY <2>1 DEF BucketInv, RequestsTyped
  <2>5. BucketsBounded'
    BY <2>1, <2>4 DEF BucketInv, BucketsBounded
  <2>. QED BY <2>1, <2>3, <2>5 DEF BucketInv
<1>2. ASSUME NEW r \in Login, RefuseClosed(r) \/ LoginAllowed(r) \/ LoginFails(r) \/ LoginSucceeds(r)
      PROVE BucketInv'
  <2>1. /\ UNCHANGED <<now, buckets, limiterOpen, admitted, regress>>
        /\ \/ logins' = [logins EXCEPT ![r] = Waiting]
           \/ /\ logins[r].stage = "admitted"
              /\ logins' = [logins EXCEPT ![r] =
                              [stage |-> "validating", peer |-> logins[r].peer, since |-> now]]
    BY <1>2 DEF RefuseClosed, LoginAllowed, LoginFails, LoginSucceeds
  <2>2. now \in 0 .. now /\ now <= now + FailWindow
    BY LimitConstants DEF BucketInv
  <2>3. RequestsTyped'
    BY <2>1, <2>2 DEF BucketInv, RequestsTyped, Waiting
  <2>4. \A o \in Login : logins'[o] = logins[o] \/ logins'[o].stage # "arrived"
    BY <2>1 DEF BucketInv, RequestsTyped, Waiting
  <2>5. BucketsBounded'
    BY <2>1, <2>4 DEF BucketInv, BucketsBounded
  <2>. QED BY <2>1, <2>3, <2>5 DEF BucketInv
<1>3. CASE CloseLimiter
  <2>1. /\ limiterOpen' = FALSE /\ buckets' = [p \in Peer |-> NoEntry]
        /\ UNCHANGED <<now, logins, admitted, regress>>
    BY <1>3 DEF CloseLimiter
  <2>2. buckets' \in [Peer -> Bucket \cup {NoEntry}]
    BY <2>1
  <2>. QED BY <2>1, <2>2 DEF BucketInv, RequestsTyped, BucketsBounded
<1>. QED BY <1>1, <1>2, <1>3

LEMMA TickKeepsBuckets == ASSUME BucketInv, Tick PROVE BucketInv'
<1>1. /\ now' = now + 1 /\ now < MaxTime /\ now \in Nat /\ now' \in 0 .. MaxTime
      /\ UNCHANGED <<buckets, limiterOpen, logins, admitted, regress>>
      /\ {FailWindow, MaxRegress, MaxTime, Burst} \subseteq Nat
  BY LimitConstants DEF Tick, BucketInv
<1>2. RequestsTyped'
  BY <1>1 DEF BucketInv, RequestsTyped, Tick
<1>3. ASSUME NEW p \in Peer
      PROVE  /\ Filled(now + regress[p]) <= Filled(now' + regress[p])
             /\ Filled(now + regress[p]) \in Int /\ Filled(now' + regress[p]) \in Int
             /\ admitted[p] \in Int
  <2>1. now + regress[p] \in Int /\ now' + regress[p] \in Int /\ now + regress[p] <= now' + regress[p]
        /\ admitted[p] \in Int
    BY <1>1 DEF BucketInv
  <2>. QED BY <2>1, Filling
<1>4. BucketsBounded'
  <2>. SUFFICES ASSUME NEW p \in Peer PROVE (BucketsBounded!(p))'
    BY DEF BucketsBounded
  <2>1. BucketsBounded!(p)
    BY DEF BucketInv, BucketsBounded
  <2>2. /\ (admitted[p] <= Filled(now + regress[p]) => admitted[p] <= Filled(now' + regress[p]))
        /\ admitted[p] <= Burst + Filled(now' + regress[p])
    BY <1>1, <1>3, <2>1
  <2>3. buckets[p] # NoEntry => buckets[p].last <= now' /\ buckets[p].seen <= now'
    BY <1>1, <2>1 DEF BucketInv, Bucket
  <2>. QED BY <1>1, <2>1, <2>2, <2>3
<1>. QED BY <1>1, <1>2, <1>4 DEF BucketInv

-----------------------------------------------------------------------------
\* What pruneLocked leaves of an entry.
Left(e, t) ==
  IF \/ e = NoEntry
     \/ e.blocked /\ t - e.blockedAt >= BlockTime
     \/ ~e.blocked /\ t - e.lastFail > FailWindow
  THEN NoEntry ELSE e

\* An entry counts the failures in a row, and a block lasts from the last of them.
EntryFits(x, s, t) ==
  /\ x = NoEntry => s.count = 0 \/ (s.count < FailureLimit /\ t - s.last > FailWindow)
  /\ x # NoEntry =>
       /\ s.count >= 1 /\ x.lastFail = s.last
       /\ s.count < FailureLimit => x.failures = s.count /\ ~x.blocked
       /\ s.count >= FailureLimit => x.blocked /\ x.blockedAt = s.last /\ x.failures >= FailureLimit

\* Who is let in before a block comes did not see it begin.
BlocksTrack ==
  \A p \in Peer :
    /\ streak[p].count <= FailureLimit /\ streak[p].last <= now
    /\ attempts[p] # NoEntry => attempts[p].failures >= 1 /\ attempts[p].lastFail <= now
    /\ EntryFits(Left(attempts[p], now), streak[p], now)
    /\ \A r \in Login :
         logins[r].stage = "validating" /\ logins[r].peer = p
             /\ Left(attempts[p], now) # NoEntry /\ Left(attempts[p], now).blocked
           => Left(attempts[p], now).lastFail >= logins[r].since

BlockInv ==
  /\ now \in 0 .. MaxTime
  /\ attempts \in [Peer -> Attempt \cup {NoEntry}]
  /\ streak \in [Peer -> [count : Nat, last : Nat]]
  /\ RequestsTyped /\ BlocksTrack

-----------------------------------------------------------------------------
LEMMA PrunedIsLeft == Pruned = [p \in Peer |-> Left(attempts[p], now)]
BY DEF Pruned, Left

LEMMA LeftTwice == \A e, t : Left(Left(e, t), t) = Left(e, t)
BY DEF Left

LEMMA LeftTyped ==
  ASSUME NEW e \in Attempt \cup {NoEntry}, NEW t
  PROVE  Left(e, t) \in Attempt \cup {NoEntry} /\ (Left(e, t) # NoEntry => Left(e, t) = e)
BY DEF Left

\* A login is let in behind the bucket.
LEMMA AllowedKeeps == ASSUME BlockInv, RequestsTyped', NEW r \in Login, LoginAllowed(r) PROVE BlockInv'
<1>1. /\ now' = now /\ streak' = streak /\ attempts' = [p \in Peer |-> Left(attempts[p], now)]
      /\ logins' = [logins EXCEPT ![r] =
           IF Allowed(@.peer) THEN [stage |-> "validating", peer |-> @.peer, since |-> now] ELSE Waiting]
      /\ logins[r].peer \in Peer /\ DOMAIN logins = Login
  BY PrunedIsLeft DEF LoginAllowed, BlockInv, RequestsTyped
<1>2. \A p \in Peer : /\ Left(attempts'[p], now') = Left(attempts[p], now)
                      /\ attempts'[p] \in Attempt \cup {NoEntry}
                      /\ attempts'[p] # NoEntry => attempts'[p] = attempts[p]
  BY <1>1, LeftTwice, LeftTyped DEF BlockInv
<1>3. attempts' \in [Peer -> Attempt \cup {NoEntry}]
  BY <1>1, <1>2
<1>4. ASSUME NEW o \in Login, NEW p \in Peer, logins'[o].stage = "validating", logins'[o].peer = p,
             Left(attempts[p], now) # NoEntry, Left(attempts[p], now).blocked
      PROVE  logins'[o] = logins[o]
  <2>1. CASE o # r
    BY <1>1, <2>1
  <2>2. CASE o = r
    <3>1. Allowed(logins[r].peer) /\ p = logins[r].peer
      BY <1>1, <1>4, <2>2 DEF Waiting
    <3>2. Pruned[p] = Left(attempts[p], now)
      BY PrunedIsLeft
    <3>. QED BY <1>4, <3>1, <3>2 DEF Allowed
  <2>. QED BY <2>1, <2>2
<1>5. BlocksTrack'
  <2>. SUFFICES ASSUME NEW p \in Peer PROVE (BlocksTrack!(p))'
    BY DEF BlocksTrack
  <2>1. BlocksTrack!(p)
    BY DEF BlockInv, BlocksTrack
  <2>2. EntryFits(Left(attempts[p], now), streak[p], now)'
    BY <1>1, <1>2, <2>1 DEF EntryFits
  <2>. QED BY <1>1, <1>2, <1>4, <2>1, <2>2
<1>. QED BY <1>1, <1>3, <1>5 DEF BlockInv

\* The password was wrong.
LEMMA FailureKeeps == ASSUME BlockInv, RequestsTyped', NEW r \in Login, LoginFails(r) PROVE BlockInv'
<1>. DEFINE p == logins[r].peer
            x == Left(attempts[p], now)
            s == streak[p]
            base == IF x = NoEntry \/ now - x.lastFail > FailWindow
                    THEN [failures |-> 0, blocked |-> FALSE, blockedAt |-> 0, lastFail |-> now] ELSE x
            n == base.failures + 1
            c == IF (s.count > 0 /\ now - s.last <= FailWindow) \/ s.count >= FailureLimit
                 THEN Min({s.count + 1, FailureLimit}) ELSE 1
            y == [failures |-> n, lastFail |-> now, blocked |-> n >= FailureLimit \/ base.blocked,
                  blockedAt |-> IF n >= FailureLimit THEN now ELSE base.blockedAt]
<1>1. /\ logins[r].stage = "validating" /\ p \in Peer /\ logins[r].since \in 0 .. now
      /\ now <= logins[r].since + FailWindow /\ DOMAIN logins = Login
      /\ now' = now /\ now \in Nat /\ now <= MaxTime /\ logins' = [logins EXCEPT ![r] = Waiting]
      /\ FailureLimit \in Nat \ {0} /\ BlockTime \in Nat \ {0} /\ FailWindow \in Nat
  BY LimitConstants DEF LoginFails, BlockInv, RequestsTyped
<1>2. /\ attempts' = [o \in Peer |-> IF o = p THEN y ELSE Left(attempts[o], now)]
      /\ streak' = [streak EXCEPT ![p] = [count |-> c, last |-> now]]
  <2>1. attempts' = [Pruned EXCEPT ![p] = Failed(@)]
    BY DEF LoginFails
  <2>2. Failed(x) = y
    BY DEF Failed
  <2>3. Pruned[p] = x
    BY <1>1, PrunedIsLeft
  <2>4. attempts' = [Pruned EXCEPT ![p] = y]
    BY <2>1, <2>2, <2>3
  <2>5. attempts' = [o \in Peer |-> IF o = p THEN y ELSE Left(attempts[o], now)]
    <3>. HIDE DEF y, p
    <3>. QED BY <2>4, PrunedIsLeft
  <2>. QED BY <2>5 DEF LoginFails
<1>3. /\ x \in Attempt \cup {NoEntry} /\ s.count \in Nat /\ s.last \in Nat /\ s.last <= now
      /\ s.count <= FailureLimit /\ EntryFits(x, s, now)
      /\ x # NoEntry /\ x.blocked => x.lastFail >= logins[r].since
      /\ x # NoEntry => x = attempts[p] /\ x.lastFail <= now /\ x.failures >= 1
  <2>1. x \in Attempt \cup {NoEntry} /\ (x # NoEntry => x = attempts[p])
    BY <1>1, LeftTyped DEF BlockInv
  <2>. QED BY <1>1, <2>1 DEF BlockInv, BlocksTrack
<1>4. x # NoEntry /\ ~x.blocked => now - x.lastFail <= FailWindow
  <2>1. x # NoEntry => x = attempts[p] /\ x.lastFail \in Nat
    BY <1>3 DEF Attempt
  <2>2. attempts[p] # NoEntry /\ ~attempts[p].blocked /\ x # NoEntry => ~(now - attempts[p].lastFail > FailWindow)
    BY DEF Left
  <2>. HIDE DEF x
  <2>. QED BY <1>1, <2>1, <2>2
<1>. HIDE DEF p, x, s
<1>5. x # NoEntry => x \in Attempt /\ base = x
  <2>. SUFFICES ASSUME x # NoEntry PROVE x \in Attempt /\ base = x
    OBVIOUS
  <2>1. x \in Attempt /\ x.lastFail \in Nat
    BY <1>3 DEF Attempt
  <2>2. now - x.lastFail <= FailWindow
    BY <1>1, <1>3, <1>4, <2>1
  <2>. QED BY <1>1, <2>1, <2>2
<1>6. x = NoEntry => n = 1 /\ base.blocked = FALSE /\ base.blockedAt = 0
  OBVIOUS
<1>7. n \in Nat /\ n >= 1 /\ base.blocked \in BOOLEAN /\ base.blockedAt \in Nat
  <2>1. CASE x = NoEntry
    BY <1>6, <2>1
  <2>2. CASE x # NoEntry
    <3>1. x.failures \in Nat /\ x.blocked \in BOOLEAN /\ x.blockedAt \in Nat /\ base = x
      BY <1>5, <2>2 DEF Attempt
    <3>. HIDE DEF base
    <3>. QED BY <3>1
  <2>. QED BY <2>1, <2>2
<1>8. c \in Nat /\ c >= 1 /\ c <= FailureLimit
      /\ (c < FailureLimit => n = c /\ ~base.blocked) /\ (c >= FailureLimit => n >= FailureLimit)
  <2>1. CASE x = NoEntry
    <3>1. s.count = 0 \/ (s.count < FailureLimit /\ ~(now - s.last <= FailWindow))
      BY <1>1, <1>3, <2>1 DEF EntryFits
    <3>2. c = 1
      BY <1>1, <1>3, <3>1
    <3>. QED BY <1>1, <1>6, <2>1, <3>2
  <2>2. CASE x # NoEntry /\ s.count < FailureLimit
    <3>1. s.count >= 1 /\ x.lastFail = s.last /\ x.failures = s.count /\ ~x.blocked
      BY <1>3, <2>2 DEF EntryFits
    <3>2. s.count > 0 /\ now - s.last <= FailWindow
      BY <1>1, <1>3, <1>4, <2>2, <3>1
    <3>3. c = s.count + 1
      BY <1>1, <1>3, <2>2, <3>2, TwoNumbers
    <3>4. n = s.count + 1 /\ base = x
      BY <1>5, <2>2, <3>1
    <3>. HIDE DEF c, n, base
    <3>. QED BY <1>1, <1>3, <2>2, <3>1, <3>3, <3>4
  <2>3. CASE x # NoEntry /\ s.count >= FailureLimit
    <3>1. x.blocked /\ x.failures >= FailureLimit /\ s.count = FailureLimit
      BY <1>1, <1>3, <2>3 DEF EntryFits
    <3>2. c = FailureLimit
      BY <1>1, <1>3, <2>3, <3>1, TwoNumbers
    <3>3. n = x.failures + 1 /\ x.failures \in Nat
      BY <1>5, <2>3 DEF Attempt
    <3>. HIDE DEF c, n, base
    <3>. QED BY <1>1, <3>1, <3>2, <3>3
  <2>. QED BY <1>1, <1>3, <2>1, <2>2, <2>3
<1>. HIDE DEF n, c, base
<1>9. /\ y \in Attempt /\ y # NoEntry /\ y.failures = n /\ y.lastFail = now
      /\ (c < FailureLimit => ~y.blocked) /\ (c >= FailureLimit => y.blocked /\ y.blockedAt = now)
  <2>1. y \in Attempt
    BY <1>1, <1>7 DEF Attempt
  <2>2. y # NoEntry
    BY <2>1, NoEntryApart DEF Attempt
  <2>3. /\ y.failures = n /\ y.lastFail = now
        /\ (c < FailureLimit => ~y.blocked) /\ (c >= FailureLimit => y.blocked /\ y.blockedAt = now)
    <3>1. /\ y.failures = n /\ y.lastFail = now
          /\ y.blockedAt = IF n >= FailureLimit THEN now ELSE base.blockedAt
      OBVIOUS
    <3>2. y.blocked <=> n >= FailureLimit \/ base.blocked
      BY Zenon
    <3>. HIDE DEF y
    <3>. QED BY <1>1, <1>7, <1>8, <3>1, <3>2
  <2>. QED BY <2>1, <2>2, <2>3
<1>. HIDE DEF y
<1>10. Left(y, now) = y
  BY <1>1, <1>8, <1>9 DEF Left
<1>11. attempts' \in [Peer -> Attempt \cup {NoEntry}] /\ streak' \in [Peer -> [count : Nat, last : Nat]]
  <2>1. \A o \in Peer : Left(attempts[o], now) \in Attempt \cup {NoEntry}
    BY LeftTyped DEF BlockInv
  <2>. QED BY <1>1, <1>2, <1>8, <1>9, <2>1 DEF BlockInv
<1>12. \A o \in Login : logins'[o].stage = "validating" => logins'[o] = logins[o]
  BY <1>1 DEF Waiting
<1>13. BlocksTrack'
  <2>. SUFFICES ASSUME NEW o \in Peer PROVE (BlocksTrack!(o))'
    BY DEF BlocksTrack
  <2>1. CASE o = p
    <3>1. attempts'[o] = y /\ streak'[o].count = c /\ streak'[o].last = now
      BY <1>1, <1>2, <2>1 DEF BlockInv
    <3>2. Left(attempts'[o], now') = y
      BY <1>1, <1>10, <3>1
    <3>3. EntryFits(Left(attempts[o], now), streak[o], now)'
      BY <1>1, <1>8, <1>9, <3>1, <3>2 DEF EntryFits
    <3>4. \A q \in Login : logins'[q].stage = "validating" => logins'[q].since <= now
      BY <1>12 DEF BlockInv, RequestsTyped
    <3>5. \A q \in Login : logins'[q].stage = "validating" => now >= logins'[q].since
      BY <1>1, <1>12 DEF BlockInv, RequestsTyped
    <3>. QED BY <1>1, <1>7, <1>8, <1>9, <3>1, <3>2, <3>3, <3>5
  <2>2. CASE o # p
    <3>1. attempts'[o] = Left(attempts[o], now) /\ streak'[o] = streak[o]
      BY <1>1, <1>2, <2>2 DEF BlockInv
    <3>2. /\ Left(attempts'[o], now') = Left(attempts[o], now)
          /\ attempts'[o] # NoEntry => attempts'[o] = attempts[o]
      BY <1>1, <3>1, LeftTwice, LeftTyped DEF BlockInv
    <3>3. BlocksTrack!(o)
      BY DEF BlockInv, BlocksTrack
    <3>4. EntryFits(Left(attempts[o], now), streak[o], now)'
      BY <1>1, <3>1, <3>2, <3>3 DEF EntryFits
    <3>. QED BY <1>1, <1>12, <3>1, <3>2, <3>3, <3>4
  <2>. QED BY <2>1, <2>2
<1>. QED BY <1>1, <1>11, <1>13 DEF BlockInv

LEMMA SuccessKeeps == ASSUME BlockInv, RequestsTyped', NEW r \in Login, LoginSucceeds(r) PROVE BlockInv'
<1>. DEFINE p == logins[r].peer
<1>1. /\ p \in Peer /\ DOMAIN logins = Login /\ now' = now /\ now \in Nat
      /\ attempts' = [attempts EXCEPT ![p] = NoEntry]
      /\ streak' = [streak EXCEPT ![p] = NoStreak]
      /\ logins' = [logins EXCEPT ![r] = Waiting]
  BY DEF LoginSucceeds, BlockInv, RequestsTyped
<1>. HIDE DEF p
<1>2. attempts' \in [Peer -> Attempt \cup {NoEntry}] /\ streak' \in [Peer -> [count : Nat, last : Nat]]
  BY <1>1 DEF BlockInv, NoStreak
<1>3. \A o \in Login : logins'[o].stage = "validating" => logins'[o] = logins[o]
  BY <1>1 DEF Waiting
<1>4. BlocksTrack'
  <2>. SUFFICES ASSUME NEW o \in Peer PROVE (BlocksTrack!(o))'
    BY DEF BlocksTrack
  <2>1. CASE o = p
    <3>1. attempts'[o] = NoEntry /\ streak'[o].count = 0 /\ streak'[o].last = 0 /\ Left(attempts'[o], now') = NoEntry
      BY <1>1, <2>1 DEF BlockInv, NoStreak, Left
    <3>. QED BY <1>1, <3>1, LimitConstants DEF EntryFits
  <2>2. CASE o # p
    <3>1. attempts'[o] = attempts[o] /\ streak'[o] = streak[o]
      BY <1>1, <2>2 DEF BlockInv
    <3>. QED BY <1>1, <1>3, <3>1 DEF BlockInv, BlocksTrack, EntryFits
  <2>. QED BY <2>1, <2>2
<1>. QED BY <1>1, <1>2, <1>4 DEF BlockInv

LEMMA TickKeepsBlocks == ASSUME BlockInv, RequestsTyped', Tick PROVE BlockInv'
<1>1. /\ now' = now + 1 /\ now \in Nat /\ now' \in 0 .. MaxTime /\ attempts' = attempts /\ logins' = logins
      /\ streak' = [p \in Peer |-> IF streak[p].count >= FailureLimit /\ now' - streak[p].last >= BlockTime
                                   THEN NoStreak ELSE streak[p]]
      /\ FailureLimit \in Nat \ {0} /\ BlockTime \in Nat \ {0} /\ FailWindow \in Nat /\ MaxTime \in Nat
  BY LimitConstants DEF Tick, BlockInv
<1>2. streak' \in [Peer -> [count : Nat, last : Nat]]
  BY <1>1 DEF BlockInv, NoStreak
<1>3. BlocksTrack'
  <2>. SUFFICES ASSUME NEW p \in Peer PROVE (BlocksTrack!(p))'
    BY DEF BlocksTrack
  <2>. DEFINE e == attempts[p]
              x == Left(e, now)
              z == Left(e, now + 1)
              s == streak[p]
  <2>1. /\ e \in Attempt \cup {NoEntry} /\ s.count \in Nat /\ s.last \in Nat /\ s.last <= now
        /\ s.count <= FailureLimit /\ EntryFits(x, s, now)
        /\ e # NoEntry => e.failures >= 1 /\ e.lastFail <= now /\ e.lastFail \in Nat /\ e.blockedAt \in Nat
        /\ \A r \in Login : logins[r].stage = "validating" /\ logins[r].peer = p /\ x # NoEntry /\ x.blocked
             => x.lastFail >= logins[r].since
    BY DEF BlockInv, BlocksTrack, Attempt
  <2>2. /\ x = NoEntry => z = NoEntry
        /\ x # NoEntry => x = e /\ z = IF \/ e.blocked /\ now + 1 - e.blockedAt >= BlockTime
                                          \/ ~e.blocked /\ now + 1 - e.lastFail > FailWindow
                                       THEN NoEntry ELSE e
    <3>1. CASE e = NoEntry
      BY <3>1 DEF Left
    <3>2. CASE e # NoEntry
      BY <1>1, <2>1, <3>2 DEF Left
    <3>. QED BY <3>1, <3>2
  <2>3. attempts'[p] = e /\ Left(attempts'[p], now') = z
        /\ streak'[p] = IF s.count >= FailureLimit /\ now + 1 - s.last >= BlockTime THEN NoStreak ELSE s
    <3>1. attempts'[p] = e /\ Left(attempts'[p], now') = z
      BY <1>1
    <3>2. streak'[p] = IF s.count >= FailureLimit /\ now' - s.last >= BlockTime THEN NoStreak ELSE s
      BY <1>1
    <3>3. now' = now + 1
      BY <1>1
    <3>. HIDE DEF s, e, z
    <3>. QED BY <2>1, <1>1, <3>1, <3>2, <3>3
  <2>. HIDE DEF e, x, z, s
  <2>4. /\ streak'[p].count \in Nat /\ streak'[p].count <= FailureLimit
        /\ streak'[p].last \in Nat /\ streak'[p].last <= now + 1
    BY <1>1, <2>1, <2>3 DEF NoStreak
  <2>5. EntryFits(z, streak'[p], now + 1)
    <3>1. CASE x = NoEntry
      <4>1. z = NoEntry /\ (s.count = 0 \/ (s.count < FailureLimit /\ now - s.last > FailWindow))
        BY <2>1, <2>2, <3>1 DEF EntryFits
      <4>2. streak'[p] = s
        BY <1>1, <2>1, <2>3, <4>1
      <4>. QED BY <1>1, <2>1, <4>1, <4>2 DEF EntryFits
    <3>2. CASE x # NoEntry /\ s.count < FailureLimit
      <4>1. x = e /\ s.count >= 1 /\ e.lastFail = s.last /\ e.failures = s.count /\ ~e.blocked
        BY <2>1, <2>2, <3>2 DEF EntryFits
      <4>2. streak'[p] = s /\ z = IF now + 1 - s.last > FailWindow THEN NoEntry ELSE e
        BY <1>1, <2>1, <2>2, <2>3, <3>2, <4>1
      <4>. QED BY <1>1, <2>1, <3>2, <4>1, <4>2 DEF EntryFits
    <3>3. CASE x # NoEntry /\ s.count >= FailureLimit
      <4>1. x = e /\ e.lastFail = s.last /\ e.blocked /\ e.blockedAt = s.last /\ e.failures >= FailureLimit
        BY <1>1, <2>1, <2>2, <3>3 DEF EntryFits
      <4>2. z = IF now + 1 - s.last >= BlockTime THEN NoEntry ELSE e
        BY <2>2, <3>3, <4>1
      <4>3. streak'[p] = IF now + 1 - s.last >= BlockTime THEN NoStreak ELSE s
        BY <2>3, <3>3
      <4>. QED BY <1>1, <2>1, <3>3, <4>1, <4>2, <4>3 DEF EntryFits, NoStreak
    <3>. QED BY <1>1, <2>1, <3>1, <3>2, <3>3
  <2>6. z # NoEntry => z = x
    BY <2>2
  <2>7. EntryFits(Left(attempts[p], now), streak[p], now)'
    <3>1. (Left(attempts[p], now))' = z /\ (streak[p])' = streak'[p] /\ now' = now + 1
      BY <1>1, <2>3
    <3>2. EntryFits(z, streak'[p], now')
      BY <2>5, <3>1
    <3>. QED BY <3>1, <3>2 DEF EntryFits
  <2>. QED BY <1>1, <2>1, <2>3, <2>4, <2>6, <2>7
<1>. QED BY <1>1, <1>2, <1>3 DEF BlockInv

\* What happens in front of the limit of failures.
LEMMA OthersKeepBlocks ==
  ASSUME BlockInv, RequestsTyped',
         \/ \E r \in Login, p \in Peer : Arrives(r, p)
         \/ \E r \in Login : AllowClient(r) \/ RefuseClosed(r)
         \/ Prune \/ CloseLimiter
  PROVE  BlockInv'
<1>1. /\ UNCHANGED <<now, attempts, streak>>
      /\ \A r \in Login : logins'[r].stage = "validating" => logins'[r] = logins[r]
  <2>1. ASSUME NEW r \in Login, NEW p \in Peer, Arrives(r, p)
        PROVE  /\ UNCHANGED <<now, attempts, streak>>
               /\ \A o \in Login : logins'[o].stage = "validating" => logins'[o] = logins[o]
    BY <2>1 DEF Arrives, BlockInv, RequestsTyped
  <2>2. ASSUME NEW r \in Login, AllowClient(r) \/ RefuseClosed(r)
        PROVE  /\ UNCHANGED <<now, attempts, streak>>
               /\ \A o \in Login : logins'[o].stage = "validating" => logins'[o] = logins[o]
    <3>1. /\ UNCHANGED <<now, attempts, streak>>
          /\ \/ logins' = [logins EXCEPT ![r] = Waiting]
             \/ logins' = [logins EXCEPT ![r] = [stage |-> "admitted", peer |-> logins[r].peer]]
      BY <2>2 DEF AllowClient, RefuseClosed
    <3>. QED BY <3>1 DEF BlockInv, RequestsTyped, Waiting
  <2>3. CASE Prune \/ CloseLimiter
    BY <2>3 DEF Prune, CloseLimiter
  <2>. QED BY <2>1, <2>2, <2>3
<1>2. BlocksTrack'
  BY <1>1 DEF BlockInv, BlocksTrack, EntryFits
<1>. QED BY <1>1, <1>2 DEF BlockInv

-----------------------------------------------------------------------------
LEMMA LimitsBegin == LimitInit => BucketInv /\ BlockInv
<1>. SUFFICES ASSUME LimitInit PROVE BucketInv /\ BlockInv
  OBVIOUS
<1>1. /\ now = 0 /\ MaxTime \in Nat /\ Burst \in Nat /\ FailureLimit \in Nat \ {0} /\ Filled(0) = 0
      /\ 0 + 0 = 0 /\ Burst + 0 = Burst
  BY LimitConstants, Filling DEF LimitInit
<1>2. RequestsTyped
  BY DEF LimitInit, RequestsTyped, Waiting
<1>3. BucketsBounded
  BY <1>1 DEF LimitInit, BucketsBounded, Waiting
<1>4. BlocksTrack
  BY <1>1 DEF LimitInit, BlocksTrack, EntryFits, Left, NoStreak, Waiting
<1>. QED BY <1>1, <1>2, <1>3, <1>4 DEF LimitInit, BucketInv, BlockInv, NoStreak

LEMMA LimitStepsKeep == ASSUME BucketInv, BlockInv, LimitNext PROVE BucketInv' /\ BlockInv'
<1>1. BucketInv'
  BY AllowKeeps, PruneKeeps, OthersKeepBuckets, TickKeepsBuckets DEF LimitNext
<1>2. RequestsTyped'
  BY <1>1 DEF BucketInv
<1>3. BlockInv'
  BY <1>2, AllowedKeeps, FailureKeeps, SuccessKeeps, TickKeepsBlocks, OthersKeepBlocks DEF LimitNext
<1>. QED BY <1>1, <1>3

LEMMA LimitsGive == ASSUME BucketInv, BlockInv PROVE LimitTypeOK /\ AdmissionBounded /\ BlockHolds
<1>1. now \in Nat /\ Burst \in Nat /\ FailureLimit \in Nat \ {0}
  BY LimitConstants DEF BucketInv
<1>2. LimitTypeOK
  <2>1. ASSUME NEW p \in Peer, buckets[p] # NoEntry
        PROVE  buckets[p].tokens \in 0 .. Burst /\ buckets[p].last \in 0 .. now
    <3>1. buckets[p].tokens \in Nat /\ buckets[p].last \in Nat
      BY <2>1 DEF BucketInv, Bucket
    <3>. QED BY <1>1, <2>1, <3>1 DEF BucketInv, BucketsBounded
  <2>2. ASSUME NEW p \in Peer, attempts[p] # NoEntry
        PROVE  attempts[p].failures >= 1 /\ attempts[p].lastFail \in 0 .. now
    <3>1. attempts[p].lastFail \in Nat
      BY <2>2 DEF BlockInv, Attempt
    <3>. QED BY <1>1, <2>2, <3>1 DEF BlockInv, BlocksTrack
  <2>. QED BY <2>1, <2>2 DEF LimitTypeOK, BucketInv
<1>3. AdmissionBounded
  BY DEF AdmissionBounded, BucketInv, BucketsBounded, Filled
<1>4. BlockHolds
  <2>. SUFFICES ASSUME NEW p \in Peer, streak[p].count >= FailureLimit PROVE ~Allowed(p)
    BY DEF BlockHolds
  <2>1. streak[p].count \in Nat /\ EntryFits(Left(attempts[p], now), streak[p], now)
    BY DEF BlockInv, BlocksTrack
  <2>2. Left(attempts[p], now) # NoEntry /\ Left(attempts[p], now).blocked
    BY <1>1, <2>1 DEF EntryFits
  <2>3. Pruned[p] = Left(attempts[p], now)
    BY PrunedIsLeft
  <2>. QED BY <2>2, <2>3 DEF Allowed
<1>. QED BY <1>2, <1>3, <1>4

\* httprate, api: whatever buckets and entries are dropped in between, no client gets
\* more than its burst and its rate, and one that failed too often in a row is not
\* let in for the whole time of the block (AllowClient, prune, loginLimiter).
THEOREM LimitsAreKept == LimitSpec => []LimitsHold
<1>1. BucketInv /\ BlockInv /\ [LimitNext]_limitVars => BucketInv' /\ BlockInv'
  <2>1. BucketInv /\ BlockInv /\ UNCHANGED limitVars => BucketInv' /\ BlockInv'
    BY DEF limitVars, BucketInv, BlockInv, RequestsTyped, BucketsBounded, BlocksTrack
  <2>. QED BY <2>1, LimitStepsKeep
<1>2. BucketInv /\ BlockInv => LimitsHold
  BY LimitsGive DEF LimitsHold
<1>. QED BY LimitsBegin, <1>1, <1>2, PTL DEF LimitSpec

-----------------------------------------------------------------------------
(* The skills in memory *)

\* What a request has read and is about to change.
CopiesTyped ==
  /\ copy \in [SkillClient ->
       [op : {"none", "update", "delete", "remove", "over"}, name : SkillName \cup {"none"},
        was : LoadedSkill \cup {NotLoaded}]]
  /\ \A c \in SkillClient : copy[c].op \in {"update", "delete", "remove"} =>
       copy[c].name \in SkillName /\ copy[c].was \in LoadedSkill

\* The root is watched since the first sync, and the sub directory only while it is there.
WatchesHold ==
  /\ "root" \notin watched => store = "starting" /\ stage \in {"root1", "sub1", "sync1"}
  /\ "root" \notin watched /\ ~blind => ~subdir
  /\ "sub" \in watched => subdir
  /\ disk["sub"] # NoSkill => subdir
  /\ store = "starting" => stage # "idle"

\* As long as no event is left, nothing has changed behind a discovery: what it
\* listed is there, what is there is watched from the first sync on, and what
\* the second round has found is what the files say.
FoundIsThere ==
  /\ stage \in {"sub1", "sync1", "sub2", "sync2"} => listed = subdir
  /\ stage \in {"root2", "sub2", "sync2", "publish", "idle"} => (subdir => "sub" \in watched)
  /\ stage \in {"sub2", "sync2", "publish"} => found["top"] = disk["top"]
  /\ stage \in {"sync2", "publish"} => found["sub"] = disk["sub"]
  /\ stage = "idle" => loaded = SkillsOf(disk)

SkillInv ==
  /\ SkillTypeOK /\ CopiesTyped /\ WatchesHold
  /\ ~event /\ ~blind => FoundIsThere

-----------------------------------------------------------------------------
LEMMA SkillsTyped ==
  ASSUME NEW tree \in [File -> Skill \cup {NoSkill}]
  PROVE  SkillsOf(tree) \in [SkillName -> LoadedSkill \cup {NotLoaded}]
BY DEF SkillsOf, File, Skill, NoSkill, LoadedSkill, NotLoaded, Usable

LEMMA SkillsBegin == SkillInit => SkillInv
<1>. SUFFICES ASSUME SkillInit PROVE SkillInv
  OBVIOUS
<1>. USE DEF SkillInit
<1>1. Nothing \in [File -> Skill \cup {NoSkill}] /\ Nothing["sub"] = NoSkill
  BY DEF Nothing, File
<1>2. SkillTypeOK
  <2>1. 0 \in 0 .. MaxEdits
    BY EditsBounded
  <2>. QED BY <1>1, <2>1, SkillsTyped DEF SkillTypeOK
<1>3. CopiesTyped
  BY DEF CopiesTyped, NotAsked, NotLoaded
<1>. QED BY <1>1, <1>2, <1>3 DEF SkillInv, WatchesHold, FoundIsThere

\* Others change the tree.
LEMMA EditsKeepSkills ==
  ASSUME SkillInv,
         \/ \E f \in File : WriteSkill(f)
         \/ MakeSubdir \/ RemoveSubdir
  PROVE  SkillInv'
<1>. USE DEF Edited, Notify, DirOf
<1>1. SkillTypeOK'
  <2>1. edits' \in 0 .. MaxEdits
    BY EditsBounded DEF SkillInv, SkillTypeOK,
         WriteSkill, MakeSubdir, RemoveSubdir
  <2>2. ASSUME NEW f \in File, WriteSkill(f) PROVE SkillTypeOK'
    BY <2>1, <2>2 DEF SkillInv, SkillTypeOK, WriteSkill
  <2>3. CASE MakeSubdir
    BY <2>1, <2>3 DEF SkillInv, SkillTypeOK, MakeSubdir
  <2>4. CASE RemoveSubdir
    BY <2>1, <2>4, SkillsTyped DEF SkillInv, SkillTypeOK, RemoveSubdir
  <2>. QED BY <2>2, <2>3, <2>4
<1>2. CopiesTyped'
  BY DEF SkillInv, CopiesTyped, WriteSkill, MakeSubdir, RemoveSubdir
<1>3. WatchesHold'
  <2>1. ASSUME NEW f \in File, WriteSkill(f) PROVE WatchesHold'
    BY <2>1 DEF SkillInv, SkillTypeOK, WatchesHold, File, WriteSkill
  <2>2. CASE MakeSubdir
    BY <2>2 DEF SkillInv, SkillTypeOK, WatchesHold, MakeSubdir
  <2>3. CASE RemoveSubdir
    BY <2>3 DEF SkillInv, SkillTypeOK, WatchesHold, File, RemoveSubdir
  <2>. QED BY <2>1, <2>2, <2>3
<1>4. ~event' /\ ~blind' => FoundIsThere'
  BY DEF SkillInv, SkillTypeOK, WatchesHold, FoundIsThere, File,
       WriteSkill, MakeSubdir, RemoveSubdir
<1>. QED BY <1>1, <1>2, <1>3, <1>4 DEF SkillInv

\* A reload looks, brings the watches up to date, looks again and publishes.
LEMMA ReloadKeepsSkills ==
  ASSUME SkillInv,
         \/ StartReload \/ VisitRoot \/ VisitSub
         \/ SyncFirst \/ SyncSecond \/ Publish
  PROVE  SkillInv'
<1>. USE DEF treeVars, Watched, Nothing
<1>1. SkillTypeOK'
  <2>1. CASE StartReload \/ SyncFirst \/ SyncSecond
    BY <2>1 DEF SkillInv, SkillTypeOK, StartReload, SyncFirst, SyncSecond
  <2>2. CASE VisitRoot
    BY <2>2, SkillsTyped DEF SkillInv, SkillTypeOK, File, VisitRoot
  <2>3. CASE VisitSub
    BY <2>3, SkillsTyped DEF SkillInv, SkillTypeOK, File, VisitSub
  <2>4. CASE Publish
    BY <2>4, SkillsTyped DEF SkillInv, SkillTypeOK, Publish
  <2>. QED BY <2>1, <2>2, <2>3, <2>4
<1>2. CopiesTyped'
  BY DEF SkillInv, CopiesTyped, StartReload, VisitRoot, VisitSub, SyncFirst, SyncSecond,
       Publish
<1>3. WatchesHold'
  BY DEF SkillInv, SkillTypeOK, WatchesHold, StartReload, VisitRoot, VisitSub,
       SyncFirst, SyncSecond, Publish
<1>4. ASSUME ~event', ~blind' PROVE FoundIsThere'
  <2>1. CASE StartReload \/ VisitRoot \/ SyncFirst
    BY <2>1, <1>4 DEF SkillInv, SkillTypeOK, FoundIsThere, WatchesHold, File,
         StartReload, VisitRoot, SyncFirst
  <2>2. CASE VisitSub \/ SyncSecond
    BY <2>2, <1>4 DEF SkillInv, SkillTypeOK, FoundIsThere, WatchesHold, File, VisitSub, SyncSecond
  <2>3. CASE Publish
    <3>1. found = disk
      BY <2>3, <1>4 DEF SkillInv, SkillTypeOK, FoundIsThere, File, Publish
    <3>. QED BY <3>1, <2>3, <1>4 DEF SkillInv, FoundIsThere, Publish
  <2>. QED BY <2>1, <2>2, <2>3
<1>. QED BY <1>1, <1>2, <1>3, <1>4 DEF SkillInv

\* The handlers change a file only when its directory is there, and the watcher tells of it.
LEMMA HandlersKeepSkills ==
  ASSUME SkillInv, NEW c \in SkillClient,
         \/ GetSkill(c) \/ UpdateSkill(c) \/ RefuseDelete(c)
         \/ MayDelete(c) \/ RemoveSkill(c)
  PROVE  SkillInv'
<1>. USE DEF treeVars, loadVars, AskedTo, Done, NotAsked, LoadedSkill, NotLoaded
<1>1. CopiesTyped'
  <2>1. CASE RefuseDelete(c) \/ MayDelete(c)
    BY <2>1 DEF SkillInv, CopiesTyped, RefuseDelete, MayDelete
  <2>4. CASE GetSkill(c)
    BY <2>4 DEF SkillInv, CopiesTyped, SkillTypeOK, GetSkill
  <2>2. CASE UpdateSkill(c)
    BY <2>2 DEF SkillInv, CopiesTyped, SkillTypeOK, UpdateSkill
  <2>3. CASE RemoveSkill(c)
    BY <2>3 DEF SkillInv, CopiesTyped, SkillTypeOK, RemoveSkill
  <2>. QED BY <2>1, <2>2, <2>3, <2>4
<1>2. SkillTypeOK'
  <2>1. CASE GetSkill(c) \/ RefuseDelete(c) \/ MayDelete(c)
    BY <2>1 DEF SkillInv, SkillTypeOK, GetSkill, RefuseDelete, MayDelete
  <2>2. CASE UpdateSkill(c)
    <3>1. copy[c].name \in SkillName /\ copy[c].was.file \in File
      BY <2>2 DEF SkillInv, CopiesTyped, UpdateSkill
    <3>2. disk' \in [File -> Skill \cup {NoSkill}] /\ event' \in BOOLEAN
      <4>1. \A kind \in {"on", "off", "blank"} : [name |-> copy[c].name, kind |-> kind] \in Skill
        BY <3>1 DEF Skill
      <4>2. \/ \E skill \in Skill, f \in File : Replace(f, skill)
            \/ UNCHANGED <<disk, event>>
        BY <2>2, <3>1, <4>1 DEF UpdateSkill
      <4>. QED BY <4>2 DEF SkillInv, SkillTypeOK, Replace, Notify
    <3>3. loaded' \in [SkillName -> LoadedSkill \cup {NotLoaded}]
      BY <2>2, <3>1 DEF SkillInv, SkillTypeOK, UpdateSkill
    <3>. QED BY <2>2, <3>2, <3>3 DEF SkillInv, SkillTypeOK, UpdateSkill
  <2>3. CASE RemoveSkill(c)
    BY <2>3 DEF SkillInv, CopiesTyped, SkillTypeOK, RemoveSkill, Replace, Notify
  <2>. QED BY <2>1, <2>2, <2>3
<1>3. WatchesHold' /\ (~event' /\ ~blind' => FoundIsThere')
  <2>1. CASE GetSkill(c) \/ RefuseDelete(c) \/ MayDelete(c)
    BY <2>1 DEF SkillInv, WatchesHold, FoundIsThere, GetSkill, RefuseDelete, MayDelete
  <2>2. CASE UpdateSkill(c)
    BY <2>2 DEF SkillInv, CopiesTyped, SkillTypeOK, WatchesHold, FoundIsThere, UpdateSkill, Replace,
         Notify, DirOf, Reachable, File, Skill
  <2>3. CASE RemoveSkill(c)
    BY <2>3 DEF SkillInv, CopiesTyped, SkillTypeOK, WatchesHold, FoundIsThere, RemoveSkill, Replace,
         Notify, DirOf, Reachable, File, Skill
  <2>. QED BY <2>1, <2>2, <2>3
<1>. QED BY <1>1, <1>2, <1>3 DEF SkillInv

LEMMA SkillStepKeeps == ASSUME SkillInv, SkillNext PROVE SkillInv'
<1>1. CASE CloseStore \/ StoreClosed
  <2>. (store' = "closing" \/ store' = "closed") /\ store # "starting"
       /\ UNCHANGED <<disk, subdir, edits, blind, watched, event, stage, found, listed, loaded, copy>>
    BY <1>1 DEF CloseStore, StoreClosed, treeVars, loadVars
  <2>. QED BY DEF SkillInv, SkillTypeOK, CopiesTyped, WatchesHold, FoundIsThere
<1>. QED BY <1>1, EditsKeepSkills, ReloadKeepsSkills, HandlersKeepSkills DEF SkillNext

\* skills.Store: when no event is left and no reload is under way, the skills in
\* memory are those of the tree, whatever others and the handlers did to it while
\* it was looked at (loadAll, syncWatchDirs, Save, Remove).
THEOREM SkillsFollowTheFiles == SkillSpec => []HotReload
<1>1. SkillInv /\ [SkillNext]_skillVars => SkillInv'
  <2>1. SkillInv /\ UNCHANGED skillVars => SkillInv'
    BY DEF SkillInv, SkillTypeOK, CopiesTyped, WatchesHold, FoundIsThere, skillVars, treeVars, loadVars
  <2>. QED BY <2>1, SkillStepKeeps
<1>2. SkillInv => HotReload
  BY DEF SkillInv, FoundIsThere, HotReload, ReloadMissesNothing
<1>. QED BY SkillsBegin, <1>1, <1>2, PTL DEF SkillSpec

-----------------------------------------------------------------------------
(* The hub of a log *)

\* What the writer keeps of a line.
LineKept == [text : Seq(Byte), truncated : BOOLEAN]

HubTyped ==
  /\ buf \in Seq(Byte) /\ Len(buf) <= MaxContent /\ rest \in Seq(Byte) /\ cut \in BOOLEAN
  /\ lines \in Seq(LineKept) /\ kept \in 0..Len(lines)
  /\ ends \in [Reader -> {"none", "open", "closed"}] /\ joinedAt \in [Reader -> Int]
  /\ queue \in [Reader -> Seq(Nat)] /\ got \in [Reader -> Seq(Nat)]

\* The rows of numbers in which each follows the one before it.
Follows(q) == \A i \in 2..Len(q) : q[i] = q[i - 1] + 1

LEMMA AppendFollows ==
  ASSUME NEW q \in Seq(Nat), NEW n \in Nat, Follows(q), Len(q) > 0 => q[Len(q)] = n - 1
  PROVE  /\ Append(q, n) \in Seq(Nat) /\ Len(Append(q, n)) = Len(q) + 1
         /\ Follows(Append(q, n))
         /\ Append(q, n)[Len(q) + 1] = n
         /\ \A i \in 1..Len(q) : Append(q, n)[i] = q[i]
<1>. DEFINE a == Append(q, n)
<1>1. /\ a \in Seq(Nat) /\ Len(a) = Len(q) + 1 /\ Len(q) \in Nat
      /\ \A i \in 1..Len(q) : a[i] = q[i]
      /\ a[Len(q) + 1] = n
  OBVIOUS
<1>. HIDE DEF a
<1>2. ASSUME NEW i \in 2..Len(a) PROVE a[i] = a[i - 1] + 1
  <2>1. i \in Int /\ 2 <= i /\ i <= Len(q) + 1
    BY <1>1
  <2>2. CASE i = Len(q) + 1
    <3>1. Len(q) > 0 /\ i - 1 = Len(q) /\ Len(q) \in 1..Len(q)
      BY <1>1, <2>1, <2>2
    <3>2. a[Len(q)] = q[Len(q)]
      BY <1>1, <3>1
    <3>3. a[i] = n /\ a[i - 1] = n - 1
      BY <1>1, <2>2, <3>1, <3>2
    <3>. QED BY <3>3
  <2>3. CASE i # Len(q) + 1
    <3>1. i - 1 \in 1..Len(q) /\ i \in 1..Len(q) /\ i \in 2..Len(q)
      BY <1>1, <2>1, <2>3
    <3>2. a[i] = q[i] /\ a[i - 1] = q[i - 1]
      BY <1>1, <3>1
    <3>3. q[i] = q[i - 1] + 1
      BY <3>1 DEF Follows
    <3>. QED BY <3>2, <3>3
  <2>. QED BY <2>2, <2>3
<1>3. Follows(a)
  BY <1>2 DEF Follows
<1>. QED BY <1>1, <1>3 DEF a

LEMMA TailFollows ==
  ASSUME NEW q \in Seq(Nat), Len(q) > 0, Follows(q)
  PROVE  /\ Tail(q) \in Seq(Nat) /\ Len(Tail(q)) = Len(q) - 1 /\ Head(q) = q[1]
         /\ Follows(Tail(q))
         /\ \A i \in 1..(Len(q) - 1) : Tail(q)[i] = q[i + 1]
         /\ Len(q) > 1 => Tail(q)[1] = q[1] + 1 /\ Tail(q)[Len(q) - 1] = q[Len(q)]
<1>. DEFINE t == Tail(q)
<1>1. t \in Seq(Nat) /\ Len(t) = Len(q) - 1 /\ Len(q) \in Nat /\ Head(q) = q[1]
  OBVIOUS
<1>2. \A i \in 1..(Len(q) - 1) : t[i] = q[i + 1]
  BY <1>1
<1>. HIDE DEF t
<1>3. ASSUME NEW i \in 2..Len(t) PROVE t[i] = t[i - 1] + 1
  <2>1. /\ i \in 1..(Len(q) - 1) /\ i - 1 \in 1..(Len(q) - 1) /\ i + 1 \in 2..Len(q)
        /\ (i - 1) + 1 = i /\ (i + 1) - 1 = i
    BY <1>1
  <2>2. t[i] = q[i + 1] /\ t[i - 1] = q[(i - 1) + 1]
    BY <1>2, <2>1
  <2>3. q[i + 1] = q[(i + 1) - 1] + 1
    BY <2>1 DEF Follows
  <2>. QED BY <2>1, <2>2, <2>3
<1>4. ASSUME Len(q) > 1 PROVE t[1] = q[1] + 1 /\ t[Len(q) - 1] = q[Len(q)]
  <2>1. /\ 1 \in 1..(Len(q) - 1) /\ Len(q) - 1 \in 1..(Len(q) - 1) /\ 2 \in 2..Len(q)
        /\ (Len(q) - 1) + 1 = Len(q) /\ 1 + 1 = 2 /\ 2 - 1 = 1
    BY <1>1, <1>4
  <2>2. t[1] = q[1 + 1] /\ t[Len(q) - 1] = q[(Len(q) - 1) + 1]
    BY <1>2, <2>1
  <2>3. q[2] = q[2 - 1] + 1
    BY <2>1 DEF Follows
  <2>. QED BY <2>1, <2>2, <2>3
<1>5. Follows(t)
  BY <1>3 DEF Follows
<1>. QED BY <1>1, <1>2, <1>4, <1>5 DEF t

\* What is in the queue q of a reader are lines, of n that there are, that follow each
\* other and the lines g that it has got; without any of those they begin after the line
\* j with which it joined at most.  While its channel is open they go on to the last line.
Fits(q, g, j, end, n) ==
  /\ Follows(q) /\ \A i \in 1..Len(q) : 1 <= q[i] /\ q[i] <= n
  /\ Len(q) > 0 /\ Len(g) > 0 => q[1] = g[Len(g)] + 1
  /\ Len(q) > 0 /\ Len(g) = 0 => q[1] <= j + 1
  /\ end = "open" /\ Len(q) > 0 => q[Len(q)] = n
  /\ end = "open" /\ Len(q) = 0 /\ Len(g) > 0 => g[Len(g)] = n
  /\ end = "open" /\ Len(q) = 0 /\ Len(g) = 0 => j = n
  /\ j = -1 => Len(q) = 0 /\ Len(g) = 0 /\ end = "none"

QueueFits(r) == Fits(queue[r], got[r], joinedAt[r], ends[r], Len(lines))

LEMMA FitsPushed ==
  ASSUME NEW q \in Seq(Nat), NEW g \in Seq(Nat), NEW j \in Int, NEW n \in Nat, Fits(q, g, j, "open", n)
  PROVE  Append(q, n + 1) \in Seq(Nat) /\ Fits(Append(q, n + 1), g, j, "open", n + 1)
<1>1. /\ Append(q, n + 1) \in Seq(Nat) /\ Len(Append(q, n + 1)) = Len(q) + 1 /\ Len(q) \in Nat
      /\ Follows(Append(q, n + 1))
      /\ Append(q, n + 1)[Len(q) + 1] = n + 1
      /\ \A i \in 1..Len(q) : Append(q, n + 1)[i] = q[i]
  <2>1. n + 1 \in Nat /\ (Len(q) > 0 => q[Len(q)] = (n + 1) - 1) /\ Follows(q)
    BY DEF Fits
  <2>. QED BY <2>1, AppendFollows
<1>2. PICK a : a = Append(q, n + 1)
  OBVIOUS
<1>3. ASSUME NEW i \in 1..Len(a) PROVE 1 <= a[i] /\ a[i] <= n + 1
  <2>1. CASE i = Len(q) + 1
    BY <1>1, <1>2, <2>1
  <2>2. CASE i # Len(q) + 1
    <3>1. i \in 1..Len(q) /\ a[i] = q[i] /\ q[i] \in Nat
      BY <1>1, <1>2, <2>2
    <3>2. 1 <= q[i] /\ q[i] <= n
      BY <3>1 DEF Fits
    <3>. QED BY <3>1, <3>2
  <2>. QED BY <2>1, <2>2
<1>4. CASE Len(q) > 0
  <2>1. a[1] = q[1] /\ Len(a) > 0 /\ a[Len(a)] = n + 1
    BY <1>1, <1>2, <1>4
  <2>. QED BY <1>1, <1>2, <1>3, <1>4, <2>1 DEF Fits
<1>5. CASE Len(q) = 0
  <2>1. Len(a) = 1 /\ a[1] = n + 1
    BY <1>1, <1>2, <1>5
  <2>2. (Len(g) > 0 => g[Len(g)] = n) /\ (Len(g) = 0 => j = n) /\ j # -1
    BY <1>5 DEF Fits
  <2>3. (Len(g) > 0 => a[1] = g[Len(g)] + 1) /\ (Len(g) = 0 => a[1] <= j + 1)
    BY <2>1, <2>2
  <2>. QED BY <1>1, <1>2, <1>3, <2>1, <2>2, <2>3 DEF Fits
<1>. QED BY <1>1, <1>4, <1>5

\* A reader that is put out has what is in its queue, and the log may go on without it.
LEMMA FitsLeft ==
  ASSUME NEW q \in Seq(Nat), NEW g \in Seq(Nat), NEW j \in Int, NEW end, NEW n \in Nat, Fits(q, g, j, end, n),
         NEW m \in Nat, m >= n, NEW to, to # "open", j = -1 => to = "none"
  PROVE  Fits(q, g, j, to, m)
<1>1. ASSUME NEW i \in 1..Len(q) PROVE 1 <= q[i] /\ q[i] <= m
  <2>1. 1 <= q[i] /\ q[i] <= n /\ q[i] \in Nat
    BY DEF Fits
  <2>. QED BY <2>1
<1>. QED BY <1>1 DEF Fits

LEMMA FitsJoined ==
  ASSUME NEW n \in Nat, NEW tail \in 0..n, NEW q, q = [i \in 1..tail |-> n - tail + i]
  PROVE  q \in Seq(Nat) /\ Fits(q, <<>>, n, "open", n)
<1>1. q \in Seq(Nat) /\ Len(q) = tail /\ \A i \in 1..tail : q[i] = n - tail + i
  OBVIOUS
<1>2. Follows(q)
  BY <1>1 DEF Follows
<1>3. Len(q) > 0 => q[1] <= n + 1 /\ q[Len(q)] = n
  BY <1>1
<1>. QED BY <1>1, <1>2, <1>3 DEF Fits

LEMMA FitsReceived ==
  ASSUME NEW q \in Seq(Nat), NEW g \in Seq(Nat), NEW j \in Int, NEW end, NEW n \in Nat, Fits(q, g, j, end, n),
         Len(q) > 0
  PROVE  /\ Head(q) \in 1..n /\ Tail(q) \in Seq(Nat) /\ Append(g, Head(q)) \in Seq(Nat) /\ j # -1
         /\ Fits(Tail(q), Append(g, Head(q)), j, end, n)
         /\ Len(g) > 0 => Head(q) = g[Len(g)] + 1
         /\ Len(g) = 0 => Head(q) <= j + 1
<1>1. PICK t : t = Tail(q)
  OBVIOUS
<1>2. /\ t \in Seq(Nat) /\ Len(t) = Len(q) - 1 /\ Head(q) = q[1] /\ Follows(t) /\ Len(q) \in Nat
      /\ \A i \in 1..(Len(q) - 1) : t[i] = q[i + 1]
      /\ Len(q) > 1 => t[1] = q[1] + 1 /\ t[Len(q) - 1] = q[Len(q)]
  BY <1>1, TailFollows DEF Fits
<1>3. Head(q) \in 1..n /\ q[1] \in 1..n
  <2>1. 1 \in 1..Len(q)
    BY <1>2
  <2>2. 1 <= q[1] /\ q[1] <= n /\ q[1] \in Nat
    BY <2>1 DEF Fits
  <2>. QED BY <1>2, <2>2
<1>4. PICK h : h = Append(g, Head(q))
  OBVIOUS
<1>5. h \in Seq(Nat) /\ Len(h) = Len(g) + 1 /\ Len(h) > 0 /\ h[Len(h)] = q[1]
  BY <1>2, <1>3, <1>4
<1>6. ASSUME NEW i \in 1..Len(t) PROVE 1 <= t[i] /\ t[i] <= n
  <2>1. t[i] = q[i + 1] /\ i + 1 \in 1..Len(q)
    BY <1>2
  <2>. QED BY <2>1 DEF Fits
<1>7. j # -1
  BY DEF Fits
<1>8. CASE Len(q) > 1
  <2>1. Len(t) > 0 /\ t[1] = h[Len(h)] + 1 /\ t[Len(t)] = q[Len(q)]
    BY <1>2, <1>5, <1>8
  <2>2. end = "open" => t[Len(t)] = n
    BY <2>1 DEF Fits
  <2>3. Fits(t, h, j, end, n)
    <3>1. Follows(t) /\ (\A i \in 1..Len(t) : 1 <= t[i] /\ t[i] <= n) /\ ~(Len(t) = 0) /\ ~(Len(h) = 0)
      <4>1. Follows(t)
        BY <1>2
      <4>2. \A i \in 1..Len(t) : 1 <= t[i] /\ t[i] <= n
        BY <1>6
      <4>3. ~(Len(t) = 0)
        BY <2>1
      <4>4. ~(Len(h) = 0)
        BY <1>5
      <4>. QED BY <4>1, <4>2, <4>3, <4>4
    <3>. QED BY ONLY <1>7, <2>1, <2>2, <3>1 DEF Fits
  <2>. QED BY <1>1, <1>2, <1>3, <1>4, <1>5, <1>7, <2>3 DEF Fits
<1>9. CASE Len(q) = 1
  <2>1. Len(t) = 0 /\ (end = "open" => h[Len(h)] = n)
    BY <1>2, <1>5, <1>9 DEF Fits
  <2>2. Fits(t, h, j, end, n)
    <3>1. Follows(t) /\ (\A i \in 1..Len(t) : 1 <= t[i] /\ t[i] <= n) /\ ~(Len(t) > 0) /\ ~(Len(h) = 0)
      <4>1. Follows(t)
        BY <1>2
      <4>2. \A i \in 1..Len(t) : 1 <= t[i] /\ t[i] <= n
        BY <2>1
      <4>3. ~(Len(t) > 0)
        BY <2>1
      <4>4. ~(Len(h) = 0)
        BY <1>5
      <4>. QED BY <4>1, <4>2, <4>3, <4>4
    <3>. QED BY ONLY <1>7, <2>1, <3>1 DEF Fits
  <2>. QED BY <1>1, <1>2, <1>3, <1>4, <1>5, <1>7, <2>2 DEF Fits
<1>. QED BY <1>2, <1>8, <1>9

HubInv == HubTyped /\ \A r \in Reader : QueueFits(r)

ReaderLog == [i \in DOMAIN lines |-> 1]

LEMMA HubBegins == HubInit => HubInv
<1>. SUFFICES ASSUME HubInit PROVE HubInv
  OBVIOUS
<1>1. /\ <<>> \in Seq(Byte) /\ <<>> \in Seq(Nat) /\ Len(<<>>) = 0
      /\ <<>> \in Seq(LineKept)
  OBVIOUS
<1>2. HubTyped
  <2>1. buf \in Seq(Byte) /\ Len(buf) <= MaxContent /\ rest \in Seq(Byte) /\ cut \in BOOLEAN
    <3>1. cut \in BOOLEAN
      BY DEF HubInit
    <3>2. buf = <<>> /\ rest = <<>>
      BY DEF HubInit
    <3>. QED BY <1>1, <3>1, <3>2, HubConstants
  <2>2. lines \in Seq(LineKept) /\ kept \in 0..Len(lines)
    BY <1>1 DEF HubInit
  <2>3. ends \in [Reader -> {"none", "open", "closed"}] /\ joinedAt \in [Reader -> Int]
    BY DEF HubInit
  <2>4. queue \in [Reader -> Seq(Nat)] /\ got \in [Reader -> Seq(Nat)]
    BY <1>1 DEF HubInit
  <2>. QED BY <2>1, <2>2, <2>3, <2>4 DEF HubTyped
<1>3. ASSUME NEW r \in Reader PROVE QueueFits(r)
  <2>1. queue[r] = <<>> /\ got[r] = <<>> /\ joinedAt[r] = -1 /\ ends[r] = "none"
    BY DEF HubInit
  <2>. QED BY <1>1, <2>1 DEF QueueFits, Fits, Follows
<1>. QED BY <1>2, <1>3 DEF HubInv

\* A line is added to the log, and to the queue of each reader that has room.
LEMMA PushKeeps ==
  ASSUME HubInv, NEW line \in LineKept, Push(line), UNCHANGED <<joinedAt, got>>
  PROVE  /\ lines' \in Seq(LineKept) /\ kept' \in 0..Len(lines')
         /\ ends' \in [Reader -> {"none", "open", "closed"}] /\ queue' \in [Reader -> Seq(Nat)]
         /\ \A r \in Reader : QueueFits(r)'
         /\ \/ UNCHANGED lines
            \/ lines' = Append(lines, line)
<1>1. CASE hubOpen
  <2>. DEFINE n == Len(lines) + 1
  <2>1. /\ lines' = Append(lines, line) /\ lines' \in Seq(LineKept)
        /\ Len(lines') = n /\ n \in Nat /\ Len(lines) \in Nat
    <3>1. lines' = Append(lines, line) /\ lines \in Seq(LineKept)
      BY <1>1 DEF Push, HubInv, HubTyped
    <3>. QED BY <3>1
  <2>2. kept' \in 0..Len(lines')
    BY <1>1, <2>1 DEF Push, HubInv, HubTyped
  <2>3. ASSUME NEW r \in Reader
        PROVE  /\ ends'[r] \in {"none", "open", "closed"} /\ queue'[r] \in Seq(Nat) /\ QueueFits(r)'
               /\ DOMAIN ends' = Reader /\ DOMAIN queue' = Reader
    <3>1. /\ queue[r] \in Seq(Nat) /\ got[r] \in Seq(Nat) /\ joinedAt[r] \in Int
          /\ ends[r] \in {"none", "open", "closed"} /\ QueueFits(r) /\ got'[r] = got[r] /\ joinedAt'[r] = joinedAt[r]
      BY DEF HubInv, HubTyped
    <3>2. /\ DOMAIN ends' = Reader /\ DOMAIN queue' = Reader
          /\ \/ ends[r] = "open" /\ ends'[r] = "open" /\ queue'[r] = Append(queue[r], n)
             \/ ends'[r] \in {"none", "closed"} /\ queue'[r] = queue[r] /\ (ends'[r] = "none" <=> ends[r] = "none")
      BY <1>1, <3>1 DEF Push, FanOut, Open
    <3>3. CASE ends[r] = "open" /\ ends'[r] = "open" /\ queue'[r] = Append(queue[r], n)
      <4>1. Append(queue[r], n) \in Seq(Nat) /\ Fits(Append(queue[r], n), got[r], joinedAt[r], "open", n)
        BY <2>1, <3>1, <3>3, FitsPushed DEF QueueFits
      <4>. QED BY <2>1, <3>1, <3>2, <3>3, <4>1 DEF QueueFits
    <3>4. CASE ends'[r] \in {"none", "closed"} /\ queue'[r] = queue[r] /\ (ends'[r] = "none" <=> ends[r] = "none")
      <4>1. joinedAt[r] = -1 => ends'[r] = "none"
        BY <3>1, <3>4 DEF QueueFits, Fits
      <4>2. n >= Len(lines) /\ ends'[r] # "open"
        BY <2>1, <3>4
      <4>3. Fits(queue[r], got[r], joinedAt[r], ends'[r], n)
        <5>1. Fits(queue[r], got[r], joinedAt[r], ends[r], Len(lines))
          BY <3>1 DEF QueueFits
        <5>. QED BY <2>1, <3>1, <4>1, <4>2, <5>1, FitsLeft
      <4>. QED BY <2>1, <3>1, <3>2, <3>4, <4>3 DEF QueueFits
    <3>. QED BY <3>2, <3>3, <3>4
  <2>4. ends' \in [Reader -> {"none", "open", "closed"}] /\ queue' \in [Reader -> Seq(Nat)]
    BY <1>1, <2>3 DEF Push, FanOut
  <2>. QED BY <2>1, <2>2, <2>3, <2>4
<1>2. CASE ~hubOpen
  BY <1>2 DEF Push, HubInv, HubTyped, QueueFits
<1>. QED BY <1>1, <1>2

\* What the writer keeps of a line.
LEMMA AppendedTyped ==
  ASSUME HubTyped, NEW chunk \in Seq(Byte)
  PROVE  /\ Appended(chunk) \in LineKept
         /\ Len(Appended(chunk).text) <= MaxContent
<1>1. buf \in Seq(Byte) /\ Room \in Nat /\ Len(buf) + Room = MaxContent
  BY HubConstants DEF HubTyped, Room
<1>. DEFINE fits == IF Len(chunk) <= Room THEN chunk ELSE SubSeq(chunk, 1, Room)
<1>2. fits \in Seq(Byte) /\ Len(fits) <= Room
  <2>1. CASE Len(chunk) <= Room
    BY <2>1
  <2>2. CASE ~(Len(chunk) <= Room)
    BY <1>1, <2>2
  <2>. QED BY <2>1, <2>2
<1>3. buf \o fits \in Seq(Byte) /\ Len(buf \o fits) <= MaxContent
  BY <1>1, <1>2, HubConstants
<1>4. (cut \/ Len(chunk) > Room) \in BOOLEAN
  OBVIOUS
<1>. QED BY <1>3, <1>4, HubConstants DEF Appended, HubTyped, LineKept

LEMMA EmitKeeps ==
  ASSUME HubInv, NEW line \in LineKept, Emit(line), UNCHANGED <<joinedAt, got>>,
         rest' \in Seq(Byte)
  PROVE  HubInv' /\ (UNCHANGED lines \/ lines' = Append(lines, line))
<1>1. buf' \in Seq(Byte) /\ Len(buf') <= MaxContent /\ cut' \in BOOLEAN
  <2>1. buf' = <<>> /\ <<>> \in Seq(Byte) /\ Len(<<>>) = 0
    BY DEF Emit
  <2>2. cut' \in BOOLEAN
    BY DEF Emit
  <2>. QED BY <2>1, <2>2, HubConstants
<1>2. joinedAt' \in [Reader -> Int] /\ got' \in [Reader -> Seq(Nat)]
  BY DEF HubInv, HubTyped
<1>3. CASE Blank(line)
  <2>1. UNCHANGED <<lines, kept, ends, queue>>
    BY <1>3 DEF Emit
  <2>2. ASSUME NEW r \in Reader PROVE QueueFits(r)'
    BY <2>1 DEF HubInv, QueueFits
  <2>. QED BY <1>1, <1>2, <2>1, <2>2 DEF HubInv, HubTyped
<1>4. CASE ~Blank(line)
  <2>1. Push(line)
    BY <1>4 DEF Emit
  <2>. QED BY <1>1, <1>2, <2>1, PushKeeps DEF HubInv, HubTyped
<1>. QED BY <1>3, <1>4

\* A step of the writer adds a line at most, and tells the readers of it.
LEMMA WriterKeeps ==
  ASSUME HubInv, (\E chunk \in SeqOf(Byte, 2) : Write(chunk)) \/ WriteStep \/ CloseWriter
  PROVE  /\ HubInv' /\ UNCHANGED <<joinedAt, got>>
         /\ UNCHANGED lines \/ \E line \in LineKept : lines' = Append(lines, line)
<1>1. ASSUME NEW chunk \in SeqOf(Byte, 2), Write(chunk)
      PROVE  HubInv' /\ UNCHANGED <<lines, joinedAt, got>>
  <2>1. chunk \in Seq(Byte)
    <3>1. PICK m \in 0..2 : chunk \in [1..m -> Byte]
      BY DEF SeqOf
    <3>. QED BY <3>1
  <2>2. /\ rest' = chunk
        /\ UNCHANGED <<buf, cut, lines, kept, ends, queue, joinedAt, got>>
    BY <1>1 DEF Write, readerVars
  <2>3. ASSUME NEW r \in Reader PROVE QueueFits(r)'
    BY <2>2 DEF HubInv, QueueFits
  <2>. QED BY <2>1, <2>2, <2>3 DEF HubInv, HubTyped
<1>2. CASE WriteStep
  <2>1. CASE /\ \A i \in DOMAIN rest : rest[i] # "\n"
             /\ buf' = Appended(rest).text /\ cut' = Appended(rest).truncated /\ rest' = <<>>
             /\ UNCHANGED <<lines, kept, ends, queue>>
    <3>1. buf' \in Seq(Byte) /\ Len(buf') <= MaxContent /\ cut' \in BOOLEAN /\ rest' \in Seq(Byte)
      <4>1. rest \in Seq(Byte) /\ rest' = <<>> /\ <<>> \in Seq(Byte)
        BY <2>1 DEF HubInv, HubTyped
      <4>2. Appended(rest) \in LineKept /\ Len(Appended(rest).text) <= MaxContent
        BY <4>1, AppendedTyped DEF HubInv
      <4>. QED BY <2>1, <4>1, <4>2 DEF LineKept
    <3>. QED BY <1>2, <2>1, <3>1 DEF WriteStep, HubInv, HubTyped, QueueFits
  <2>2. ASSUME NEW i \in DOMAIN rest, Emit(Appended(SubSeq(rest, 1, i - 1))), rest' = SubSeq(rest, i + 1, Len(rest))
        PROVE  /\ HubInv' /\ UNCHANGED <<joinedAt, got>>
               /\ UNCHANGED lines \/ \E line \in LineKept : lines' = Append(lines, line)
    <3>1. rest \in Seq(Byte) /\ i \in 1..Len(rest)
      BY DEF HubInv, HubTyped
    <3>2. SubSeq(rest, 1, i - 1) \in Seq(Byte) /\ SubSeq(rest, i + 1, Len(rest)) \in Seq(Byte)
      BY <3>1
    <3>3. Appended(SubSeq(rest, 1, i - 1)) \in LineKept
      BY <3>2, AppendedTyped DEF HubInv
    <3>4. UNCHANGED <<joinedAt, got>>
      BY <1>2 DEF WriteStep
    <3>. QED BY <2>2, <3>2, <3>3, <3>4, EmitKeeps
  <2>. QED BY <1>2, <2>1, <2>2 DEF WriteStep
<1>3. CASE CloseWriter
  <2>1. [text |-> buf, truncated |-> cut] \in LineKept /\ rest' \in Seq(Byte)
    BY <1>3 DEF CloseWriter, HubInv, HubTyped, LineKept
  <2>. QED BY <1>3, <2>1, EmitKeeps DEF CloseWriter
<1>. QED BY <1>1, <1>2, <1>3

LEMMA SubscribeKeeps ==
  ASSUME HubInv, NEW r \in Reader, Subscribe(r)
  PROVE  HubInv' /\ Tails!Join(r)
<1>1. /\ lines' = lines /\ kept' = kept /\ got' = got /\ UNCHANGED writerVars
      /\ Len(lines) \in Nat /\ kept \in 0..Len(lines)
      /\ joinedAt' = [joinedAt EXCEPT ![r] = Len(lines)] /\ ends' = [ends EXCEPT ![r] = "open"] /\ joinedAt[r] = -1
  BY DEF Subscribe, HubInv, HubTyped
<1>2. PICK tail \in 0..Len(lines) :
        /\ queue' = [queue EXCEPT ![r] = [i \in 1..tail |-> Len(lines) - tail + i]]
  <2>1. PICK tail \in (IF kept = 0 THEN {0} ELSE 1..kept) :
          queue' = [queue EXCEPT ![r] = [i \in 1..tail |-> Len(lines) - tail + i]]
    BY DEF Subscribe
  <2>2. tail \in 0..Len(lines)
    BY <1>1, <2>1
  <2>. QED BY <2>1, <2>2
<1>. DEFINE history == [i \in 1..tail |-> Len(lines) - tail + i]
<1>3. history \in Seq(Nat) /\ Fits(history, <<>>, Len(lines), "open", Len(lines))
  BY <1>1, FitsJoined
<1>. HIDE DEF history
<1>4. /\ queue' = [queue EXCEPT ![r] = history]
      /\ queue'[r] = history /\ joinedAt'[r] = Len(lines) /\ ends'[r] = "open"
      /\ \A s \in Reader \ {r} : queue'[s] = queue[s] /\ joinedAt'[s] = joinedAt[s] /\ ends'[s] = ends[s]
  BY <1>1, <1>2 DEF HubInv, HubTyped, history
<1>5. HubTyped'
  <2>1. queue' \in [Reader -> Seq(Nat)]
    BY <1>3, <1>4 DEF HubInv, HubTyped
  <2>2. joinedAt' \in [Reader -> Int] /\ ends' \in [Reader -> {"none", "open", "closed"}]
    BY <1>1 DEF HubInv, HubTyped
  <2>. QED BY <1>1, <2>1, <2>2 DEF HubInv, HubTyped, writerVars
<1>6. QueueFits(r)'
  <2>1. got[r] = <<>>
    <3>1. got[r] \in Seq(Nat) /\ Len(got[r]) = 0
      BY <1>1 DEF HubInv, HubTyped, QueueFits, Fits
    <3>. QED BY <3>1
  <2>. QED BY <1>1, <1>3, <1>4, <2>1 DEF QueueFits
<1>7. ASSUME NEW s \in Reader \ {r} PROVE QueueFits(s)'
  BY <1>1, <1>4 DEF HubInv, QueueFits
<1>8. Len(ReaderLog) = Len(lines) /\ ReaderLog' = ReaderLog
  BY <1>1 DEF ReaderLog, HubInv, HubTyped
<1>9. Tails!Join(r)
  BY <1>1, <1>8 DEF Tails!Join, ReaderLog
<1>. QED BY <1>5, <1>6, <1>7, <1>9 DEF HubInv

LEMMA ReceiveKeeps ==
  ASSUME HubInv, NEW r \in Reader, Receive(r)
  PROVE  HubInv' /\ \E n \in 1..Len(ReaderLog) : Tails!Receive(r, n)
<1>. DEFINE n == Head(queue[r])
<1>1. /\ queue[r] \in Seq(Nat) /\ got[r] \in Seq(Nat) /\ Len(queue[r]) > 0 /\ QueueFits(r) /\ joinedAt[r] \in Int
      /\ lines' = lines /\ ends' = ends /\ joinedAt' = joinedAt /\ kept' = kept /\ UNCHANGED writerVars
      /\ Len(lines) \in Nat /\ Len(ReaderLog) = Len(lines)
  BY DEF Receive, HubInv, HubTyped, ReaderLog
<1>2. /\ n \in 1..Len(lines) /\ Tail(queue[r]) \in Seq(Nat) /\ Append(got[r], n) \in Seq(Nat) /\ joinedAt[r] # -1
      /\ Fits(Tail(queue[r]), Append(got[r], n), joinedAt[r], ends[r], Len(lines))
      /\ Len(got[r]) > 0 => n = got[r][Len(got[r])] + 1
      /\ Len(got[r]) = 0 => n <= joinedAt[r] + 1
  BY <1>1, FitsReceived DEF QueueFits
<1>3. /\ got' = [got EXCEPT ![r] = Append(got[r], n)] /\ queue' = [queue EXCEPT ![r] = Tail(queue[r])]
      /\ got'[r] = Append(got[r], n) /\ queue'[r] = Tail(queue[r])
      /\ \A s \in Reader \ {r} : got'[s] = got[s] /\ queue'[s] = queue[s]
  BY DEF Receive, HubInv, HubTyped
<1>. HIDE DEF n
<1>4. HubTyped'
  <2>1. got' \in [Reader -> Seq(Nat)] /\ queue' \in [Reader -> Seq(Nat)]
    BY <1>2, <1>3 DEF HubInv, HubTyped
  <2>. QED BY <1>1, <2>1 DEF HubInv, HubTyped, writerVars
<1>5. QueueFits(r)'
  BY <1>1, <1>2, <1>3 DEF QueueFits
<1>6. ASSUME NEW s \in Reader \ {r} PROVE QueueFits(s)'
  BY <1>1, <1>3 DEF HubInv, QueueFits
<1>7. Tails!Receive(r, n)
  <2>1. CASE Len(got[r]) > 0
    <3>1. Tails!Position(r) = n - 1
      BY <1>1, <1>2, <2>1 DEF Tails!Position
    <3>2. \A k \in (Tails!Position(r) + 1)..(n - 1) : FALSE
      BY <1>1, <1>2, <3>1
    <3>3. n > Tails!Position(r)
      BY <1>1, <1>2, <3>1
    <3>. QED BY <1>1, <1>2, <1>3, <3>2, <3>3 DEF Tails!Receive
  <2>2. CASE Len(got[r]) = 0
    <3>1. Tails!Position(r) = 0 /\ got[r] = <<>>
      BY <1>1, <2>2 DEF Tails!Position
    <3>2. n > Tails!Position(r) /\ \A k \in (Tails!Position(r) + 1)..(n - 1) : k <= joinedAt[r]
      BY <1>1, <1>2, <2>2, <3>1
    <3>. QED BY <1>1, <1>2, <1>3, <3>1, <3>2 DEF Tails!Receive
  <2>. QED BY <1>1, <2>1, <2>2
<1>. QED BY <1>1, <1>2, <1>4, <1>5, <1>6, <1>7 DEF HubInv

LEMMA LeavingKeeps ==
  ASSUME HubInv, CloseHub \/ \E r \in Reader : Cancel(r)
  PROVE  HubInv' /\ UNCHANGED <<lines, joinedAt, got>>
<1>1. CASE CloseHub
  <2>1. /\ ends' \in [Reader -> {"none", "open", "closed"}]
        /\ \A r \in Reader : ends'[r] # "open" /\ (ends'[r] = "none" <=> ends[r] = "none")
    BY <1>1 DEF CloseHub, HubInv, HubTyped, Open
  <2>2. UNCHANGED <<lines, queue, joinedAt, got, buf, rest, cut>> /\ kept' = 0
    BY <1>1 DEF CloseHub, writerVars
  <2>3. ASSUME NEW r \in Reader PROVE QueueFits(r)'
    <3>1. /\ queue[r] \in Seq(Nat) /\ got[r] \in Seq(Nat) /\ joinedAt[r] \in Int /\ Len(lines) \in Nat
          /\ QueueFits(r) /\ ends'[r] # "open" /\ (joinedAt[r] = -1 => ends'[r] = "none")
      BY <2>1 DEF HubInv, HubTyped, QueueFits, Fits
    <3>2. Fits(queue[r], got[r], joinedAt[r], ends'[r], Len(lines))
      <4>1. Fits(queue[r], got[r], joinedAt[r], ends[r], Len(lines)) /\ Len(lines) >= Len(lines)
        BY <3>1 DEF QueueFits
      <4>. QED BY <3>1, <4>1, FitsLeft
    <3>. QED BY <2>2, <3>2 DEF QueueFits
  <2>. QED BY <2>1, <2>2, <2>3 DEF HubInv, HubTyped
<1>2. ASSUME NEW r \in Reader, Cancel(r) PROVE HubInv' /\ UNCHANGED <<lines, joinedAt, got>>
  <2>1. /\ UNCHANGED <<lines, kept, joinedAt, got, buf, rest, cut>>
        /\ ends' = [ends EXCEPT ![r] = "closed"] /\ queue' = [queue EXCEPT ![r] = <<>>] /\ ends[r] # "none"
        /\ queue \in [Reader -> Seq(Nat)] /\ ends \in [Reader -> {"none", "open", "closed"}]
    BY <1>2 DEF Cancel, writerVars, HubInv, HubTyped
  <2>2. ends' \in [Reader -> {"none", "open", "closed"}] /\ queue' \in [Reader -> Seq(Nat)]
    <3>1. <<>> \in Seq(Nat)
      OBVIOUS
    <3>. QED BY <2>1, <3>1
  <2>3. ASSUME NEW s \in Reader PROVE QueueFits(s)'
    <3>1. CASE s = r
      <4>1. queue'[r] = <<>> /\ ends'[r] = "closed" /\ Len(<<>>) = 0
        BY <2>1
      <4>2. joinedAt[r] # -1
        BY <2>1 DEF HubInv, QueueFits, Fits
      <4>. QED BY <2>1, <3>1, <4>1, <4>2 DEF QueueFits, Fits, Follows
    <3>2. CASE s # r
      BY <2>1, <3>2 DEF HubInv, QueueFits
    <3>. QED BY <3>1, <3>2
  <2>. QED BY <2>1, <2>2, <2>3 DEF HubInv, HubTyped
<1>. QED BY <1>1, <1>2

\* loghub.Hub, with its bounded queues, its eviction of slow readers, its history and its
\* end: to each reader it is the log that RunLog describes (Push, Subscribe, Close).
THEOREM HubIsALog == HubSpec => TailSpec
<1>1. HubInit => Tails!Init
  BY DEF HubInit, Tails!Init
<1>2. HubInv /\ UNCHANGED hubVars => HubInv' /\ UNCHANGED Tails!logVars
  BY DEF hubVars, writerVars, readerVars, HubInv, HubTyped, QueueFits, Tails!logVars
<1>3. ASSUME HubInv, HubNext PROVE HubInv' /\ [Tails!Next]_Tails!logVars
  <2>1. lines' = lines => ReaderLog' = ReaderLog
    BY DEF ReaderLog
  <2>2. ASSUME UNCHANGED <<lines, joinedAt, got>> PROVE [Tails!Next]_Tails!logVars
    <3>1. [i \in DOMAIN lines |-> 1]' = [i \in DOMAIN lines |-> 1]
      BY <2>2
    <3>. QED BY <2>2, <3>1 DEF Tails!logVars
  <2>3. ASSUME NEW line \in LineKept, lines' = Append(lines, line), UNCHANGED <<joinedAt, got>>
        PROVE  Tails!Next
    <3>1. ReaderLog' = Append(ReaderLog, 1)
      BY <1>3, <2>3 DEF ReaderLog, HubInv, HubTyped
    <3>. QED BY <2>3, <3>1 DEF Tails!Next, Tails!Write, ReaderLog
  <2>4. CASE (\E chunk \in SeqOf(Byte, 2) : Write(chunk)) \/ WriteStep \/ CloseWriter
    BY <1>3, <2>2, <2>3, <2>4, WriterKeeps
  <2>5. CASE CloseHub \/ \E r \in Reader : Cancel(r)
    BY <1>3, <2>2, <2>5, LeavingKeeps
  <2>6. ASSUME NEW r \in Reader, Subscribe(r) PROVE HubInv' /\ Tails!Next
    BY <1>3, <2>6, SubscribeKeeps DEF Tails!Next
  <2>7. ASSUME NEW r \in Reader, Receive(r) PROVE HubInv' /\ Tails!Next
    BY <1>3, <2>7, ReceiveKeeps DEF Tails!Next, ReaderLog
  <2>. QED BY <1>3, <2>4, <2>5, <2>6, <2>7 DEF HubNext
<1>. QED BY HubBegins, <1>1, <1>2, <1>3, PTL DEF HubSpec, TailSpec, Tails!Spec
=============================================================================
