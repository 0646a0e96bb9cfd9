------------------------------- MODULE Accounts -------------------------------
(***************************************************************************)
(* The account and the cookies: the user in memory and in the runtime       *)
(* store, the requests that set it up and that log in, and the two holders  *)
(* of a key for cookies, the API and the handler of the pages.              *)
(*                                                                          *)
(* A password hash is the request that made it, and is the key that cookies *)
(* are signed with.  Expiry is left out.                                    *)
(***************************************************************************)
EXTENDS FiniteSets, Naturals

CONSTANTS Visitor,     \* requests to set up an account
          UserName,
          Nobody       \* no account, no key

VARIABLES
  account,   \* the user in memory
  users,     \* the rows of the table of users, at most one per name
  apiKey,    \* of the server's TokenService; Nobody is a random key
  pageKey,   \* of the one that the handler of the pages has
  setups,    \* how far each request is
  cookies,   \* those that were given out and may still be good
  contested, \* history: a set-up was let through that was not the only one
  unread     \* history: this process could not read the stored account

\* Neither a hash nor an account is Nobody.
ASSUME NobodyApart == Nobody \notin Visitor \cup [user : UserName, hash : Visitor]

accountVars == <<account, users, apiKey, pageKey, setups, cookies, contested, unread>>

Fresh == [stage |-> "new", user |-> Nobody, read |-> Nobody]
Account(v) == [user |-> setups[v].user, hash |-> v]

AccountInit ==
  /\ account = Nobody /\ users = {} /\ apiKey = Nobody /\ pageKey = Nobody
  /\ setups = [v \in Visitor |-> Fresh] /\ cookies = {}
  /\ contested = FALSE /\ unread = FALSE

\* A set-up found no user and is not done.
UnderWay(v) == setups[v].stage \notin {"new", "refused", "answered"}

At(v, from, to) == setups[v].stage = from /\ setups' = [setups EXCEPT ![v].stage = to]

\* handleSetup and Setup: both look whether there is a user, then the password
\* is hashed.
SetupChecks(v, name) ==
  /\ setups[v].stage = "new" /\ account = Nobody
  /\ setups' = [setups EXCEPT ![v] = [stage |-> "checked", user |-> name, read |-> Nobody]]
  /\ contested' = (contested \/ users # {} \/ \E w \in Visitor : UnderWay(w))
  /\ UNCHANGED <<account, users, apiKey, pageKey, cookies, unread>>

\* Faulty variant: the user is put in memory although it was not stored.
StoreFailsLate(v) == At(v, "checked", "stored") /\ UNCHANGED users

\* UpsertUser fails.
StoreFails(v) == At(v, "checked", "refused") /\ UNCHANGED users

\* UpsertUser: the row of that name is replaced.
StoreUser(v) ==
  /\ At(v, "checked", "stored")
  /\ users' = {u \in users : u.user # setups[v].user} \cup {Account(v)}

SetupStores(v) ==
  /\ StoreUser(v) \/ StoreFails(v)
  /\ UNCHANGED <<account, apiKey, pageKey, cookies, contested, unread>>

\* The user in memory.
SetupSetsUser(v) ==
  /\ At(v, "stored", "set") /\ account' = Account(v)
  /\ UNCHANGED <<users, apiKey, pageKey, cookies, contested, unread>>

\* The key is made anew, from the user that is in memory by now.
SetupReadsUser(v) ==
  /\ setups[v].stage = "set"
  /\ setups' = [setups EXCEPT ![v] = [stage |-> "read", user |-> setups[v].user, read |-> account.hash]]
  /\ UNCHANGED <<account, users, apiKey, pageKey, cookies, contested, unread>>

SetupSetsKey(v) ==
  /\ At(v, "read", "keyed") /\ apiKey' = setups[v].read
  /\ UNCHANGED <<account, users, pageKey, cookies, contested, unread>>

\* The answer logs in, with the key that the server has by now.
SetupAnswers(v) ==
  /\ At(v, "keyed", "answered")
  /\ cookies' = cookies \cup {[user |-> setups[v].user, key |-> apiKey]}
  /\ UNCHANGED <<account, users, apiKey, pageKey, contested, unread>>

\* handleCreateToken, with the right name and password.
LogIn ==
  /\ account # Nobody
  /\ cookies' = cookies \cup {[user |-> account.user, key |-> apiKey]}
  /\ UNCHANGED <<account, users, apiKey, pageKey, setups, contested, unread>>

\* GetUser, at the start: one of the rows.  That there is none is an error like
\* any other, and any error is taken for that.
ReadUser ==
  \/ account' \in users /\ unread' = FALSE
  \/ account' = Nobody /\ unread' = (users # {})

\* The process ends and starts again: the pages get the key that the API has at
\* that moment (main.go), and what a random key signed is good no more.
RestartServer ==
  /\ ReadUser
  /\ apiKey' = IF account' = Nobody THEN Nobody ELSE account'.hash
  /\ pageKey' = apiKey'
  /\ setups' = [v \in Visitor |-> IF UnderWay(v) THEN [setups[v] EXCEPT !.stage = "refused"]
                                  ELSE setups[v]]
  /\ cookies' = {cookie \in cookies : cookie.key # Nobody}
  /\ UNCHANGED <<users, contested>>

AccountNext ==
  \/ \E v \in Visitor, name \in UserName : SetupChecks(v, name)
  \/ \E v \in Visitor : \/ SetupStores(v) \/ SetupSetsUser(v) \/ SetupReadsUser(v)
                        \/ SetupSetsKey(v) \/ SetupAnswers(v)
  \/ LogIn
  \/ RestartServer

AccountSpec == AccountInit /\ [][AccountNext]_accountVars

\* authMiddleware and extractUser: what a cookie is to the API and to the pages.
LoggedIn(cookie) == cookie.key = apiKey
PageUser(cookie) == cookie.key = pageKey

-----------------------------------------------------------------------------
Key == Visitor \cup {Nobody}

AccountTypeOK ==
  /\ users \subseteq [user : UserName, hash : Visitor] /\ account \in [user : UserName, hash : Visitor] \cup {Nobody}
  /\ apiKey \in Key /\ pageKey \in Key
  /\ cookies \subseteq [user : UserName, key : Key]

\* Of the account that was set up nothing is lost, whenever the process starts
\* again or a step of the set-up fails: what was answered is stored, and it holds
\* and its cookies are good in each process that could read it, except those of a
\* login between the user and the key of a set-up.  Set-ups at once are let
\* through, and one in a process that could not read the account; they may take
\* each other's place.
AccountStays ==
  ~contested =>
    /\ account # Nobody => users = {account}
    /\ \A v \in Visitor : setups[v].stage = "answered" => users = {Account(v)}
    /\ (\A v \in Visitor : ~UnderWay(v)) =>
         /\ account # Nobody => apiKey = account.hash
         /\ ~unread =>
              /\ \A u \in users : account = u
              /\ \A cookie \in cookies : cookie.key # Nobody => LoggedIn(cookie)

\* static.go:84 sends to the login page who is not logged in.  Whom the API takes
\* for logged in is sent there too until the process starts again, as the pages
\* keep the random key from before the set-up; never for another reason.
PagesFollow ==
  \A cookie \in cookies : LoggedIn(cookie) /\ ~PageUser(cookie) => pageKey = Nobody

\* Of an account that was acknowledged, also after a restart.
AccountLasts == AccountTypeOK /\ AccountStays /\ PagesFollow
===============================================================================
