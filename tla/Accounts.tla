------------------------------- MODULE Accounts -------------------------------
(***************************************************************************)
(* Accounts, server-side sessions, the audit trail and the rate limiter    *)
(* (backend/app/auth, backend/app/api/auth.py) with the browsers that use  *)
(* them (frontend AuthContext).                                            *)
(*                                                                         *)
(* A handler runs in one piece: the database driver blocks the event loop. *)
(* The bootstrap command is another process of the same database, so its   *)
(* commit may fall between two statements of a registration and the other  *)
(* way round; an answer may be lost after its transaction is committed.    *)
(***************************************************************************)
EXTENDS Integers, Sequences, FiniteSets, Bags

CONSTANTS
    Names, Mails,      \* what a user can be registered with
    Browsers,          \* each with an address of its own
    LoginLimit,        \* login_requests_per_minute
    RequestLimit,      \* requests_per_minute
    Minute,            \* the limiter's window, in ticks
    SessionLength,     \* access_token_expire_minutes, in ticks
    MaxClock           \* bound: ticks

Roles == {"admin", "operator", "viewer"}
NoOne == "no one"

VARIABLES
    accounts,      \* table users, by username
    sessions,      \* table auth_sessions; the id is the position
    trail,         \* table audit_events, a bag
    pending,       \* the user a writer has checked and not yet inserted
    cookie, shown, \* of each browser: its session cookie (0: none), the user it shows
    history,       \* RateLimiter.request_history, by browser: requests [at, kind, nth]
    admitted,      \* all requests let through, by browser
    clock

accountVars == <<accounts, sessions, trail, pending, cookie, shown, history, admitted, clock>>

ASSUME AccountsAssumption ==
    /\ SessionLength \in Int
    /\ LoginLimit \in Nat /\ RequestLimit \in Nat /\ Minute \in Nat /\ MaxClock \in Nat

Event(kind, target) == [event |-> kind, target |-> target]
Recorded(e) == trail' = trail (+) SetToBag({e})

-----------------------------------------------------------------------------
(* The rate limiter                                                        *)

\* Mutant: what is older than the window goes on counting for one tick less.
RecentTooShort(b) == {r \in history[b] : r.at > clock - Minute + 1}

Recent(b) == {r \in history[b] : r.at > clock - Minute}

Counted(b, kind) ==
    IF kind = "login" THEN Cardinality({r \in Recent(b) : r.kind = "login"})
                      ELSE Cardinality(Recent(b))

Limit(kind) == IF kind = "login" THEN LoginLimit ELSE RequestLimit

\* The list of an address holds two requests of one kind and tick as two: the
\* requests are told apart by their number.
Request(b, kind) ==
    [at |-> clock, kind |-> kind,
     nth |-> Cardinality({r \in admitted[b] : r.at = clock /\ r.kind = kind}) + 1]

\* A request that is refused leaves no entry behind.
Admits(b, kind) ==
    /\ pending["api"] = {}
    /\ Counted(b, kind) < Limit(kind)
    /\ history' = [history EXCEPT ![b] = Recent(b) \cup {Request(b, kind)}]
    /\ admitted' = [admitted EXCEPT ![b] = @ \cup {Request(b, kind)}]
    /\ UNCHANGED clock

-----------------------------------------------------------------------------
(* Sessions                                                                *)

\* get_current_user: the session of the cookie, if it counts.
Live(s) ==
    /\ s # 0
    /\ ~sessions[s].revoked /\ sessions[s].until > clock
    /\ sessions[s].user \in DOMAIN accounts
    /\ accounts[sessions[s].user].active

\* require_role.
MayAct(b, roles) == Live(cookie[b]) /\ accounts[sessions[cookie[b]].user].role \in roles

LoginFails(b, n) ==
    /\ Admits(b, "login")
    /\ Recorded(Event("login refused", n))
    /\ UNCHANGED <<accounts, sessions, pending, cookie, shown>>

\* With the right password, an account that is active; whether the browser
\* gets the answer is another matter.
Login(b, n, answered) ==
    /\ Admits(b, "login")
    /\ n \in DOMAIN accounts /\ accounts[n].active
    /\ sessions' = Append(sessions, [user |-> n, until |-> clock + SessionLength, revoked |-> FALSE])
    /\ Recorded(Event("login", Len(sessions')))
    /\ cookie' = IF answered THEN [cookie EXCEPT ![b] = Len(sessions')] ELSE cookie
    /\ shown' = IF answered THEN [shown EXCEPT ![b] = n] ELSE shown
    /\ UNCHANGED <<accounts, pending>>

\* Logout; without a live session it is refused and the browser keeps its user.
Logout(b, answered) ==
    /\ Admits(b, "other")
    /\ Live(cookie[b])
    /\ sessions' = [sessions EXCEPT ![cookie[b]].revoked = TRUE]
    /\ Recorded(Event("logout", cookie[b]))
    /\ cookie' = IF answered THEN [cookie EXCEPT ![b] = 0] ELSE cookie
    /\ shown' = IF answered THEN [shown EXCEPT ![b] = NoOne] ELSE shown
    /\ UNCHANGED <<accounts, pending>>

\* A page is loaded and asks /auth/me who it is.
LoadPage(b, answered) ==
    /\ Admits(b, "other")
    /\ shown' = [shown EXCEPT ![b] = IF answered /\ Live(cookie[b])
                                     THEN sessions[cookie[b]].user ELSE NoOne]
    /\ UNCHANGED <<accounts, sessions, trail, pending, cookie>>

-----------------------------------------------------------------------------
(* Registration, by an administrator or by the bootstrap command           *)

Taken(n, m) == \E u \in DOMAIN accounts : u = n \/ accounts[u].mail = m

Checked(writer, n, m, r) ==
    /\ ~Taken(n, m)
    /\ pending' = [pending EXCEPT ![writer] = {[name |-> n, mail |-> m, role |-> r]}]
    /\ UNCHANGED <<accounts, sessions, trail, cookie, shown>>

Register(b, n, m, r) ==
    /\ Admits(b, "other")
    /\ MayAct(b, {"admin"})
    /\ Checked("api", n, m, r)

Bootstrap(n, m) ==
    /\ pending["bootstrap"] = {}
    /\ Checked("bootstrap", n, m, "admin")
    /\ UNCHANGED <<history, admitted, clock>>

WithAccount(p) ==
    [n \in DOMAIN accounts \cup {p.name} |->
        IF n = p.name THEN [mail |-> p.mail, role |-> p.role, active |-> TRUE] ELSE accounts[n]]

\* Mutant: nothing but the check keeps names apart.
InsertUnchecked(writer) ==
    /\ pending' = [pending EXCEPT ![writer] = {}]
    /\ \E p \in pending[writer] :
       /\ accounts' = WithAccount(p)
       /\ Recorded(Event("created", p.name))
    /\ UNCHANGED <<sessions, cookie, shown, history, admitted, clock>>

\* flush, audit, commit; the unique constraints turn the loser back.
Insert(writer) ==
    /\ pending' = [pending EXCEPT ![writer] = {}]
    /\ \E p \in pending[writer] :
       \/ /\ ~Taken(p.name, p.mail)
          /\ accounts' = WithAccount(p)
          /\ Recorded(Event("created", p.name))
       \/ Taken(p.name, p.mail) /\ UNCHANGED <<accounts, trail>>
    /\ UNCHANGED <<sessions, cookie, shown, history, admitted, clock>>

\* No program does this: an administrator of the database.
Deactivate(n) ==
    /\ n \in DOMAIN accounts
    /\ accounts' = [accounts EXCEPT ![n].active = FALSE]
    /\ UNCHANGED <<sessions, trail, pending, cookie, shown, history, admitted, clock>>

ClockTicks ==
    /\ clock < MaxClock
    /\ clock' = clock + 1
    /\ UNCHANGED <<accounts, sessions, trail, pending, cookie, shown, history, admitted>>

-----------------------------------------------------------------------------
AccountsInit ==
    /\ accounts = <<>> /\ sessions = <<>> /\ trail = EmptyBag
    /\ pending = [w \in {"api", "bootstrap"} |-> {}]
    /\ cookie = [b \in Browsers |-> 0] /\ shown = [b \in Browsers |-> NoOne]
    /\ history = [b \in Browsers |-> {}]
    /\ admitted = [b \in Browsers |-> {}]
    /\ clock = 0

AccountsNext ==
    \/ \E b \in Browsers, n \in Names :
         \/ LoginFails(b, n)
         \/ \E answered \in BOOLEAN : Login(b, n, answered)
         \/ \E m \in Mails, r \in Roles \ {"operator"} : Register(b, n, m, r)
    \/ \E b \in Browsers, answered \in BOOLEAN : Logout(b, answered) \/ LoadPage(b, answered)
    \/ \E n \in Names, m \in Mails : Bootstrap(n, m)
    \/ \E w \in {"api", "bootstrap"} : Insert(w)
    \/ \E n \in Names : Deactivate(n)
    \/ ClockTicks

AccountsSpec == AccountsInit /\ [][AccountsNext]_accountVars

-----------------------------------------------------------------------------
(* Properties                                                              *)

Recordings(e) == IF BagIn(e, trail) THEN trail[e] ELSE 0

\* Every account, every session and every revocation was committed with its
\* audit event, exactly once, whoever else was writing and whatever answer
\* got lost (auth.py register, login, logout; bootstrap.py create_admin).
AuditIsComplete ==
    /\ \A u \in Names :
         Recordings(Event("created", u)) = IF u \in DOMAIN accounts THEN 1 ELSE 0
    /\ \A s \in 1..Len(sessions) :
         /\ Recordings(Event("login", s)) = 1
         /\ Recordings(Event("logout", s)) = IF sessions[s].revoked THEN 1 ELSE 0

\* Whichever minute one looks at, no address got more logins through than the
\* login limit, nor more requests than both limits together: logins count
\* against the general limit and not the other way round (rate_limiter.py).
LimitsHold ==
    \A b \in Browsers, t \in 0..MaxClock :
        LET Within == {r \in admitted[b] : r.at > t - Minute /\ r.at <= t}
        IN  /\ Cardinality({r \in Within : r.kind = "login"}) <= LoginLimit
            /\ Cardinality(Within) <= LoginLimit + RequestLimit
=============================================================================
