-------------------------------- MODULE Auth --------------------------------
(***************************************************************************)
(* The Learner's row, the password and the sessions: server starts         *)
(* (cmd/server, config, auth/bootstrap.go), password rotation              *)
(* (cmd/setpassword), login, logout and requireAuth (internal/http,        *)
(* auth/session.go), as processes that share a database and browsers.      *)
(*                                                                         *)
(* A bcrypt hash is the password it is made from, a signature the secret   *)
(* it is made with.  bcrypt hashes no password of more than 72 bytes, and  *)
(* tells passwords apart by as many.  The clock counts ticks, a part of a  *)
(* second: a cookie holds its expiry in whole seconds.                     *)
(***************************************************************************)
EXTENDS Integers

CONSTANTS
  Servers,       \* server processes on the database
  Clis,          \* setpassword processes
  Browsers,
  Passwords,     \* what is typed or set; not empty
  Hashable,      \* those that bcrypt takes
  NoPassword,    \* the empty string
  Trimmed,       \* what strings.TrimSpace leaves of a password
  Secrets,
  NoSecret,      \* a JKRT_SESSION_SECRET that is missing or under 32 bytes
  Settings,      \* environments: [auth, password, secret, ttl], ttl in ticks
  Random,        \* the placeholder password nobody knows
  NoUser,
  Second,        \* ticks in a second
  MaxClock,      \* bound: the last instant
  MaxStops       \* bound: crashes and shutdowns

ASSUME AuthAssumption ==
  /\ Hashable \subseteq Passwords
  /\ NoPassword \notin Passwords /\ NoSecret \notin Secrets
  /\ Random \notin Passwords /\ NoUser \notin Passwords /\ NoUser # Random
  /\ Trimmed \in [Passwords -> Passwords \cup {NoPassword}]
  /\ Settings \subseteq [auth : BOOLEAN, password : Passwords \cup {NoPassword},
                         secret : Secrets \cup {NoSecret}, ttl : Int]
  /\ Second \in Nat \ {0} /\ MaxClock \in Nat /\ MaxStops \in Nat

VARIABLES
  clock,         \* time.Now
  user,          \* the password_hash of users.id = 1, or NoUser
  server,        \* what each server process is doing, and its environment
  stops,
  cli,           \* what each setpassword process is doing
  login,         \* the POST /login of a browser that has passed the password check
  cookie         \* the jkrt_session each browser holds; issued and ttl say when
                 \* and for how long, which the cookie itself does not

vars == <<clock, user, server, stops, cli, login, cookie>>

Down == [pc |-> "down"]
CliIdle == [pc |-> "idle"]
NoLogin == [pc |-> "none"]
NoCookie == [exp |-> -1]

Cookies == [exp : Int, secret : Secrets, issued : Nat, ttl : Nat]

TypeOK ==
  /\ clock \in 0 .. MaxClock /\ stops \in 0 .. MaxStops
  /\ user \in Hashable \cup {Random, NoUser}
  /\ server \in [Servers -> {Down} \cup [pc : {"boot", "create", "up"}, env : Settings]]
  /\ cli \in [Clis -> {CliIdle, [pc |-> "read"]} \cup [pc : {"write"}, password : Hashable]]
  /\ login \in [Browsers -> {NoLogin} \cup [at : Servers]]
  /\ cookie \in [Browsers -> {NoCookie} \cup Cookies]

IsUp(s) == server[s].pc = "up"
WithAuth(s) == IsUp(s) /\ server[s].env.auth

-----------------------------------------------------------------------------
(* Sessions. *)

\* exp.Unix() of Issue: the part of a second is cut off.
Expiry(now, ttl) == (now + ttl) \div Second

\* MUTANT: a cookie is still good at its expiry.
ParsesAtExpiry(c, secret, now) == c.secret = secret /\ now <= c.exp * Second

\* Parse: signed with this secret, and now is before the expiry.
Parses(c, secret, now) == c.secret = secret /\ now < c.exp * Second

\* sessionOK, and requireAuth on a protected route.
SessionOK(s, b) ==
  /\ WithAuth(s)
  /\ cookie[b] # NoCookie
  /\ Parses(cookie[b], server[s].env.secret, clock)
Admitted(s, b) == IsUp(s) /\ (WithAuth(s) => SessionOK(s, b))

-----------------------------------------------------------------------------
(* The start of a server. *)

\* config.Load accepts the environment.
Loads(env) == env.ttl > 0 /\ (env.auth => env.secret # NoSecret)

Start(s, env) ==
  /\ server[s] = Down
  /\ Loads(env)
  /\ server' = [server EXCEPT ![s] = [pc |-> "boot", env |-> env]]
  /\ UNCHANGED <<clock, user, stops, cli, login, cookie>>

\* A first start with auth on needs a password, and one that can be hashed.
Refused(env) == env.auth /\ env.password \notin Hashable

\* MUTANT: the placeholder row is not made when auth is off.
BootAuthOnly(s) ==
  /\ server[s].pc = "boot"
  /\ server' = [server EXCEPT ![s] =
       IF user # NoUser \/ ~server[s].env.auth THEN [@ EXCEPT !.pc = "up"]
       ELSE IF Refused(server[s].env) THEN Down
       ELSE [@ EXCEPT !.pc = "create"]]
  /\ UNCHANGED <<clock, user, stops, cli, login, cookie>>

\* MUTANT: the row is inserted whether it is there or not.
BootBlindly(s) ==
  /\ server[s].pc = "boot"
  /\ server' = [server EXCEPT ![s] =
       IF Refused(server[s].env) THEN Down
       ELSE [@ EXCEPT !.pc = "create"]]
  /\ UNCHANGED <<clock, user, stops, cli, login, cookie>>

\* HasUser, in Bootstrap with auth on and in EnsureLearnerRow with auth off:
\* without a row, auth on hashes its password and auth off makes one up.
Boot(s) ==
  /\ server[s].pc = "boot"
  /\ server' = [server EXCEPT ![s] =
       IF user # NoUser THEN [@ EXCEPT !.pc = "up"]
       ELSE IF Refused(server[s].env) THEN Down
       ELSE [@ EXCEPT !.pc = "create"]]
  /\ UNCHANGED <<clock, user, stops, cli, login, cookie>>

FirstPassword(env) == IF env.auth THEN env.password ELSE Random

\* MUTANT: the insert replaces a row that is there.
CreateReplaces(s) ==
  /\ server[s].pc = "create"
  /\ user' = FirstPassword(server[s].env)
  /\ server' = [server EXCEPT ![s].pc = "up"]
  /\ UNCHANGED <<clock, stops, cli, login, cookie>>

\* CreateUser1: the insert is refused, and with it the start, when another
\* process has made the row since HasUser.
CreateUser1(s) ==
  /\ server[s].pc = "create"
  /\ IF user = NoUser
     THEN /\ user' = FirstPassword(server[s].env)
          /\ server' = [server EXCEPT ![s].pc = "up"]
     ELSE /\ server' = [server EXCEPT ![s] = Down]
          /\ UNCHANGED user
  /\ UNCHANGED <<clock, stops, cli, login, cookie>>

\* A crash, a shutdown or a failure on the way up takes the server's requests along.
Stop(s) ==
  /\ server[s] # Down /\ stops < MaxStops
  /\ stops' = stops + 1
  /\ server' = [server EXCEPT ![s] = Down]
  /\ login' = [b \in Browsers |-> IF login[b] = [at |-> s] THEN NoLogin ELSE login[b]]
  /\ UNCHANGED <<clock, user, cli, cookie>>

-----------------------------------------------------------------------------
(* cmd/setpassword. *)

\* run, up to HasUser: without a row it gives up.
SetPassword(c) ==
  /\ cli[c] = CliIdle
  /\ user # NoUser
  /\ cli' = [cli EXCEPT ![c] = [pc |-> "read"]]
  /\ UNCHANGED <<clock, user, server, stops, login, cookie>>

\* readPassword: an argument or two equal lines of a terminal as they are, a
\* piped line trimmed; then HashPassword.
ReadPassword(c, piped, input) ==
  /\ cli[c].pc = "read"
  /\ LET p == IF piped THEN Trimmed[input] ELSE input
     IN cli' = [cli EXCEPT ![c] = IF p \in Hashable THEN [pc |-> "write", password |-> p]
                                  ELSE CliIdle]
  /\ UNCHANGED <<clock, user, server, stops, login, cookie>>

\* Unequal lines, a failed query, an interrupt.
SetPasswordFails(c) ==
  /\ cli[c] # CliIdle
  /\ cli' = [cli EXCEPT ![c] = CliIdle]
  /\ UNCHANGED <<clock, user, server, stops, login, cookie>>

\* UpdatePasswordHash: no row is an error.
UpdatePasswordHash(c) ==
  /\ cli[c].pc = "write"
  /\ user' = IF user = NoUser THEN NoUser ELSE cli[c].password
  /\ cli' = [cli EXCEPT ![c] = CliIdle]
  /\ UNCHANGED <<clock, server, stops, login, cookie>>

-----------------------------------------------------------------------------
(* Browsers. *)

\* handleLoginPost reads the hash and compares: a wrong password is a 401.
CheckPassword(s, b, p) ==
  /\ WithAuth(s) /\ login[b] = NoLogin
  /\ user = p
  /\ login' = [login EXCEPT ![b] = [at |-> s]]
  /\ UNCHANGED <<clock, user, server, stops, cli, cookie>>

\* Issue, with a now of its own: the browser replaces its cookie.
Issue(b) ==
  /\ login[b] # NoLogin
  /\ LET env == server[login[b].at].env
     IN cookie' = [cookie EXCEPT ![b] = [exp |-> Expiry(clock, env.ttl), secret |-> env.secret,
                                         issued |-> clock, ttl |-> env.ttl]]
  /\ login' = [login EXCEPT ![b] = NoLogin]
  /\ UNCHANGED <<clock, user, server, stops, cli>>

\* handleLogout, behind requireAuth: the answer clears this browser's cookie.
Logout(s, b) ==
  /\ Admitted(s, b)
  /\ cookie' = [cookie EXCEPT ![b] = NoCookie]
  /\ UNCHANGED <<clock, user, server, stops, cli, login>>

\* The answer to a login is lost, or the browser drops its cookie (Max-Age,
\* Expires, the Learner).
LoseLogin(b) ==
  /\ login[b] # NoLogin
  /\ login' = [login EXCEPT ![b] = NoLogin]
  /\ UNCHANGED <<clock, user, server, stops, cli, cookie>>
DropCookie(b) ==
  /\ cookie' = [cookie EXCEPT ![b] = NoCookie]
  /\ UNCHANGED <<clock, user, server, stops, cli, login>>

Tick == /\ clock < MaxClock
        /\ clock' = clock + 1
        /\ UNCHANGED <<user, server, stops, cli, login, cookie>>

-----------------------------------------------------------------------------
Init ==
  /\ clock = 0 /\ user = NoUser /\ stops = 0
  /\ server = [s \in Servers |-> Down]
  /\ cli = [c \in Clis |-> CliIdle]
  /\ login = [b \in Browsers |-> NoLogin]
  /\ cookie = [b \in Browsers |-> NoCookie]

ServerStep(s) == Boot(s) \/ CreateUser1(s)

CliStep(c) ==
  \/ SetPassword(c)
  \/ \E piped \in BOOLEAN, input \in Passwords : ReadPassword(c, piped, input)
  \/ SetPasswordFails(c)
  \/ UpdatePasswordHash(c)

BrowserStep(b) ==
  \/ \E s \in Servers, p \in Passwords : CheckPassword(s, b, p)
  \/ Issue(b)
  \/ \E s \in Servers : Logout(s, b)
  \/ LoseLogin(b)
  \/ DropCookie(b)

Next ==
  \/ \E s \in Servers, env \in Settings : Start(s, env)
  \/ \E s \in Servers : ServerStep(s) \/ Stop(s)
  \/ \E c \in Clis : CliStep(c)
  \/ \E b \in Browsers : BrowserStep(b)
  \/ Tick

Spec == Init /\ [][Next]_vars

\* A process that has begun its start goes on with it; nothing makes anybody
\* start one.
FairSpec == Spec /\ \A s \in Servers : WF_vars(ServerStep(s))

-----------------------------------------------------------------------------
\* Whoever relies on users.id = 1 finds it: a server that answers requests, with
\* auth on or off (every card and review refers to the row), and setpassword
\* between its check and its update, whatever starts and crashes in between.
LearnerThere ==
  /\ \A s \in Servers : IsUp(s) => user # NoUser
  /\ \A c \in Clis : cli[c] # CliIdle => user # NoUser
  /\ \A b \in Browsers : login[b] # NoLogin => user # NoUser /\ WithAuth(login[b].at)

\* The invariant of the processes, and that no row has an empty password or one
\* that cannot be hashed (Bootstrap and setpassword refuse it).
AuthInv == TypeOK /\ LearnerThere

\* "Bootstrap does not change an existing password" (docs/auth-and-tunnel.md),
\* not even when two processes start at once with different settings: the first
\* insert decides the password, and from then on only setpassword changes it.  So
\* a database first started with auth off has a password nobody knows until then.
PasswordKept ==
  [][user' # user =>
       \/ /\ user = NoUser
          /\ \E s \in Servers : /\ server[s].pc = "create" /\ server'[s].pc = "up"
                                /\ user' = FirstPassword(server[s].env)
       \/ \E c \in Clis : /\ cli[c].pc = "write" /\ cli'[c] = CliIdle
                          /\ user' = cli[c].password]_vars

\* "Existing signed cookies stay valid until they expire or the Learner logs out;
\* change JKRT_SESSION_SECRET and restart to invalidate all sessions"
\* (bootstrap.go): whatever passwords, starts and crashes come in between, a held
\* cookie admits for its time to live, less the part of a second the expiry drops
\* and never longer, at every server with the secret it was issued under and at
\* no other.
SessionLivesItsTtl ==
  \A s \in Servers, b \in Browsers :
    WithAuth(s) /\ cookie[b] # NoCookie =>
      LET c == cookie[b]
          signed == c.secret = server[s].env.secret
      IN /\ Admitted(s, b) => signed /\ clock < c.issued + c.ttl
         /\ signed /\ clock + Second <= c.issued + c.ttl => Admitted(s, b)

\* A start loses at most to a start that made the row in between, so starting
\* again helps: only a server without what a first start needs, a password that
\* can be hashed, may be started over and over without coming up.
StartSettles == \A s \in Servers : <>[](server[s].pc = "boot" => Refused(server[s].env))
=============================================================================
