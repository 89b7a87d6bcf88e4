------------------------------ MODULE AuthProofs ------------------------------
(***************************************************************************)
(* Safety of the Learner's row, the password and the sessions, for any     *)
(* number of servers, setpassword processes and browsers and any settings. *)
(* The inductive invariant adds what the processes rely on: a started      *)
(* server has settings that config.Load accepts, one that is about to make *)
(* the row has a password for it that can be hashed, and a cookie's expiry *)
(* is the one Issue computed.                                              *)
(***************************************************************************)
EXTENDS Auth, TLAPS

EnvLoaded == \A s \in Servers : server[s] # Down => Loads(server[s].env)
PasswordReady ==
  \A s \in Servers : server[s].pc = "create" /\ server[s].env.auth
                       => server[s].env.password \in Hashable
ExpiryComputed ==
  \A b \in Browsers : cookie[b] # NoCookie
                        => cookie[b].exp = Expiry(cookie[b].issued, cookie[b].ttl)

IInv == AuthInv /\ EnvLoaded /\ PasswordReady /\ ExpiryComputed

Run == [pc : {"boot", "create", "up"}, env : Settings]
Reading == [pc |-> "read"]
Writing == [pc : {"write"}, password : Hashable]

-----------------------------------------------------------------------------
(* Lemmas about the operators. *)

LEMMA ServerKinds ==
  ASSUME NEW r \in {Down} \cup Run
  PROVE  /\ r.pc # "down" <=> r \in Run
         /\ r \in Run <=> r # Down
         /\ r.pc \in {"down", "boot", "create", "up"}
         /\ r \in Run => /\ r.env \in Settings
                         /\ \A pc \in {"boot", "create", "up"} : [r EXCEPT !.pc = pc] \in Run
BY DEF Down, Run

LEMMA CliKinds ==
  ASSUME NEW r \in {CliIdle, Reading} \cup Writing
  PROVE  /\ r.pc \in {"idle", "read", "write"}
         /\ r.pc = "idle" <=> r = CliIdle
         /\ r.pc = "write" <=> r \in Writing
BY DEF CliIdle, Reading, Writing

LEMMA LoginKinds ==
  ASSUME NEW s \in Servers
  PROVE  [at |-> s] # NoLogin
BY DEF NoLogin

\* The whole seconds up to an instant.
LEMMA WholeSeconds ==
  ASSUME NEW n \in Int
  PROVE  /\ n \div Second \in Int
         /\ (n \div Second) * Second <= n
         /\ n < (n \div Second) * Second + Second
BY AuthAssumption

LEMMA ExpiryType ==
  ASSUME NEW now \in Int, NEW ttl \in Int
  PROVE  /\ Expiry(now, ttl) \in Int
         /\ Expiry(now, ttl) * Second <= now + ttl
         /\ now + ttl < Expiry(now, ttl) * Second + Second
<1>1. now + ttl \in Int
  OBVIOUS
<1> QED BY <1>1, WholeSeconds DEF Expiry

\* TypeOK with names for the sets of records.
LEMMA Types ==
  TypeOK <=> /\ clock \in 0 .. MaxClock /\ stops \in 0 .. MaxStops
             /\ user \in Hashable \cup {Random, NoUser}
             /\ server \in [Servers -> {Down} \cup Run]
             /\ cli \in [Clis -> {CliIdle, Reading} \cup Writing]
             /\ login \in [Browsers -> {NoLogin} \cup [at : Servers]]
             /\ cookie \in [Browsers -> {NoCookie} \cup Cookies]
BY DEF TypeOK, Run, Reading, Writing

LEMMA SettingsType ==
  ASSUME NEW env \in Settings
  PROVE  /\ env.auth \in BOOLEAN /\ env.ttl \in Int
         /\ env.password \in Passwords \cup {NoPassword}
         /\ env.secret \in Secrets \cup {NoSecret}
BY AuthAssumption

-----------------------------------------------------------------------------
(* Steps of servers. *)

\* What a step of one server does to the invariant, when it leaves clocks,
\* setpassword, logins and cookies alone.
LEMMA ServerMoves ==
  ASSUME IInv, NEW s \in Servers, NEW r \in {Down} \cup Run,
         server' = [server EXCEPT ![s] = r],
         user' \in Hashable \cup {Random, NoUser}, user # NoUser => user' # NoUser,
         r # Down => Loads(r.env),
         r.pc = "create" /\ r.env.auth => r.env.password \in Hashable,
         r.pc = "up" => user' # NoUser,
         server[s].pc = "up" => \A b \in Browsers : login[b] # [at |-> s],
         UNCHANGED <<clock, stops, cli, login, cookie>>
  PROVE  IInv'
<1> USE DEF IInv, AuthInv
<1>1. TypeOK'
  BY DEF TypeOK, Run
<1>2. server' \in [Servers -> {Down} \cup Run] /\ server \in [Servers -> {Down} \cup Run]
      /\ server'[s] = r /\ \A v \in Servers \ {s} : server'[v] = server[v]
  BY Types
<1>3. LearnerThere'
  <2>1. ASSUME NEW v \in Servers, IsUp(v)' PROVE user' # NoUser
    BY <1>2, <2>1 DEF LearnerThere, IsUp
  <2>2. ASSUME NEW c \in Clis, cli'[c] # CliIdle PROVE user' # NoUser
    BY <2>2 DEF LearnerThere
  <2>3. ASSUME NEW b \in Browsers, login'[b] # NoLogin
        PROVE  user' # NoUser /\ WithAuth(login[b].at)'
    <3>1. user # NoUser /\ WithAuth(login[b].at)
      BY <2>3 DEF LearnerThere
    <3>2. login[b] \in [at : Servers]
      BY <2>3, Types
    <3>3. login[b].at # s
      BY <3>1, <3>2 DEF WithAuth, IsUp
    <3>4. server'[login[b].at] = server[login[b].at]
      BY <1>2, <3>2, <3>3
    <3> QED BY <3>1, <3>4 DEF WithAuth, IsUp
  <2> QED BY <2>1, <2>2, <2>3 DEF LearnerThere
<1>4. EnvLoaded'
  BY <1>2 DEF EnvLoaded
<1>5. PasswordReady'
  BY <1>2 DEF PasswordReady
<1>6. ExpiryComputed'
  BY DEF ExpiryComputed
<1> QED BY <1>1, <1>3, <1>4, <1>5, <1>6

LEMMA StartSafe ==
  ASSUME IInv, NEW s \in Servers, NEW env \in Settings, Start(s, env)
  PROVE  IInv'
<1> DEFINE r == [pc |-> "boot", env |-> env]
<1>1. r \in Run /\ r # Down
  BY DEF Run, Down
<1>2. user \in Hashable \cup {Random, NoUser}
  BY DEF IInv, AuthInv, TypeOK
<1>3. server[s].pc # "up"
  BY DEF Start, Down
<1> QED BY <1>1, <1>2, <1>3, ServerMoves DEF Start

LEMMA BootSafe ==
  ASSUME IInv, NEW s \in Servers, Boot(s)
  PROVE  IInv'
<1>1. server[s] \in Run /\ user \in Hashable \cup {Random, NoUser}
  BY ServerKinds, Types DEF Boot, IInv, AuthInv
<1>2. Loads(server[s].env)
  BY <1>1, ServerKinds DEF IInv, EnvLoaded
<1> DEFINE up == [server[s] EXCEPT !.pc = "up"]
           create == [server[s] EXCEPT !.pc = "create"]
<1>3. up \in Run /\ create \in Run /\ up # Down /\ create # Down
  BY <1>1, ServerKinds
<1>4. /\ up.pc = "up" /\ up.env = server[s].env
      /\ create.pc = "create" /\ create.env = server[s].env
      /\ Down.pc = "down"
  BY <1>1 DEF Run, Down
<1>5. CASE user # NoUser
  <2>1. server' = [server EXCEPT ![s] = up]
    BY <1>5 DEF Boot
  <2> QED BY <1>1, <1>2, <1>3, <1>4, <1>5, <2>1, ServerMoves DEF Boot
<1>6. CASE user = NoUser /\ Refused(server[s].env)
  <2>1. server' = [server EXCEPT ![s] = Down]
    BY <1>6 DEF Boot
  <2> QED BY <1>1, <1>4, <1>6, <2>1, ServerMoves DEF Boot
<1>7. CASE user = NoUser /\ ~Refused(server[s].env)
  <2>1. server' = [server EXCEPT ![s] = create]
    BY <1>7 DEF Boot
  <2>2. create.pc # "up" /\ (create.env.auth => create.env.password \in Hashable)
    BY <1>4, <1>7 DEF Refused
  <2>3. server[s].pc = "boot" /\ UNCHANGED <<clock, user, stops, cli, login, cookie>>
    BY DEF Boot
  <2> HIDE DEF create
  <2> QED BY <1>1, <1>2, <1>3, <1>4, <2>1, <2>2, <2>3, ServerMoves
<1> QED BY <1>5, <1>6, <1>7

LEMMA CreateSafe ==
  ASSUME IInv, NEW s \in Servers, CreateUser1(s)
  PROVE  IInv'
<1>1. server[s] \in Run /\ user \in Hashable \cup {Random, NoUser}
  BY ServerKinds, Types DEF CreateUser1, IInv, AuthInv
<1>2. Loads(server[s].env) /\ (server[s].env.auth => server[s].env.password \in Hashable)
  BY <1>1, ServerKinds DEF IInv, EnvLoaded, PasswordReady, CreateUser1
<1>3. FirstPassword(server[s].env) \in Hashable \cup {Random}
  BY <1>1, <1>2, ServerKinds, SettingsType DEF FirstPassword
<1> DEFINE up == [server[s] EXCEPT !.pc = "up"]
<1>4. up \in Run /\ up # Down /\ up.pc = "up" /\ up.env = server[s].env /\ Down.pc = "down"
  BY <1>1, ServerKinds DEF Run, Down
<1>5. CASE user = NoUser
  <2>1. server' = [server EXCEPT ![s] = up] /\ user' = FirstPassword(server[s].env)
    BY <1>5 DEF CreateUser1
  <2>2. user' # NoUser
    BY <1>3, <2>1, AuthAssumption
  <2> QED BY <1>1, <1>2, <1>3, <1>4, <1>5, <2>1, <2>2, ServerMoves DEF CreateUser1
<1>6. CASE user # NoUser
  <2>1. server' = [server EXCEPT ![s] = Down] /\ user' = user
    BY <1>6 DEF CreateUser1
  <2> QED BY <1>1, <1>4, <1>6, <2>1, ServerMoves DEF CreateUser1
<1> QED BY <1>5, <1>6

\* A server that stops takes its logins along.
LEMMA StopSafe ==
  ASSUME IInv, NEW s \in Servers, Stop(s)
  PROVE  IInv'
<1> USE DEF IInv, AuthInv
<1> DEFINE rest(b) == IF login[b] = [at |-> s] THEN NoLogin ELSE login[b]
<1>1. /\ server' = [server EXCEPT ![s] = Down] /\ stops' = stops + 1 /\ stops < MaxStops
      /\ login' = [b \in Browsers |-> rest(b)]
      /\ UNCHANGED <<clock, user, cli, cookie>>
  BY DEF Stop
<1>2. TypeOK'
  BY <1>1, AuthAssumption DEF TypeOK
<1>3. /\ server'[s] = Down /\ Down.pc = "down"
      /\ \A v \in Servers \ {s} : server'[v] = server[v]
  BY <1>1, Types DEF Down
<1>4. LearnerThere'
  <2>1. ASSUME NEW v \in Servers, IsUp(v)' PROVE user' # NoUser
    BY <1>1, <1>3, <2>1 DEF LearnerThere, IsUp
  <2>2. ASSUME NEW c \in Clis, cli'[c] # CliIdle PROVE user' # NoUser
    BY <1>1, <2>2 DEF LearnerThere
  <2>3. ASSUME NEW b \in Browsers, login'[b] # NoLogin
        PROVE  user' # NoUser /\ WithAuth(login[b].at)'
    <3>1. login'[b] = login[b] /\ login[b] # [at |-> s] /\ login[b] # NoLogin
      BY <1>1, <2>3
    <3>2. user # NoUser /\ WithAuth(login[b].at) /\ login[b] \in [at : Servers]
      BY <3>1, Types DEF LearnerThere
    <3>3. login[b].at \in Servers \ {s}
      BY <3>1, <3>2
    <3>4. server'[login[b].at] = server[login[b].at]
      BY <1>3, <3>3
    <3> QED BY <1>1, <3>1, <3>2, <3>4 DEF WithAuth, IsUp
  <2> QED BY <2>1, <2>2, <2>3 DEF LearnerThere
<1>5. EnvLoaded' /\ PasswordReady'
  BY <1>3 DEF EnvLoaded, PasswordReady
<1>6. ExpiryComputed'
  BY <1>1 DEF ExpiryComputed
<1> QED BY <1>2, <1>4, <1>5, <1>6

-----------------------------------------------------------------------------
(* Steps of setpassword and of browsers. *)

\* One setpassword process moves: the row, if there is one, stays.
LEMMA CliMoves ==
  ASSUME IInv, NEW c \in Clis, NEW r \in {CliIdle, Reading} \cup Writing,
         cli' = [cli EXCEPT ![c] = r],
         user' \in Hashable \cup {Random, NoUser}, user # NoUser => user' # NoUser,
         r # CliIdle => user' # NoUser,
         UNCHANGED <<clock, server, stops, login, cookie>>
  PROVE  IInv'
<1> USE DEF IInv, AuthInv
<1>1. TypeOK'
  BY DEF TypeOK, Reading, Writing
<1>2. LearnerThere'
  BY Types DEF LearnerThere, IsUp, WithAuth
<1>3. EnvLoaded' /\ PasswordReady' /\ ExpiryComputed'
  BY DEF EnvLoaded, PasswordReady, ExpiryComputed
<1> QED BY <1>1, <1>2, <1>3

LEMMA CliSafe ==
  ASSUME IInv, NEW c \in Clis, CliStep(c)
  PROVE  IInv'
<1> USE DEF IInv, AuthInv
<1>1. user \in Hashable \cup {Random, NoUser} /\ cli[c] \in {CliIdle, Reading} \cup Writing
  BY Types
<1>2. CASE SetPassword(c)
  BY <1>1, <1>2, CliMoves DEF SetPassword, Reading
<1>3. ASSUME NEW piped \in BOOLEAN, NEW input \in Passwords, ReadPassword(c, piped, input)
      PROVE  IInv'
  <2> DEFINE p == IF piped THEN Trimmed[input] ELSE input
             r == IF p \in Hashable THEN [pc |-> "write", password |-> p] ELSE CliIdle
  <2>2. r \in {CliIdle, Reading} \cup Writing
    BY DEF Writing
  <2>3. user # NoUser
    BY <1>3 DEF ReadPassword, LearnerThere, CliIdle
  <2>4. cli' = [cli EXCEPT ![c] = r] /\ UNCHANGED <<clock, user, server, stops, login, cookie>>
    BY <1>3 DEF ReadPassword
  <2> QED BY <1>1, <2>2, <2>3, <2>4, CliMoves
<1>4. CASE SetPasswordFails(c)
  BY <1>1, <1>4, CliMoves DEF SetPasswordFails
<1>5. CASE UpdatePasswordHash(c)
  <2>1. cli[c].password \in Hashable
    BY <1>1, <1>5, CliKinds DEF UpdatePasswordHash, Writing
  <2>2. user' \in Hashable \cup {Random, NoUser} /\ (user # NoUser => user' # NoUser)
    BY <1>1, <1>5, <2>1, AuthAssumption DEF UpdatePasswordHash
  <2> QED BY <1>5, <2>2, CliMoves DEF UpdatePasswordHash
<1> QED BY <1>2, <1>3, <1>4, <1>5 DEF CliStep

\* One browser's login and cookie change.
LEMMA BrowserMoves ==
  ASSUME IInv, NEW b \in Browsers,
         NEW l \in {NoLogin} \cup [at : Servers], NEW k \in {NoCookie} \cup Cookies,
         login' = [login EXCEPT ![b] = l], cookie' = [cookie EXCEPT ![b] = k],
         l # NoLogin => user # NoUser /\ WithAuth(l.at),
         k # NoCookie => k.exp = Expiry(k.issued, k.ttl),
         UNCHANGED <<clock, user, server, stops, cli>>
  PROVE  IInv'
<1> USE DEF IInv, AuthInv
<1>1. TypeOK'
  BY DEF TypeOK
<1>2. /\ login'[b] = l /\ \A v \in Browsers \ {b} : login'[v] = login[v]
      /\ cookie'[b] = k /\ \A v \in Browsers \ {b} : cookie'[v] = cookie[v]
  BY Types
<1>3. LearnerThere'
  BY <1>2 DEF LearnerThere, IsUp, WithAuth
<1>4. EnvLoaded' /\ PasswordReady'
  BY DEF EnvLoaded, PasswordReady
<1>5. ExpiryComputed'
  <2>1. ASSUME NEW v \in Browsers, cookie'[v] # NoCookie
        PROVE  cookie'[v].exp = Expiry(cookie'[v].issued, cookie'[v].ttl)
    BY <1>2, <2>1 DEF ExpiryComputed
  <2> QED BY <2>1 DEF ExpiryComputed, Expiry
<1> QED BY <1>1, <1>3, <1>4, <1>5

LEMMA BrowserSafe ==
  ASSUME IInv, NEW b \in Browsers, BrowserStep(b)
  PROVE  IInv'
<1> USE DEF IInv, AuthInv
<1>1. /\ login[b] \in {NoLogin} \cup [at : Servers]
      /\ cookie[b] \in {NoCookie} \cup Cookies
      /\ login = [login EXCEPT ![b] = login[b]] /\ cookie = [cookie EXCEPT ![b] = cookie[b]]
  BY Types
<1>2. /\ login[b] # NoLogin => user # NoUser /\ WithAuth(login[b].at)
      /\ cookie[b] # NoCookie => cookie[b].exp = Expiry(cookie[b].issued, cookie[b].ttl)
  BY DEF LearnerThere, ExpiryComputed
<1>3. ASSUME NEW s \in Servers, NEW p \in Passwords, CheckPassword(s, b, p)
      PROVE  IInv'
  <2> DEFINE l == [at |-> s]
  <2>1. l \in [at : Servers] /\ l.at = s /\ user # NoUser /\ WithAuth(s)
    BY <1>3, AuthAssumption DEF CheckPassword
  <2>2. login' = [login EXCEPT ![b] = l] /\ cookie' = [cookie EXCEPT ![b] = cookie[b]]
        /\ UNCHANGED <<clock, user, server, stops, cli>>
    BY <1>1, <1>3 DEF CheckPassword
  <2> HIDE DEF l
  <2> QED BY <1>1, <1>2, <2>1, <2>2, BrowserMoves
<1>4. CASE Issue(b)
  <2> DEFINE env == server[login[b].at].env
             k == [exp |-> Expiry(clock, env.ttl), secret |-> env.secret,
                   issued |-> clock, ttl |-> env.ttl]
  <2>1. login[b] \in [at : Servers] /\ WithAuth(login[b].at)
    BY <1>1, <1>2, <1>4 DEF Issue
  <2>2. server[login[b].at] \in Run
    BY <2>1, ServerKinds, Types DEF WithAuth, IsUp
  <2>3. env \in Settings /\ Loads(env) /\ env.auth
    BY <2>1, <2>2, ServerKinds DEF EnvLoaded, WithAuth
  <2>4. env.secret \in Secrets /\ env.ttl \in Nat /\ clock \in Nat
    BY <2>3, SettingsType DEF Loads, TypeOK
  <2>5. k \in Cookies /\ k.exp = Expiry(k.issued, k.ttl)
    <3> HIDE DEF env
    <3>1. clock \in Int /\ env.ttl \in Int
      BY <2>4
    <3>2. Expiry(clock, env.ttl) \in Int
      BY <3>1, ExpiryType
    <3> QED BY <2>4, <3>2 DEF Cookies
  <2>6. login' = [login EXCEPT ![b] = NoLogin] /\ cookie' = [cookie EXCEPT ![b] = k]
        /\ UNCHANGED <<clock, user, server, stops, cli>>
    BY <1>4 DEF Issue
  <2> HIDE DEF k
  <2> QED BY <2>5, <2>6, BrowserMoves
<1>5. ASSUME NEW s \in Servers, Logout(s, b)
      PROVE  IInv'
  BY <1>1, <1>2, <1>5, BrowserMoves DEF Logout
<1>6. CASE LoseLogin(b)
  BY <1>1, <1>2, <1>6, BrowserMoves DEF LoseLogin
<1>7. CASE DropCookie(b)
  BY <1>1, <1>2, <1>7, BrowserMoves DEF DropCookie
<1> QED BY <1>3, <1>4, <1>5, <1>6, <1>7 DEF BrowserStep

-----------------------------------------------------------------------------
(* The theorems. *)

LEMMA InitSafe == Init => IInv
<1> SUFFICES ASSUME Init PROVE IInv
  OBVIOUS
<1>1. TypeOK
  BY AuthAssumption DEF Init, TypeOK
<1>2. LearnerThere
  BY DEF Init, LearnerThere, IsUp, Down
<1>3. EnvLoaded /\ PasswordReady /\ ExpiryComputed
  BY DEF Init, EnvLoaded, PasswordReady, ExpiryComputed, Down
<1> QED BY <1>1, <1>2, <1>3 DEF IInv, AuthInv

LEMMA NextSafe == IInv /\ [Next]_vars => IInv'
<1> SUFFICES ASSUME IInv, [Next]_vars PROVE IInv'
  OBVIOUS
<1>1. ASSUME NEW s \in Servers, NEW env \in Settings, Start(s, env) PROVE IInv'
  BY <1>1, StartSafe
<1>2. ASSUME NEW s \in Servers, ServerStep(s) \/ Stop(s) PROVE IInv'
  BY <1>2, BootSafe, CreateSafe, StopSafe DEF ServerStep
<1>3. ASSUME NEW c \in Clis, CliStep(c) PROVE IInv'
  BY <1>3, CliSafe
<1>4. ASSUME NEW b \in Browsers, BrowserStep(b) PROVE IInv'
  BY <1>4, BrowserSafe
<1>5. CASE Tick \/ UNCHANGED vars
  <2>1. clock' \in 0 .. MaxClock /\ UNCHANGED <<user, server, stops, cli, login, cookie>>
    BY <1>5, AuthAssumption DEF Tick, vars, IInv, AuthInv, TypeOK
  <2>2. TypeOK'
    BY <2>1 DEF IInv, AuthInv, TypeOK
  <2>3. LearnerThere'
    BY <2>1 DEF IInv, AuthInv, LearnerThere, IsUp, WithAuth
  <2>4. EnvLoaded' /\ PasswordReady' /\ ExpiryComputed'
    BY <2>1 DEF IInv, EnvLoaded, PasswordReady, ExpiryComputed
  <2> QED BY <2>2, <2>3, <2>4 DEF IInv, AuthInv
<1> QED BY <1>1, <1>2, <1>3, <1>4, <1>5 DEF Next

LEMMA Inductive == Spec => []IInv
BY InitSafe, NextSafe, PTL DEF Spec

\* Whoever relies on the Learner's row finds it: a server that answers, a login
\* past its check, and setpassword between its check and its update, whatever
\* starts, stops and crashes in between (bootstrap.go, cmd/setpassword).
THEOREM LearnerAlwaysThere == Spec => []AuthInv
<1>1. IInv => AuthInv
  BY DEF IInv
<1> QED BY <1>1, Inductive, PTL

\* A held cookie admits for its time to live, less than a second short of it and
\* never longer, at every server with its secret and at no other (session.go).
THEOREM SessionsLiveTheirTtl == Spec => []SessionLivesItsTtl
<1>1. IInv => SessionLivesItsTtl
  <2> SUFFICES ASSUME IInv, NEW s \in Servers, NEW b \in Browsers,
                      WithAuth(s), cookie[b] # NoCookie
               PROVE  LET c == cookie[b]
                          signed == c.secret = server[s].env.secret
                      IN /\ Admitted(s, b) => signed /\ clock < c.issued + c.ttl
                         /\ signed /\ clock + Second <= c.issued + c.ttl => Admitted(s, b)
    BY DEF SessionLivesItsTtl
  <2> DEFINE c == cookie[b]
  <2>1. c \in Cookies /\ c.exp = Expiry(c.issued, c.ttl) /\ clock \in Nat
    BY Types DEF IInv, AuthInv, ExpiryComputed
  <2>2. c.issued \in Int /\ c.ttl \in Int /\ c.exp \in Int
    BY <2>1 DEF Cookies
  <2>3. c.exp * Second <= c.issued + c.ttl /\ c.issued + c.ttl < c.exp * Second + Second
    BY <2>1, <2>2, ExpiryType
  <2>4. c.exp * Second \in Int /\ Second \in Int
    BY <2>2, AuthAssumption
  <2>5. Admitted(s, b) <=> c.secret = server[s].env.secret /\ clock < c.exp * Second
    BY DEF Admitted, SessionOK, Parses, WithAuth
  <2> HIDE DEF c
  <2>6. clock < c.exp * Second => clock < c.issued + c.ttl
    BY <2>1, <2>2, <2>3, <2>4
  <2>7. clock + Second <= c.issued + c.ttl => clock < c.exp * Second
    BY <2>1, <2>2, <2>3, <2>4
  <2> QED BY <2>5, <2>6, <2>7 DEF c
<1> QED BY <1>1, Inductive, PTL

\* The first insert decides the password, however many starts race for it, and
\* from then on only setpassword changes it (bootstrap.go).
THEOREM PasswordOnlySetOnce == Spec => PasswordKept
<1> DEFINE Kept ==
      user' # user =>
        \/ /\ user = NoUser
           /\ \E s \in Servers : /\ server[s].pc = "create" /\ server'[s].pc = "up"
                                 /\ user' = FirstPassword(server[s].env)
        \/ \E c \in Clis : /\ cli[c].pc = "write" /\ cli'[c] = CliIdle
                           /\ user' = cli[c].password
<1>1. IInv /\ [Next]_vars => [Kept]_vars
  <2> SUFFICES ASSUME IInv, Next, user' # user
               PROVE  Kept
    BY DEF vars
  <2>1. ASSUME NEW s \in Servers, CreateUser1(s) PROVE Kept
    <3>1. server[s] \in Run /\ server \in [Servers -> {Down} \cup Run]
      BY <2>1, ServerKinds, Types DEF CreateUser1, IInv, AuthInv
    <3>2. user = NoUser /\ server' = [server EXCEPT ![s].pc = "up"]
          /\ user' = FirstPassword(server[s].env) /\ server[s].pc = "create"
      BY <2>1 DEF CreateUser1
    <3>3. server'[s].pc = "up"
      BY <3>1, <3>2 DEF Run
    <3> QED BY <3>2, <3>3
  <2>2. ASSUME NEW c \in Clis, UpdatePasswordHash(c) PROVE Kept
    <3>1. cli'[c] = CliIdle
      BY <2>2, Types DEF UpdatePasswordHash, IInv, AuthInv
    <3> QED BY <2>2, <3>1 DEF UpdatePasswordHash
  <2>3. \/ \E s \in Servers : CreateUser1(s)
        \/ \E c \in Clis : UpdatePasswordHash(c)
    BY DEF Next, Start, ServerStep, Boot, Stop, CliStep, SetPassword, ReadPassword,
           SetPasswordFails, BrowserStep, CheckPassword, Issue, Logout, LoseLogin,
           DropCookie, Tick
  <2> QED BY <2>1, <2>2, <2>3
<1> QED BY <1>1, Inductive, PTL DEF Spec, PasswordKept
=============================================================================
