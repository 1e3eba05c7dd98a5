# AuthAPI in TLA+

TLA+ modules for the authentication server in this repository, configurations
that model-check them with TLC on small instances, and proofs that TLAPS checks
for every instance. `PROJECT.json` lists components, runs, mutants, the source
lines behind every definition, findings, hazards and theorems.

Parse, check and prove from this directory:

    tlasany Sessions.tla
    tlc -workers 2 -config MCSessions.cfg MCSessions.tla
    tlapm SessionsProofs.tla

## The system

A Go server (gin; one goroutine per request) keeps accounts and client apps in
Postgres, and sessions, authorization codes, e-mail links (database 0) and rate
counters (database 1) in Redis. It has no state of its own besides the keys it
signs with, and no locks that matter: *requests interact only through Redis and
Postgres*, one command at a time, and everything a handler has read sits in its
locals while other requests run. Two of its calls leave the machine room: a
geolocation lookup without a timeout (`GetIPLocation`) and SMTP.

| component | state | operations | hard behaviour | correct when |
|---|---|---|---|---|
| Sessions and tokens (`routes.go`, `TokenRepo.go`, `jwtManager.go`, `middleware.go`) | session hashes and a sorted-set index with expiries; JWTs in clients' hands, which expire by themselves | `/login`, `/token`, `/refresh`, `/logout`, `/userinfo`, `/introspect` | tokens are signed before their session is stored; sessions expire between a read and an extension; two refreshes of one token; dropped errors | a token works while it is valid; index and sessions agree; a session keeps its client; nothing closed comes back |
| Authorization codes (`routes.go`, `TokenRepo.go`) | a hash per code, 60 s | `/authorize`, `/token` | HSET/EXPIRE and HGETALL/DEL are pairs of commands; the code is deleted before it is validated; codes are bearer values | tokens only for what was approved; once per code |
| Rate limiting (`middleware.go`, `RatelimitRepo.go`) | a counter per address, 15 min | in front of `/login`, `/register`, `/verify`, `/requestReset`, `/reset` | check and count are separate; the expiry is a third command; the client's hang-up cancels any of them | bounded overshoot; windows end |
| Accounts (`routes.go`, `UsersRepo.go`, `TokenRepo.go`) | `accounts.users`; verification and reset links | `/register`, `/verify`, `/requestReset`, `/reset`, the side branches of `/login`, `/update`, `/countryCode` | links are read and deleted by two commands, used before the row is written; the bcrypt re-hash is a read-modify-write | one link, one password; no update is lost |
| Account settings (`routes.go`, `UsersRepo.go`) | the columns of `accounts.users` that may be NULL | `/register`, `/update`, `/countryCode`; read by `/login`, `/token`, `/refresh` | columns younger than accounts; pointers followed unseen | whom a NULL stops, and whose token it gets into |
| Profile pictures (`personalization.go`, `imageSignatures.go`) | a column in Postgres, files in a CDN | `/upload/profile`, `/remove/profile` | two stores written in turn, a detached goroutine | the row names a file that is there; no file is orphaned |
| Clients (`ClientsRepo.go`) | `accounts.apps`, a cache nothing fills | lookups | apps withdrawn by hand while their flows run | an app off the table gets no codes, no tokens for codes and no new users (`/refresh` goes on serving it) |
| Start-up (`auth.go`, `UsersRepo.go`) | the tables; where main is | waiting for Postgres, bringing tables up to date, one ping of Redis | servers that come and go or refuse, dropped errors | what serves has its tables; a start ends once Postgres stays up and accepts |
| Deployment (`deploy.yml`) | which container serves which port | blue/green switch | two deployments at once; deployments cut in the middle; any command may fail and the script goes on | the container that serves stays, but for known causes |
| User ids (`UsersRepo.go`) | none | snowflake id per registration | the sequence restarts with every call; the clock | ids differ; who is refused, and why |
| Mailer (with the check of addresses), logging, configuration, country table, JWKS | none | I/O and constants | – | – |

How they interact: `RateLimiting` runs before the account handlers and shares
nothing with them but the address. `/authorize` trusts the access cookie that
`/login` or `/refresh` handed out (signature and expiry; it never looks for the
session) and stores a code, once it has found the app in `accounts.apps`; `/token` turns the code into a session and a pair
of tokens; `/refresh` prolongs or replaces the session; `/userinfo` and
`/introspect` answer from it. Accounts are read when tokens are signed, so a
token is a copy of an account at one moment.

## Modules

| module | what it is |
|---|---|
| `Redis` | external: the commands the program sends (HSET/ZADD, EXPIRE, DEL, expiry) as operators on a function from keys to entries with a deadline |
| `Sessions` | sessions and tokens, one action per call to Redis, Postgres or the geolocation service |
| `SessionLease` | what a session store promises, without clocks, keys or requests |
| `SessionsInv`, `SessionsProofs` | the inductive invariant of `Sessions`, the proofs of its invariants, the proof that it implements `SessionLease`, and what follows from that |
| `AuthCodes`, `AuthCodesProofs` | authorization codes; proofs of all its passing properties |
| `RateLimit`, `RateLimitProofs` | the rate limiter; proofs of its safety properties |
| `Accounts`, `AccountsProofs` | registration, mailed links, password resets and re-hashes; proofs of all its passing properties |
| `AuthServer`, `AuthServerProofs` | `Sessions`, `AuthCodes` and the table of apps composed, with the cookies of `/authorize`; proofs of all its passing properties, that it implements both components among them |
| `Profile` | the columns that may be NULL and the handlers that follow pointers to them |
| `UserIds` | the ids of registrations |
| `UserTable`, `UserTableProofs` | `Profile` and `UserIds` composed: registrations insert the rows the other handlers read and change; proofs of all its passing properties |
| `ProfilePhoto`, `ProfilePhotoProofs` | uploads and removals against the row and the CDN; proofs of all its passing properties |
| `Container` | what a deployment may count on of one container |
| `Startup` | one start of the process, up to serving or exiting; it implements `Container` (proved in `DeployProofs`) |
| `Deploy`, `DeployProofs` | the blue/green script over `Container`s; proofs of all its passing properties, and of the safety properties of `Startup`, the process in a container |
| `MC...` | the modules as TLC checks them (symmetry sets); `Startup` needs none |

Operators marked *Mutant* in a module are wrong variants of the definition below
them; `PROJECT.json` says which property notices each of them.

### Sessions

State: `hashes` and `zsets` are Redis database 0 (a session under
`session:uid:sid`, the index under `user:sessions:v2:uid`, and the two keys the
code uses by mistake: the bare session id and `user:sessions:uid`); `profile` is
the part of an account that tokens copy; `req` holds the locals of the requests
in flight; `issued` the tokens clients hold. `used`, `lost` and `retired` are
history: ids drawn, ids whose `InsertSession` failed, ids a logout or rotation
asked to delete.

A request is a program counter and locals. Login and code redemption sign both
tokens (`IssuePair`), wait for the geolocation service (`Locate`, where
`InsertSession` also reads the clock), store the session and answer
(`InsertSession`). A refresh reads the session, reads the account if asked to,
and either signs an access token and extends (`SignAccess`, `ExtendSession`) or
signs a pair, deletes and stores (`SignRotated`, `DeleteOld`, `Locate`,
`InsertSession`). Every call to Redis may fail where the code drops the error; a
request may be cut off anywhere (`Abort`); time may pass between any two steps
(`Tick`). Session ids and token ids are 32 random bytes and never repeat. JWTs
are records; their signature is taken as sound.

Abstractions: a session's value is its `client_id` (the other fields are never
read by a decision; `blacklisted` is always false), profile fields are one value,
seconds are as coarse as the lifetimes allow. The branches of `/login` that end
without tokens are in `Accounts`.

### AuthCodes

`codes` is Redis; `held` the codes apps were redirected with, which anybody may
present with any client and verifier; `approved`, `grants`, `again`, `raced`,
`undeleted` are history. A client stands for its registered redirect URI, a code
challenge for its verifier (SHA-256 is injective here). `Fail` is every early
exit and every failing call. The cookies of `/authorize` are in
`AuthServer`. Not modelled: the `op_cookie` path, as `InsertOPToken` has no caller
and what it would store is never found.

### Accounts

`rows` is `accounts.users` (`is_verified` and the password hash, by the unique
e-mail), `links` the hashes `signup:<token>` and `reset:<token>` in Redis, `mailed`
the links that went out, `sessions` the accounts that have a session. `drawn`,
`chosen`, `confirmed`, `uses` and `reusable` are history. A password hash is its
scheme and the password: verifying a password is comparing (argon2id and bcrypt
are injective here). Accounts that existed before this program are in `Init`, with
a bcrypt hash, verified or not. A handler that reads a row and later updates it
(`LoginLegacy`, `Rehash`) does so in two steps, as does one that follows a link
(`ReadLink`, `DeleteLink`, then the UPDATE). `Verify` and `Reset` are requests of
whoever got the mail: the owner of the address. Every request may end after any
step (`Fail`), a link may run out at any time once it has an expiry. Two links
and no clock: no property depends on how long a link lasts.

`is_deleted` is not modelled: no query selects it, so it is always 0 in the
program. After a re-hash the handler returns without a session and with an empty
answer (routes.go:115); so does `Rehash`.

### RateLimit

`count` and `ttl` are the counters and what is left of their windows; time is
relative so that it never stops. Each of the three commands may fail. Addresses
on the whitelist do not reach Redis and are not modelled.

### AuthServer

`AuthServer` EXTENDS `Sessions` and has `AuthCodes` as an instance `AC`, whose
variables `req` and `Reqs` are `creq` and `CodeReqs`; both share one clock
(`ServerTick` is a step of each). It adds what the components leave open:

- `AuthorizeByAccess`: the user of a code is the subject of an unexpired access
  token. The session behind the token and its audience do not matter to the code.
  With the other cookie, a refresh token alone, the browser is always sent to log
  in: `GetTokenInfo` looks where nothing stores, no state changes, no action.
- `Redeem`: one step of `AC` (the grant) and one of `Sessions` (`RedeemCode`): the
  user and the session's client come from the code (routes.go:362), the audience of the
  tokens from the client that asks (346, 351). That the two are one is what the
  comparison at 302 is for (`ClientIsAudience`, whose mutant leaves it out).
- `apps`: the clients on `accounts.apps`. `Withdraw` is somebody at the database
  who deletes a row. `SignIn`, `AuthorizeByAccess` and `TokenRequest` look the client
  up (`GetClientByID`), `/refresh` does not: an app that is gone keeps the users it has
  tokens of, for as long as it refreshes and rotates those (`WithdrawnGainsNobody`
  says that it gets nothing else). The column `active` is selected and
  never looked at, so it is not modelled.

`logins` is history. A request of `/token` is a `CodeReqs` until the code is
redeemed and one of `Reqs` after that, so one of each is a whole flow beside a
browser's.

### Profile, UserIds and UserTable

`Profile`: `rows` keeps `middle_name`, `last_name` and `countrycode`; accounts in
`Init` may be older than any column, and clients may hold tokens of an earlier version
of the program, with any claims. `born` are those registered here, `had` the last
names an account has had. So a refresh that reads the account again may meet a NULL
country, which routes.go:431 is there for ("Sometimes can be nil in rare
circumstances"): the token then says "N/A" (`OrNA`), and keeps saying so. That this
only happens to older accounts is `PlaceholdersAreOld`. A handler that reads the row and signs later does it in two
steps. `PairPanics` and `MergePanics` are the two dereferences of a NULL, each
recovered by gin. `SetCountryCode` compares the type the middleware stores
(`UserIdType`) with the one the handler asserts, and so changes nothing. `/register`
is modelled with fields that are not empty (`RegisterAccount` refuses the others, and
has changed nothing by then); it takes any string for a country, "N/A" included;
that `PUT /update` can store an empty name is not told apart from a name.

`UserIds`: an id is computed, 22 bits of node and sequence under the milliseconds, as
the library does; every process has node 1 and every registration sequence 0. The
clock is the wall clock: `SetBack` is its being set back. 41 bits of milliseconds do
not run out in the bound, nor for 69 years. Rows of `Init` were drawn in two earlier
milliseconds. An INSERT is refused by a unique constraint (`InsertConflicts`, kept in
`refused`) or fails for any other reason (`InsertFails`: Postgres is away, a value does
not fit its column); the answer is the same 500 and only the first says anything of
ids.

`UserTable` runs both: an INSERT that succeeds is one step of each
(`RegisterAccount`), and an account is its e-mail address in one and the row in the
other. `OldTokens` bounds the tokens of an earlier version: TLC has those without a
country, the theorems any. An old row of an account nobody logs in to is `BareRow`, as
none of its columns is read.

### ProfilePhoto

`rows` is the column `profilepicture`, `cdn` the files that are there, `up` whether
the process runs. `owner`, `cut` and `leaked` are history: for whom a name was drawn,
which files an upload deleted without changing the row, which files nothing will
delete, and `leaked` only grows in the steps that are such a cause: a failure, a
panic, or a row that names another file by now than the request read. A request that
is cut off leaves what a failing call leaves. `CleanupPanics` ends the process; the
requests in flight then end by their failure actions, and `Restart` follows.

### Startup and Container

`Statements` is the list `Usersrepo.Init` runs; `db` the elements (tables and
columns) that are there. In `Init` `db` is anything an earlier version may have left.
A column is one that an ALTER adds: those that only a CREATE makes (`publicusername`,
`active`) are taken to be there with the table.
Postgres is away, answers and refuses (a wrong password, a role that may not create),
or is up, and it and Redis change at any time (`Servers`). Any error of a `Checked`
statement sends main to sleep and back to the start of the list, as often as it comes:
auth.go:57-70 tells "57P03" from other errors in what it logs, not in what it does, so
a refusal that lasts is retried for ever. Any ALTER may be refused at any time, and
that error is dropped.
`Container` is three states; `Startup` implements it and `Deploy` runs two of it,
so that what the script sees of a container is what the process does.

### Deploy

A step is a command of the script, a deployment its program counter and the
shell's variables `CURRENT_CONTAINER` (`seen`) and `NEW_COLOR` (`colour`; the port
goes with it). `docker port` with two ids or none that runs fails, and the script
goes on with blue. Any other command may fail too, and the script goes on
(`LookFails`, `ChooseFails`, `CommandFails`): without an answer of `docker ps` there is
nothing to replace, a `docker run` that fails leaves no container to probe, and after a
`tee` or a `systemctl reload` that fails the old container is stopped all the same.
`Check` has no branch that exits, as `docker ps -q` succeeds unless docker does not
answer, and then the script ends as in `Cut`, a workflow that ends anywhere.
`alone`, `made` and `failed` (the commands of a lone deployment that failed) are
history. nginx is its configuration and the one it has loaded. The pull of the image
and the rewriting of `.env` change nothing that is told apart here.

## Runs

| run | question | bounds |
|---|---|---|
| `sessions` | do tokens in clients' hands work and stay indexed, does the index name only sessions that exist, does `Sessions` implement `SessionLease` | 2 requests at once, 2 session ids, lifetimes 1 < 2 < 3, 5 time units; one profile, which makes a refresh that reads it panic (one that copies it back signs what a refresh without reading signs) |
| `auth_codes` | do codes buy tokens only for what was approved, only twice through a race, and do they expire | 2 users, a public and a confidential client, 2 verifiers, 2 codes, 2 requests |
| `rate_limit` | is the overshoot bounded, does a window keep its end, does a block end | 2 addresses, 3 requests, limit 3, window 2 |
| `accounts` | are passwords and verification only what the owner of an address asked for, do links expire, and work twice only through a race | 2 accounts (any mix of old, new and none), 2 passwords, 2 links, 2 requests |
| `auth_server` | does every token go back to a login or an approval, does a session keep the client its tokens name, can what is left over sign in a user who is signed out everywhere, what does an app that was deleted still get, does the server implement its components | 1 user, 2 apps (a public one, which may be deleted at any step), 1 request of each kind, 2 session ids, 1 code, 2 time units; people log in at one app |
| `user_table` | whom does a unique constraint refuse, do NULLs reach tokens or stop handlers, and for which accounts, does a token name what its account was called | 2 addresses (any rows, or none yet), of which one logs in and may have tokens from before there were countries, 1 name besides the empty one and none, 1 country, 2 registrations and 1 request at once, 2 milliseconds |
| `profile_photo` | is the picture a row names there, why is a file left behind, do users stay apart | 2 users, 4 files, 3 requests |
| `startup` | has what serves its tables and columns, does a start end once Postgres stays up and accepts, is the process a `Container` | every database with any subset of the columns; no other bound |
| `deploy` | does a deployment switch to its own container, and when does it take down the one that serves | 3 deployments, 3 containers, any commands failing |
| `token_is_deleted`, `counters_expire`, `rehash_keeps_password` | does the code do what its comments say: each is violated | the instances above, or smaller ones |

The bounds. Two requests are what a race needs, and each action touches at most
two requests; two ids allow a rotation; the lifetimes keep the order and the gaps
of 15 minutes, 2 days and 14 days, with the boundary cases (`=`) reached because
steps happen at every time unit; five units let a session be opened, extended at
the last moment and expire. A limit of three with three requests makes the
overshoot exceed the limit. In `AuthServer` `Sites` and `Withdrawable` bound who logs
in where and which app may go: the other app gets its tokens by codes only, which is
what `TokensEntitled` is about; one request of each kind suffices there because the
components are checked with two on their own and the composition is shown to
implement them, one user because `auth_codes` has two and the theorems any number.
In `UserTable` the panics and the names concern one account at a time (`Settling`),
the ids concern two registrations. Three requests of `ProfilePhoto` let two uploads and a removal of
one user cross; three deployments a cut one and two at once. The proofs below remove the bounds for every
property of the passing runs but the two liveness properties. `CHECK_DEADLOCK FALSE` is set where the model's clock stops at
`MaxTime`, or its links, files, containers or deployments are used up, or the
process has exited; the code itself has no locks to wait on.

### What the violated runs show

- `TokenIsDeleted`: `DeleteToken` (TokenRepo.go:152) gets the bare session id, but
  sessions are stored under `session:<uid>:<sid>`. After "Logged out successfully"
  the session is there and its tokens work until they expire.
- `CountersExpire`: EXPIRE follows INCR as a command of its own, its error is
  dropped, and it is cancelled when the client hangs up: the counter then has no
  expiry and no later request sets one.
- `RehashKeepsPassword`: `/login` reads a bcrypt hash, hashes the password anew
  and updates the row unconditionally (routes.go:109). A reset that completes in
  between is undone: the old password works, the new one does not.

### Also seen in the code

These differ from what a comment, a message or a test says, too. Where the step
changes state, the modules have it as the code has it; no run is about the
difference.

- `refresh` signs the old claims when it rotates (routes.go:449, 451), although the
  account was read again at 422 "to update the token with the latest info".
  `NamesWereHeld` is what remains true.
- The HGETALL and DEL of `GetAuthCode` are two commands, and "single-use"
  (TokenRepo.go:167) is true only without a race: `SingleUseUnlessRaced`.
- "All redis tokens will be removed" (routes.go:585): `resetPassword` updates the row.
- personalization.go:96 tests the address of a field, which is never nil, and 97
  follows the NULL. The first upload of an account panics, with its file on the CDN
  and no row that names it (`UploadPanics`).
- `RemoveImageFromCDN` drops the error of the request and follows the nil response
  (imageSignatures.go:86-89). In a handler gin recovers that; in the goroutine of a
  removal nothing does, and the process ends (`CleanupPanics`).
- The errors of the ALTERs are dropped (UsersRepo.go:184-198): the process may serve
  without a column (`DroppedFails`, `CompleteUnlessDropped`).
- Two deployments at once, or one after a deployment that was cut, remove the
  container nginx uses, and a lone one stops it when the new configuration could not be
  written or loaded (deploy.yml:117-121); `TakesDownLiveOnlyIf` is what does hold.
- `docker ps -q` succeeds whether or not it lists anything, so deploy.yml:94 never
  sees a container that crashed; the probe does, after 30 s (`Check`).
- Two registrations in one millisecond draw one id and one of them is refused
  (UsersRepo.go:90); `ConflictsOnlyInOneMs` says that ids collide in no other way.
- A refresh with `update_info` follows the last name unseen (routes.go:424), where
  the schema has it optional, and `/login` and `/token` follow the country (131, 346);
  `PanicsAreOld`: only accounts older than this program can have none. (An upload or a
  removal of a picture panics for any account that has none yet: see above.)
- main logs "Postgres is starting up, retrying in 15 seconds..." (auth.go:68) for every
  error, a wrong password included, and never gives up: the premise of `StartEnds`.
- `PUT /update` prints the error of a body that does not parse and goes on, which
  clears the middle name (`UpdateUnparsed`).
- `POST /countryCode` asserts an `int`, the middleware stores an `int64`: the answer
  is always 400. `/devices` asserts the same (routes.go:936) and panics.
- `EmailIsValid` uses the address before it looks at the error
  (mailverification.go:20), and panics for the "randomtext" of its own test.
- `active` is read and never looked at (ClientsRepo.go:61), and a refresh token alone
  never suffices at `/authorize` (routes.go:788).

The comment above `JWTAuthMiddleware` that checks are skipped depending on
`ENVIRONMENT` (middleware.go:17) describes nothing in this code, and is not
modelled.

## Fairness and liveness

Two liveness properties. `BlockEnds`: a blocked address whose counter has an expiry
is let in again; it assumes `WF_vars(Tick)`, that time passes, and nothing of
requests, which may stop at any step. `StartEnds`: once Postgres stays up and
accepts, a start ends in serving or exiting, whatever ALTERs it refuses; it assumes `WF_startVars(Main)`, that main, which nothing blocks,
runs, and nothing of the two servers: that Postgres stays up is a premise of the
property. Sessions and codes state their promises as safety against the clock.
Uploads, deployments and registrations promise nothing that must happen: nothing in
the code tries again.

## Proofs

Assumptions: the named ASSUMEs of each module (`AccessTTL <= RotateBefore <
SessionTTL`; a positive limit and window; finitely many concurrent requests; `Nil`
is no value). TLC evaluates them on every run.

- `Sessions`. The invariants are not inductive. `SessionsInv!IInv` adds: what each
  program counter says of the locals (`LocalsOK`); that no timestamp lies in the
  future (`NotFuture`); that an id a request has drawn is in nobody else's hands
  and not stored (`Fresh`); that every token held by a client *or by a request in
  flight* has a session whose deadline lies beyond it (`Covered`), which is why an
  access token needs `AccessTTL <= RotateBefore`: the session a refresh has read
  outlives the refresh token, and that one has at least `RotateBefore` to go;
  that sessions and tokens agree on the client (`Audience`); and that the index is
  between the tokens and the hashes (`Indexed`). One lemma per action, grouped by
  what it disturbs (`LocalStep`, `InsertStep`, `ExtendStep`, `TickStep`).
- `LeaseKept`: `Spec => KeepsLease`, by mapping every step to an `Open`, `Discard`,
  `Lapse` or stutter of `SessionLease`. What that module promises is proved of it
  and carried back: `PromisesKept` and `ClosedForGood` are theorems about the
  sessions in Redis.
- `AuthCodes`. The strengthening is `OneReads`: while a code was not raced for and
  no DEL failed, at most one request has read it, it is gone once that request has
  deleted it, and after a grant nobody has it. `StoredApproved` and `LocalsOK` carry
  what was approved from `/authorize` through Redis to the grant.
- `Accounts`. `LocalsOK` carries what the owner asked for through the steps of a
  handler: a request that follows a link of the right kind asks for what the link
  was drawn for, and Redis holds exactly that (`StoredDrawn`), so the address it
  reads there is the address the mail went to. `LocalsKept` is the lemma that other
  requests never take this back (`Grown`). `OneUse` is the `OneReads` of links.
- `RateLimit`. `OvershootBounded` is inductive with the types (cardinalities of the
  set of requests between check and count); `WindowNotReset` needs that the request
  about to set an expiry is alone and that no expiry is set yet (`OneStarts`).
- `AuthServer`. `ServerKeepsSessions` and `ServerKeepsCodes`: every step of the server
  is a step or a stutter of each component. The joint step `Redeem` needs an invariant
  of the one to be a step of the other: that the user in a code is a user comes from
  `AuthCodes`' invariant, and that a token's subject is one from `Sessions`'. So the
  invariants of both are carried together (`BothInv`), and everything proved of a
  component holds of the server (`ServerSessions`, `ServerCodes`). On top of it
  `OnlyEntitledTokens` takes who may have a token through every step that makes one: a refresh and a rotation copy user and
  audience (`SessionStepLike`), a redemption takes them from a code that was approved
  for that client. `SignedOutStays` is the same in one step, and `WithdrawnIsOut`
  follows the requests of the app that is gone and, with `SessionStepLike`, what
  `/refresh` makes of the tokens it has.
- `ProfilePhoto`. Pictures are kept apart because names are drawn once (`owner`):
  what a request holds was drawn for its user. `PicturesStay` needs that only an upload
  about to update, or a cleanup, removes a file, and that no row names what a cleanup
  has in hand; `LeaksHaveCauses` that every file has a row, a request or a cause.
- `Deploy`. A deployment that is alone knows that nothing but containers changed since
  it looked: what it saw running is what nginx may use, what it made is what carries
  its colour. With one container seen, the new colour is the other one. Each of these
  holds until a command fails, and the invariant says what each failure takes away: one
  of `docker ps` or `docker port` that the colour is another (`Misled`), one of
  `docker rm` only what a misled deployment relies on, one of `tee` or the reload that
  nginx has left the old container (`SwitchFailed`); the others nothing.
- `Startup`. `StartInv`: what the statements main has behind it in this pass add
  (`Behind`) is in the database, or the error of an ALTER was dropped (`PassOK`). The
  database only grows, so this survives Postgres going away between two statements;
  an error that is returned starts the pass, and what it knows, anew.
- `UserTable`. The invariant has a part for the columns, one for the ids, and one for
  their being one table. Columns: nothing writes a country over, so the stale copy a
  token is signed from has the country of the row (`SameCountry`; an account has no
  tokens before it has a row); a row that was inserted here has no NULL that is followed,
  neither in the table nor in a copy a request holds (`BornWhole`); copies and tokens
  have last names of the account's past (`NamesHad`). Ids: an id tells the millisecond
  it was drawn in (`IdsOfTimes`), because `Snowflake` is injective; two registrations
  that collide drew in the same one, however often the clock was set back between
  them. `OneTable` is what makes the joint step sound: an INSERT the ids let through
  meets no row in the columns.

Only model-checked: `BlockEnds` and `StartEnds` (liveness is out of the prover's
reach), and the violated properties, which are counterexamples.

## Not modelled, and the plan

What could still be added:

1. `OneTime`, an abstract one-time ticket that codes and links both implement while
   they are not raced for.
2. `Accounts` composed with `AuthServer`: in `Accounts` a session is a flag, which a
   reset leaves as it is.

Left out, and why:

- `/devices` stops at a failed type assertion (routes.go:936) before it reads
  anything; `blacklisted` is read and never set; `is_deleted` is never selected; the
  `op_cookie` path and `InsertToken` have no caller; `ClientsRepo.Cleanup` iterates
  over a cache nothing fills. What cannot run changes no state.
- SMTP and HTML templates, the check of an e-mail address, logging, configuration, the country table, JWKS and OpenID
  documents, key generation, image signatures: I/O, formatting and constants.
- `docker-compose.yml` and the build of the image: the workflow that deploys does not
  use the one, and the other has no state.
