# Verification of taiga-cli

TLA+ models of taiga-cli, the TLC runs that check them on small instances, and
TLAPS proofs of the results that matter most. Paths are relative to the
repository's root; line numbers are those of the modelled commit and are kept
per definition in `PROJECT.json`, under `map`.

Parse, check and prove with

    tlasany CredentialRefresh.tla
    tlc -workers 2 -config refresh_faults.cfg MCCredentialRefresh
    tlapm CredentialRefreshProofs.tla

## The system

taiga-cli is a command-line client. Each command is a process of its own that
lives for a few requests; there is no daemon. What makes it hard is that the
processes share state nobody owns: one saved login per account, a handful of
files, and records on a Taiga server other people write to.

| Component | State it keeps | Operations | What makes it correct |
|---|---|---|---|
| **Request layer** `internal/taiga/client.go` | per call: attempt, `refreshed`, `commitRisk`; on the server: what was carried out | `Get`, `GetOnce`, `Post`, `PostQuery`, `Patch`, `Delete`, `PostIdempotent`, `deleteAndVerify`, all through `doJSON` | a write happens at most once for each time it is put on the wire; a refusal means nothing was written; success is real; every call returns |
| **Credential refresh** `client.go refresh`, `cli/app.go refreshOptions`, `cli/auth.go` | the saved pair, `credentials.lock`, the pair in each process's memory, retired refresh tokens at Taiga | 401 → lock → adopt or refresh → save; login; logout | no dead token is sent or left saved; a refresh never undoes a login or a logout |
| **Credential store** `internal/credential` | OS keyring entries, `credentials.json`, the lock | `Get`, `Set`, `Delete`, `Lock` in modes auto, keyring, file, none | what is saved is found; no replaced credential comes back; other accounts are kept |
| **Atomic file replacement** `internal/atomicfile` | a path and its temporary files | `Write` | never torn; a reader finds the previous file or the new one; nothing is left behind |
| **Configuration** `internal/config`, `cli/config.go`, `cli/app.go resolveSettings` | `config.toml`, two Git-local values, the credential they lead to | load, change, save; precedence of flags, environment, Git, profile; login, logout, `project use` | a credential goes to its own site only; a save takes back nothing it did not have to |
| **Completion cache** `internal/completioncache`, `cli/completions.go` | entries with their age | `Get`, `Put`, fall back to stale values | what is offered is of the profile, site and project asked for |
| **File transfers** `taiga/transfer.go`, `attachments.go`, `project_transfer.go`, `csv.go` | a pipe, its writer goroutine, the stall timer | upload, download, import | every transfer ends; success means the whole file was sent and is kept; a refusal is heard |
| **Landing a download** `cli/attachment.go replaceLocalFile` | output path, temporary file, backup | link, or rename over | only complete bodies land; without `--force` nothing is overwritten; with it a file survives every step |
| **CSV export** `cli/csv.go` | one token per resource at Taiga | create, download, revoke | the token is revoked; concurrent exports never mix |
| **Work-item commands** `cli/task.go`, `story.go`, `issue.go`, `epic.go`, `wiki.go`, `activity.go`, … | the version read | read, resolve, rehearse, confirm, write with the version | no other person's change to a field is overwritten; what is reported is true |
| **Batch** `cli/batch.go` | the subjects read | read, confirm, one bulk request | nothing unasked; the count reported is real |
| **Administrative commands** `cli/project*.go`, `member.go`, `role.go`, `webhook.go`, `metadata.go`, `account.go`, … | which record a text denotes | find, rehearse, confirm, write | repeating what may be repeated is harmless; deletions are confirmed |
| **Error contract** `cli/errors.go` | none | error → exit code | an ambiguous write is never reported as a mere interrupt |
| **Discovery** `taiga/discovery.go` | probes tried | `conf.json` candidates, then API candidates | the first address that answers as Taiga is taken |
| Read-only commands, rendering, diagnostics, release packaging | none | | they change nothing |

They interact by calls and by shared files. A command resolves its settings
(configuration, then the credential store, without a lock), builds a client,
and makes requests; a 401 takes the request layer through a callback
(`RefreshLock`) into the store's lock and back, and a second callback
(`onRefresh`) saves the new pair. Both stores of files go through `atomicfile`.

The behaviours that are hard to test are listed with their lines in
`PROJECT.json`, under `hazards`: the orders in which two processes refresh, log
in and log out; a process that dies between the keyring and the file, or after
Taiga has retired a token; a request that arrives after the client gave it up,
or that the Transport below the client sends again; a gateway that answers while
Taiga is still at work; a body that ends early without an error; a keyring that
goes away and comes back; a profile that another command moves to another site
between two reads; an answer that comes before the file is sent; an edit in the
web interface between reading a version and sending it.

## The modules

| Module | Models |
|---|---|
| `SavedLogin`, `CredentialRefresh` | what a login is promised, and how commands that share it keep that promise |
| `RequestLayer` | one call of `doJSON` and the server it talks to |
| `CredentialStore` | the keyring and the file behind it |
| `AtomicFile` | replacing one file |
| `Settings` | `config.toml`, the Git-local mapping, who is logged in where, the completion cache |
| `Upload` | one streamed upload: caller, goroutine, transport, timer, Taiga |
| `Downloads` | commands that fetch files to one path, and the CSV token they share |
| `CommandSteps`, `TaigaEndpoints`, `WorkItemCommands`, `ProjectCommands` | every command that talks to Taiga, as the sequence of steps of its function |
| `OneChange`, `CommandRuns` | what running a command promises, and what each step does |
| `MC…` | instances for TLC |
| `…Proofs` | theorems |

`OneChange` and `SavedLogin` are abstract specifications; `CommandRuns` and
`CredentialRefresh` implement them. The others each take one component, and each
names what it takes from the ones below: `CredentialRefresh` treats the store as
one variable that is read and written in one step, which is what
`CredentialStore` is checked for; `CredentialStore` and `Settings` treat a write
of a file as one step, which is what `AtomicFile` is checked for; `RequestLayer`
treats a refresh as one step with five outcomes, which is what
`CredentialRefresh` details; a step of `CommandRuns` that talks to Taiga does
what `RequestLayer` shows a call can do.

Definitions named `X…` and commented "Mutant of `X`" are plausible bugs in `X`
(a dropped check, a missing save). They take part in no specification: putting
one in place of `X` must make TLC report the property it is paired with.

### SavedLogin

What a person is promised: an account holds at most one *session* (what one
`auth login` begins, with every pair refreshed from it), a login installs its
session once, a logout removes what is held, and nothing else changes it. A
refresh does not appear: it must be invisible.

### CredentialRefresh

Any number of processes (`Procs`), each a command that makes `Requests`
requests, a login, or a logout. Pairs are numbered in the order Taiga issues
them; `root[n]` is the login that began the session of pair `n`.

| Action | Code |
|---|---|
| `Resolve` | `resolveSettings` reads the pair without the lock |
| `Accepted`, `Rejected` | a request is answered 2xx, or 401: refresh once, if there is a refresh token |
| `Acquire` | `lockFile` |
| `FindRemoved`, `Adopt`, `MustRefresh` | under the lock the pair is read again: gone, another one, or still the refused one |
| `TaigaRefreshes`, `TaigaRefuses` | external: `auth/refresh` rotates the pair, mostly with a new refresh token, or refuses a retired one |
| `ReportRefused`, `SaveRefreshed`, `SaveFails`, `RefreshUnanswered` | the ends of `refresh`; the lock is released by its `defer` |
| `Authenticate`, `StoreLogin`, `BeginLogout`, `DeleteStored` | `login` and `authLogoutCommand`, which write under the same lock |
| `Interrupt`, `Crash`, `Expire` | the context ends; the process dies and the system releases its lock; Taiga expires an access token |

`stranded` is a history variable: the refresh tokens whose successor was lost
to a crash, an interrupt, an unanswered request or a failed save. Nothing can
be promised about those, and everything is promised about the others.

### RequestLayer

One call and the server it talks to. `call` is the wrapper; `MayCommit`,
`RetryGET` and `Attempts` are what that wrapper passes `doJSON`. `wire` holds
the request under way or its answer; a request the client gives up on stays in
`late` and may still be carried out (`LateArrival`) or not (`LateLoss`).
`executed` counts how often Taiga carried the write out.

Below `doJSON` stands the default `Transport` of net/http, external to the
repository: `Replay` sends a request without body, a GET, once more when a
connection that had been used before (`reused`) breaks before an answer, and
`doJSON` hears nothing of it. `replayed` is a history variable: how often that
happened to a write, which only the GET behind `project export` can be. So
`AtMostOnce` says once *and once more for each replay*, and `RefusedMeansUntouched`
that a refusal is true but for what the replays left. `Answer` also lets the
gateway answer 502 for a request Taiga has carried out, or still may.

`Return` is the return
of `doJSON` together with what `deleteAndVerify` makes of it. 503 and 504 are
treated as 502, which `retryableStatus` joins with them, and 500 stands for the
other 5xx; 403 and 409 are reported like 404 and 400 and left out.

### AtomicFile

Writers that replace one file. The contents of the path are named by the writer
whose data they are, and a temporary file that is not complete is `Torn`.
`survives` is what the path may hold after a power cut: nothing syncs the
directory, so the previous contents stay possible after a rename, and data that
was not synced is torn. On `platform = "windows"` a rename onto a file may be
refused, and the previous file is then removed first. A reader opens the path
in one state and reads what it opened, so it needs no actions.

### CredentialStore

Processes that run one operation after another, in a mode each, on an account
each. `Begin` chooses the operation and enters it; the steps between are the
points where another process can come in: the file is read, the keyring
answers or fails, `keyringMissing` asks whether there is one, the file is
loaded, the file is saved. `keyring` and `file` hold numbers: the n-th
credential saved is `n`, so a larger number is newer. The keyring `works`,
`refuses` (locked, or its prompt dismissed) or is provably `missing`.
`platform` decides what mode auto stands for (`autoUsesFile`). `seen` is a
history variable: what was saved while each read ran.

Which fault a behaviour may meet is chosen at the start (`faults`, from
`FaultSets`): commands that die or fail on the file between the two places, or a
keyring service that goes away and comes back.

### Settings

Processes that run one command after another: `config set` (with and without
`--local`), `project use` (likewise), `auth login`, `auth logout`, a completion,
or any command that talks to Taiga (`work`). Every read and every write of a
shared place is a step of its own, since nothing excludes another command in
between: `Load`, two `LoadGit` (or `NoRepository`: git that cannot be asked counts
as no repository, and the command goes on without what is pinned),
`ReadCredential`, then the command, then `Save`,
`KeepCredential`, `PinProfile`, `PinProject`, `PutLoad`, `PutSave`. A site has
one project, named as the site is, and a credential is named after the site that
issued it, so that something of one site found at another shows. `Stops` ends a
command anywhere: an error, an interrupt, a crash. `changed` and `overlapped`
are history variables: what others changed in the configuration since a command
read it. The clock may be set, so an entry of the cache may be of any age.

### Upload

`writer` is the goroutine of `CreateAttachment`, `pipe` the pipe between it and
the transport, `caller` the function itself: in `Do`, reading the answer, waiting
on `writeDone`. The transport, Taiga and the gateway before it are external. The
transport reads on after an early answer until it closes the pipe, so the
goroutine may end without an error although Taiga answered before the end. What
Taiga keeps (`TaigaTakes`) is a step apart from what is answered (`TaigaAnswers`):
the whole file, one that was cut short, or what it had before the end; and a
gateway's 5xx, reported as a retryable transport error (`unavailable`), may answer
for any of them. What success can mean is therefore `SuccessIsSentWhole`: the source
was read to its end without an error, all of it was given to the transport, and
Taiga kept something. `ImportProjectDump` is built the same way.

### Downloads

`attachment download` and `csv export` to one path. The steps are the ones at
which a failure, a crash or another command comes in: the look at the path, the
token, the temporary file, the download, the link or the rename, the three steps
of a rename the long way round, the revocation, and what was deferred. A
download ends in an error or in a body that ended without one. `Ended` says what
that may be: an attachment is compared with the size and the SHA-1 Taiga recorded
and is whole; a CSV is compared with nothing, and neither is an attachment of which
neither was recorded (`unrecorded`), so a body that only the end of its connection
delimits may be short. `debt` says what became of a command's own token.

### CommandSteps, TaigaEndpoints, WorkItemCommands, ProjectCommands

A command of taiga-cli is a straight line: it returns at the first step that
fails. So a command is a sequence of steps, in the order of its function, under
the function's name: check the input, connect, read a record, find one by a text,
take `--base-version`, stop at a dry run, ask for confirmation, write, look
whether what was written shows. `TaigaEndpoints` does the same for the methods of
`Client`. The kinds of writes differ in what Taiga does with them: `edit` sends
changed fields with a version, `replace` a whole value with one, `set` no version;
`ask` is a POST whose answer proves nothing until it is read back; `bulk` makes many
items, or some of them, and `enqueue` is the GET the Transport may replay. Commands
that share one function appear once.

### OneChange and CommandRuns

`OneChange` is what a caller is promised: a run changes Taiga at most once, says
so, claims no success it has no reason for, nor of a batch made in part, and owns to
what it cannot know. Two reports claim nothing: `ambiguous`, and `transport`, which
is what a 5xx is reported as even after Taiga carried the write out. Two requests
are excused, and named (`Loose`): one whose repetition is harmless
(`PostIdempotent`), and the export that may be replayed.
`CommandRuns` runs one program of `Programs` step by step over two records, with
any flags it looks at, beside somebody in the web interface (`Meddle`), with
requests that are refused, lost, or carried out late (`Arrives`), and lets the
caller run the command again where its descriptor says it may (`Repeat`). A
record has the field the command sets and another; a version for each says when
it last changed, which is what Taiga compares. `called` says whether the text
typed is a record's id, its name, or neither.

What the properties ask of a program is stated beside it, and TLC evaluates it
for every real command (`ProgramsAssumption`): the write comes after the end of a
dry run and after the questions, the one about a list on standard input among them
(`Guarantees`); after it a command only looks at
what came of it, and an answer that proves nothing is looked into last
(`WritesLast`); a command with a version sends the one it read last, or the one of
`--base-version` (`GuardsIts`). `MeansTheSame` says of a command that may be
repeated that it finds its record once, in one way, before it writes, adds
nothing, and deletes only what a text denotes alone; `MCCommandRuns` assumes it of
every such command outside `ByNumber`.

The exits of a request that was refused, or never sent (auth, forbidden, not
found, throttled, interrupted), are one report, `refused`; `transport` is its own;
`unreadable` is the exit of a command Taiga accepted and whose answer names
nothing.

## The runs

| Run | Instance | What it shows |
|---|---|---|
| `refresh_races` | 3 commands or logins, 2 requests each, one token expires; no fault; fairness | all of them succeed, with one refresh between them, and all return |
| `refresh_faults` | 3 commands, logins or logouts; crashes, interrupts, lost answers, failed saves; three tokens expire | the lock excludes, no refresh is wasted, the stored pair stays usable, and the whole implements `SavedLogin` |
| `requests` | each wrapper, 3 attempts, a gateway that may lose answers; fairness | a write at most once for each time it was put on the wire, a refusal means untouched, success is real, at most attempts + 1 requests of `doJSON`, every call returns |
| `atomic_file` | 3 writers, both platforms, I/O errors, crashes, power cuts | never torn, cleans up, and keeps a file where a rename replaces |
| `store` | 2 processes, 2 accounts, 2 saves, keyring with file and file alone; crashes and file errors, or a keyring that leaves and returns | reads are current, saves are found, other accounts are kept, the file is never the older copy, nothing old comes back |
| `settings` | 2 processes, 2 profiles, 2 sites, 3 commands out of 24 invocations | a credential goes to its site, completions are of their scope, a save takes back only what overlapped it |
| `uploads` | 3 parts, every early answer, gateway answer, break, stall and interrupt; fairness | success means sent whole and kept, refused is absent, a refusal is heard, command and goroutine end |
| `exports` | 2 commands, attachments, unrecorded ones or CSV, `--force` or not, interrupts, crashes, somebody else's file | what lands is complete, nothing is clobbered, a file survives, tokens are revoked |
| `commands` | all commands of `MCCommandRuns` with all their flags, 2 records, batches of 2, one change by somebody else, each run twice where it may be | nothing unasked, no lost update, repeats are harmless, answers are true (`OneChange`) |

Some properties deserve a word on why they could fail. `NoWastedRefresh` holds
because the store is read again *under* the lock; with the pair read before it,
two commands retire each other's token. `StoredPairUsable` holds because the
save comes before the unlock. `RefusedMeansUntouched` holds because `commitRisk`
is a property of the endpoint and not of the verb, so that a GET that enqueues
work is covered, and because it counts requests that may still arrive.
`NothingUnasked` covers deletions and what is asked about before it is made
(`batch create`, `project import`): a list on standard input needs `--yes`,
whether or not there is a terminal. `ReadsAreCurrent` relates a read without the
lock, of two places one after the other, to everything that was saved meanwhile:
what is read was current at some moment, or is newer still, where the keyring
was just written and the file not yet cleared. `CredentialGoesHome` holds
because a credential is filed under profile *and* URL, and both come from one
load of the configuration. `UploadReturns` holds for files because the transport
closes the pipe of a request it abandons, and the timer is armed before the
first byte. `OneFileSurvives` holds because the backup is removed after the
second rename. `NoLostUpdate` relates a field somebody else changed to the
version the caller was shown, across a late arrival and a second run.

### Where the code and its documentation differ

Each of these runs checks what a comment or the README says, and TLC finds a
behaviour that contradicts it. The README's wording and the code's line are in
`PROJECT.json`, under `findings`.

| Run | What happens |
|---|---|
| `refresh_bare_login` | A login with a bare access token replaces the saved pair while a command runs. The command adopts the token, keeps its own refresh token because the stored one is empty, and when the adopted token expires refreshes with the *replaced* session's token and saves the result over the login. |
| `repeat_by_number` | `metadata delete` and `wiki-link delete` take a number for an id before they look at names, `due-date delete` and `swimlane delete` take the first entry that answers to either. Described as idempotent and run again with the same number, they delete another record, whose name is that number. `ByNumber` keeps these four out of `commands`. |
| `upload_hangs` | Taiga answers before it has the file (a refusal), and the source is standard input that gives nothing more: the caller waits for the goroutine, which waits for the source, and neither the stall timer nor an interrupt reaches it. |

Met while modelling, and kept out of the properties rather than run, each in
the comment of the property named:

- A gateway answers 502 to a write Taiga carried out, or is still at, and it is
  reported as a retryable transport error, where README.md:349 says a write whose
  outcome is unknown reports `ambiguous_commit` (`client.go:536`;
  `RefusedMeansUntouched`, `RefusedIsAbsent`, `OneChange`).
- The GET that enqueues a project export goes out on a connection that was used
  before and breaks, and the Transport sends it again: two exports, though
  `GetOnce` is "a GET without automatic retries" (`client.go:196`,
  `project_transfer.go:34`; `AtMostOnce`, `RepeatsAreHarmless`).
- The body of a CSV ends early without an error, lands and is reported a success:
  there is nothing to compare its digest with, which README.md:100-102 says is
  verified (`csv.go:93`; `Complete`). An attachment of size 0 of which Taiga
  recorded no SHA-1 is compared with nothing either (`attachments.go:231-235`).
- Ctrl-C while the body of a GET arrives is reported as a transport error
  (`client.go:346`), while the same a moment earlier exits 130.
- On Windows, when a rename is refused, the previous file is removed first, and
  a reader in between finds none (`atomicfile.go:67`; `PreviousOrNew`).
- A logout while the keyring service is away succeeds, and the credential is
  found again when it returns (`store.go:144`; `SavedMeansFound`).
- A command that dies, or fails on the file, between writing the keyring and
  clearing the file leaves an older entry, which is read first (`store.go:131`;
  `FileIsNewest`).
- A server that answers "created" before it has the whole file, and keeps what it
  has, is believed when the transport still took the rest
  (`attachments.go:142-157`; `SuccessIsSentWhole`).
- `csv export` replaces, and then removes, the CSV link the project already had,
  and the token of an export under way; that one fails, and keeps no part.
- `project use` may write the project of the old site into a profile that was
  moved meanwhile; a login to another site keeps the profile's old project.
- `project export` and `project import` report a validation error (exit 7) when
  Taiga accepted the request and its answer names nothing.
- `epic edit`, `epic close` and `wiki edit` take a negative `--base-version` for
  none given; the other edits reject it.
- A body read from standard input stops at 4 MiB without a word (`body.go:43`).

`CredentialRefresh` also allows a running command to adopt the pair of a login
made meanwhile, of another person perhaps: `refresh` compares access tokens
only. And `FileIsNewest` fails when commands mix `--credential-store` values,
because mode keyring never looks at the file: this is the hypothesis `Uniform` of
three theorems. No run keeps these two; they are in the hazards.

### Bounds, and why they are enough

- *Three processes* in `CredentialRefresh`: one that refreshes, one that waits
  for it, and one that logs in or out while they do. The proofs take any number.
- *Two requests* per command: the second is where an adopted pair expires again.
- *Expiring tokens* (`Expiring`): in `refresh_races` only the first, so that the
  races are about one expiry; in `refresh_faults` the first three.
- *Three attempts* is the code's own `maxRetries`.
- *Two processes and two accounts* in `CredentialStore`: the lock leaves at most
  one writer, so a reader or the next writer is the only other party, and one
  other account shows what is lost. `MaxSaves` is 2: an old credential and the
  one that replaces it. The proofs take any number of each.
- *Three writers* in `AtomicFile`: a rename, one refused because of it, and a
  third between a removal and the second rename.
- *Three commands* in `Settings` (`MaxCommands`), in two processes: one that
  reads, one that saves in between, and one that uses what is left. With two
  profiles and two sites each can be at the other's.
- *Three parts* in `Upload`: a first, one in the middle, and the end.
- *Two commands* in `Downloads`: the path and the token are each one place, and
  whoever else is there is `User`. The proofs take any number.
- *Two records, one change by somebody else, two runs* in `CommandRuns`: a text
  denotes one, the other or both; a version is stale after one change; a repeat
  that harms does so the second time. The proofs take any number of changes and
  any programs of the form.

- *Batches of two* (`BatchSize`): all made, or some. The proofs take any size.
- *One request given up on per command* in `CommandRuns` (`late` holds one): a
  command writes once a run. `RequestLayer`, in which one call may leave several,
  counts them.

Nothing in the code depends on the number of processes, writers or accounts.
Symmetry is used in the runs that state no liveness: processes are
interchangeable, and so are the accounts.

### Fairness

`CredentialRefresh!FairSpec` has weak fairness of each process's own steps.
The operating system schedules every process, each HTTP attempt is cut off by
`requestTimeout`, so a request under way is answered or fails, and `lockFile`
polls. The lock has no queue: a process waiting while others take it in turn is
not protected by weak fairness as such, but each command takes it at most once
per request, so the others run out of reasons to. Expiry, faults and interrupts
have no fairness. `RequestLayer!FairSpec` has weak fairness of the client's
steps only: an attempt ends by its own timeout whatever the network does, and a
wait by its timer. `Upload` has weak fairness of the goroutine's write to a
pipe that is closed, the caller, the transport that closes it, the timer, and the
end of a request whose context ended; nothing is assumed of Taiga, of the operator,
or of a network that takes the parts.
`Spec` adds that a file gives its next part or an error; `AnySourceSpec` does
not, and is what `upload_hangs` uses.

## What is proved

TLAPS checks these for every value of the constants.

| Theorem | Module | From |
|---|---|---|
| `TypeCorrect`: `Spec => []TypeOK` | `CredentialRefreshProofs` | `ConstantsAssumption` |
| `LockMutualExclusion`: `Spec => []LockExcludes` | `CredentialRefreshProofs` | `ConstantsAssumption` |
| `StoredPairStaysUsable`: `Spec => []StoredPairUsable` | `CredentialRefreshProofs` | and `BareLogins = FALSE` |
| `NoRefreshIsWasted`: `Spec => []NoWastedRefresh` | `CredentialRefreshProofs` | and `BareLogins = FALSE` |
| `RefreshIsInvisibleOutside`: `Spec => RefreshIsInvisible` | `CredentialRefreshProofs` | and `BareLogins = FALSE` |
| `EachExpiryRefreshedOnce`: `Spec => []OneRefreshPerExpiry` | `CredentialRefreshProofs` | and `Faults = {}` |
| `NobodyIsStranded`: `Spec => []NoCommandIsStranded` | `CredentialRefreshProofs` | and `Faults = {}`, `BareLogins = FALSE`, no logout, one pair that expires |
| `StoreTypeCorrect`: `Spec => []TypeOK` | `CredentialStoreProofs` | `StoreAssumption` |
| `OtherAccountsAreKept`: `Spec => OthersKept` | `CredentialStoreProofs` | `StoreAssumption` |
| `WhatIsSavedIsFound`: `Spec => SavedMeansFound` | `CredentialStoreProofs` | `StoreAssumption` |
| `NoOldCredentialReturns`: `NothingOldComesBack` | `CredentialStoreProofs` | and `Uniform` |
| `TheFileIsNewest`: `[]FileIsNewest` | `CredentialStoreProofs` | and `Uniform` |
| `ReadersAreCurrent`: `ReadsAreCurrent` | `CredentialStoreProofs` | and `Uniform` |
| `NoReaderSeesATornFile`: `Spec => []NeverTorn` | `AtomicFileProofs` | `FileAssumption` |
| `WriteCleansUp`: `Spec => []CleansUp` | `AtomicFileProofs` | `FileAssumption` |
| `PathKeepsAFile`: `Spec => PreviousOrNew` | `AtomicFileProofs` | `FileAssumption` |
| `RequestTypeCorrect`, `WritesHappenOnce`, `RefusalsAreFinal`, `SuccessesAreReal`, `RequestsAreBounded` | `RequestLayerProofs` | `RequestAssumption` |
| `UploadTypeCorrect`, `UploadSuccessIsSentWhole`, `UploadRefusedIsAbsent`, `UploadRefusalIsHeard` | `UploadProofs` | `PartsAssumption`; for `AnySourceSpec` |
| `DownloadsTypeCorrect`, `WhatLandsIsComplete`, `NoTokenIsLeft`, `NothingIsClobbered`, `AFileSurvives` | `DownloadsProofs` | `OwnersAssumption` |
| `SavedCredentialGoesHome`, `OnlyOverlapsAreTakenBack`, `OfferedIsOfItsScope` | `SettingsProofs` | `SettingsAssumption` |
| `CommandsTypeCorrect`: `Spec => []TypeOK` | `CommandRunsProofs` | `ProgramsAssumption` |
| `NothingIsChangedUnasked`: `Spec => NothingUnasked` | `CommandRunsProofs` | `ProgramsAssumption` |
| `NobodysChangeIsLost`: `Spec => NoLostUpdate` | `CommandRunsProofs` | `ProgramsAssumption` |
| `AnswersAreTrueOfEveryCommand`: `Spec => AnswersAreTrue` | `CommandRunsProofs` | `ProgramsAssumption` |
| `RunAgainChangesNothing`: `Spec => RepeatsAreHarmless` | `CommandRunsProofs` | and `RepeatablesMeanTheSame` |

**Credential refresh.** `LockExcludes` is inductive together with the types:
every action that enters or leaves the locked states takes or releases the
lock. `StoredPairUsable` and `NoWastedRefresh` are not inductive: a pair held in
memory may be old, so nothing about the store follows from it. The invariant
that carries the proof says what ties them together: a command that is about to
send a refresh token, or has its answer, holds exactly the stored pair; a pair
that an answer carries is issued, not spent, and belongs to the session of the
pair it came from; a token is retired only when a successor was stored, is in
the hand of the lock's holder, or was lost. The refinement needs the same facts
for `SaveRefreshed`, which must not change the session that is saved, and
`FindRemoved` for a logout. `BareLogins = FALSE` is a real restriction, not a
convenience: `refresh_bare_login` is the behaviour it excludes.

`OneRefreshPerExpiry` counts, so its invariant (`OnceInv`) names a set: some of the
expired pairs, at least as many as there were refreshes, were each exchanged for
another; none of those is stored any more unless its successor is in hand, and no
answer in hand carries one or repeats another's. A refresh adds the pair it spends
to the set. It needs `Faults = {}`, because a lost answer costs a refresh and gives
nothing for it. `NoCommandIsStranded` needs on top of the safety invariant that no
refresh token is ever lost and that a command that sends a second time sends with
a pair that has not expired (`CalmInv`); with a logout, or a second expiry during
the resend, a command may rightly end without a login.

**Credential store.** The lock is held by exactly whoever writes (`Locked`). A
writer's locals agree with the two places, since nobody else writes meanwhile
(`Locals`): on the keyring it is about to write the value; on the file either it
still is, or the keyring has the value and the file's entry is to go. `Older` says
nothing is newer than the last credential saved, and everything is older until it
is written; `Newest` that the file is the newer place, but for an account whose
entry is about to be taken out. A reader has no lock, so `Seen` and `Reads` follow
it: what is saved now is among what it has seen, and one that went past the file
will find in the keyring something it has seen or something newer. Three of
the theorems need `Uniform`, that the commands of a user which keep credentials
keep them in the same places, because without it they are false: a command with
`--credential-store keyring` writes past the file, and one in mode auto then reads
the file's older entry. Mode none, which keeps nothing, may be mixed in.
The other three need no such hypothesis.

**Atomic file.** The invariant `FileInv` says that from the write on the
temporary file is complete, from the sync on it is on the disk, that no writer's
data is at the path before its own rename, and that only Windows removes.

**Request layer.** `AtMostOnce` is not inductive: a request given up on may
still arrive. `OnceInv` counts what was carried out together with what is on the
wire and what is late, and says that a write that may be committed is not sent
again, unless `replayed` counts it; `GoneInv` does the same for the read that
judges a deletion, and `CountInv` counts attempts and the one resend after a
refresh.

**Upload.** The invariant ties the pipe to the writer and the store to the
answer: the writer is done, and the pipe ended, only with every part sent, so that
nothing cut short is ever stored as a file that ended; Taiga's own answers, unlike
the gateway's, are true of what it stored; and success is reported only of one that
says created and of a writer that is done.

**Downloads.** A command's own temporary file is from the download on a body that
ended (`Ended`), its token is owed from the creation to a revocation, and whoever
else is at the path or in a backup put a complete file there.

**Settings.** What is saved for an account is of that account's site; the
credential a command holds was read for the profile and URL it resolved; and what
a command loaded differs from the configuration only where it was told so, which
is the heart of `OnlyOverlapsAreLost`. `CompletionsOfTheirScope` needs a second
invariant beside that one: while nothing changes, the two times a completion
resolves its settings give the same, so every entry, cached, loaded or at hand,
has the key of the settings it was fetched with, or is marked `overlapped`. Git that
could not be asked is to the command a change like any other.

**Commands.** Everything is proved for any set of programs of the form
`ProgramsAssumption` states, with any number of changes by somebody else. For
`NothingUnasked` the invariant says a dry run never passes its step, a question
passed was answered, the one about piped data by `--yes`, and a late request
came from a command that was allowed to write. For `NoLostUpdate` (`GuardInv`) a
versioned command, and its late request, are about the one record and name a
version the caller was shown; without `--base-version` that is no newer than
Taiga's, so Taiga refuses it once somebody has changed the field.
`AnswersAreTrue` is a refinement, and each action is shown to be a step of
`OneChange` or a stutter. Its invariant (`SendInv`) says what a run has done by
how far it got: one that changed Taiga has passed its write, one past a write
whose answer proves something has changed Taiga, and a first run leaves something
to arrive only where it ended without the change or is excused. A batch succeeds
only by its count.

`RepeatsAreHarmless` leaves out the export, which one run may have carried out twice,
and needs that a text goes on denoting the same record. `RepeatInv`
says the record in hand, and the one of the late request, is the one the text still
denotes, or, for a deletion, that no other is left to delete; and once the change
is in, that record is as wanted. It is false of the four commands in `ByNumber`,
whose text denotes another record after the first is gone, and `MeansTheSame` is
what sets the others apart: the theorem assumes it of them, and TLC evaluates that
for the real programs.

**Only model-checked.** The liveness properties `EveryCommandReturns`,
`CallReturns` and `UploadReturns`: the prover does not handle fairness and
`ENABLED`. Every safety property of a run that passes has a theorem.

## Not modelled

- API discovery: a sequence of probes that keeps no state between them; which
  answer is taken is a comparison of what was served.
- Rendering, JSON Schema descriptors beyond their safety and idempotency, and
  messages: no state. The order in which `classifyError` looks at a chain is
  represented only by the reports it leads to.
- `doctor` and the diagnostic bundle: independent reads. `doctor bundle` puts a
  local file in place the way `replaceLocalFile` does.
- Release packaging: one sequential process.
- Locks on the platforms of `lock_other.go`, which exclude nobody and which the
  file says the program is not built for.
- A pair pasted to `auth login --with-token` that is in use elsewhere, a browser say:
  `Authenticate` begins a session of its own. What another user of the same pair
  does to it is as much out of the program's hands as an expiry at Taiga.
- Flags and fields a property does not tell apart: `--project`, `--quiet`,
  pagination, the limits on subjects, bodies and files (each a check that may
  fail).

## Plan

Done: every component that keeps state or changes Taiga. What would add most
from here:

1. That `CredentialStore` implements the one-step store of `CredentialRefresh`:
   what is proved of it is what that module takes for granted, property by
   property, and not yet as one refinement.
2. `Settings` composed with `CredentialRefresh`: a running command that adopts
   the pair of a login made meanwhile.
3. `classifyError` over the chains the components produce.
