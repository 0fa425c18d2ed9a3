# TLA+ models of rust-pois

rust-pois is a POIS (Placement Opportunity Information System): an HTTP server
that takes ESAM signal-processing requests, decides by the rules of a channel what
to do with each signal, conditions the SCTE-35 cue accordingly, answers with an
ESAM notification and logs the event. Around that path sit an administration API
(channels, rules, templates, groups, users, tokens), an optional signature layer
(SESAME) and browser pages. Everything is one tokio process over one SQLite
database reached through a connection pool.

This directory models the parts whose correctness depends on the order in which
things happen, checks them with TLC, and proves the central results with TLAPS.

    tlc -workers 2 -config EsamLifecycle.cfg MCEsamServer.tla
    tlapm EsamServerProofs.tla

PROJECT.json lists the components, the runs, for each property a mutant of a
definition that breaks it, the source lines each definition stands for, the
findings, the hazards and the theorems.

## 1. Inventory

| Component | Source | State it keeps | Operations |
|---|---|---|---|
| ESAM signal path | `src/main.rs` `handle_esam*` | per request: channel name, facts, SESAME tier and scope, channel row, rule chosen | verify, parse, look up the channel, apply its SESAME policy, read its rules, decide, log, answer |
| Channel administration | `src/main.rs` | table `channels` | create, update (rename, enable), soft-delete |
| Rule administration | `src/main.rs` | table `rules` | create (at a priority or appended), update, soft-delete, reorder |
| Start-up | `src/main.rs` `seed_default_channel_and_rule` | tables `channels`, `rules` | purge a soft-deleted default channel, create it, create its rule |
| Event log | `src/event_logging.rs` | table `esam_events` | insert, query within a read scope, statistics |
| Groups and sharing | `src/rbac.rs` | tables `groups`, `group_members`, `channel_groups`, `project_groups`, `template_groups` | resolve an identity, test read and write, publish to groups, group and membership handlers |
| Rule matching | `src/rules.rs` | none | match facts against conditions, glob |
| Decision conditioning | `src/main.rs` `apply_action`, `src/tools_api.rs` | none | build, pass through or edit a cue in place |
| SCTE-35 encoder and two decoders | `src/scte35.rs`, `src/esam.rs`, `src/tools_api.rs` | none | build sections, decode them for rules and for the tools page, parse and build ESAM XML |
| SESAME verification | `src/sesame_axum.rs` and an external crate | keys, replay cache (in memory) | verify a request, sign a response |
| Accounts | `src/auth_handlers.rs`, `src/jwt_auth.rs`, `src/password_change.rs` | tables `users`, `api_tokens` | log in, refresh, tokens, users, forced password change |
| Templates and projects | `src/template_library.rs` | tables `projects`, `templates` | create, file, share, apply to channels |
| Backup | `src/backup.rs` | none | export |
| Tools, pages, scripts | `src/tools_api.rs`, `static/`, `*.sh` | none | stateless helpers, browser code, installation |

**Interactions.** Handlers share nothing but the database (and SESAME's replay
cache). A handler runs as one tokio task and gives up control at every `.await`,
which is at every SQL statement; statements run on different pool connections and
only `reorder_rules` uses a transaction. So one statement is atomic, anything may
happen between two, and a client that closes its connection makes the runtime drop
the handler at the statement it is waiting for. Deletion from the API is soft
(`deleted_at`); only the start-up deletes rows, and foreign keys cascade or refuse.

**Hard behaviours, and what correctness means.**

* *ESAM path.* Between the look-up of a channel, the read of its rules and the
  INSERT of the event, any row may be disabled, renamed or deleted. The log must
  tell what was answered; what was deleted before a request arrived must not answer
  it; every request must be answered, whatever statement fails.
* *Start-up.* It may crash between any two of its statements and run again. It must
  leave a default channel and break no reference.
* *Rules.* An appended rule's priority is computed from an earlier read; a reorder
  list is trusted beyond its first element.
* *Sharing.* An identity is resolved once and used later; a permission is checked by
  two statements and used by a third; re-publication is a DELETE followed by
  INSERTs. Every write must trace back to a permission held, concurrent saves must
  not lose what they agree on, and a caller must not touch links out of its reach.
  Who may read is written three times and must agree.
* *Matching.* The glob matcher is greedy; it must accept what backtracking accepts.
* *Accounts.* A JWT carries the role its user had when it was signed, up to a year
  ago; the user is looked up by one statement and changed by another. No sequence of
  legal calls may lock the bootstrap admin out, let a stale identity change a user it
  never had authority over, or leave rows behind for a deleted user.
* *Templates.* Filing, publishing, applying and unfiling are series of statements
  without a transaction. A channel made from a template must be whole or reported, a
  free name must be free, what is filed in a deleted project must be traceable.
* *Conditioning.* Cues are edited in place by offsets that two parsers compute, with
  lengths of 8, 10 and 12 bits and durations of 33 and 40 bits. An edit must change what
  the rule names and nothing else, or leave the cue as it was. Some texts and some sections
  that are cut short make the code panic, which ends the request without an answer.
* *SESAME.* A replay cache lost on restart, a response that cannot be signed. Not
  modelled (section 6).

## 2. Modules

| Module | What it is |
|---|---|
| `EsamServer` | the signal path, channel and rule administration, start-up |
| `MCEsamServer` | finite instances of it |
| `EsamServerProofs` | the type invariant, the inductive invariant, the safety theorems and that it implements `AnswerService`, proved |
| `AnswerService` | abstract: what the signal path promises to those who ask it and those who read its log |
| `Sharing` | groups, memberships, links and the channel handlers' authority |
| `MCSharing` | finite instances of it |
| `SharingProofs` | its type invariant, both invariants and both action properties, proved |
| `GlobMatch` | `glob_match` of `rules.rs`, turn by turn of its loop |
| `GlobMatchProofs` | that it decides what a glob means and never slices out of bounds, proved |
| `RuleMatching` | `rule_matches` and `eval`, which call it |
| `MCRuleMatching` | short patterns and texts, windows, rules of a few conditions |
| `RuleMatchingProofs` | that a rule fires as its documentation says, proved |
| `Accounts` | users, sessions, API tokens, the middleware |
| `MCAccounts` | finite instances of it |
| `AccountsProofs` | its type invariant, three safety invariants and its authority property, proved |
| `Templates` | projects, templates, the channels made from them |
| `MCTemplates` | finite instances of it |
| `TemplatesProofs` | its type invariant, three invariants and both action properties, proved |
| `CueSection` | SCTE-35 sections: the encoder, the edits in place, both decoders |
| `Conditioning` | `apply_action`: what a rule's action makes of a cue, for cues that pass several servers |
| `CueContract` | abstract: what conditioning promises, with no word about bytes |
| `MCConditioning` | incoming cues and rules |
| `CueProofs` | what both decoders read in the section of a cue, and of which cue an edit of it makes the section, proved |
| `ConditioningProofs` | its type invariant, where a cue can be lost, that the decoders agree and that it implements `CueContract`, proved |

`EsamServer` and `Sharing` divide the channel handlers between them. `EsamServer`
has what they do to names, `enabled` and deletion, called by someone entitled to it;
`Sharing` has who is entitled and what they do to `owner_user_id`, `is_global` and
the links. Neither half reads a column of the other: the ESAM path does not look at
owners or groups, and the predicates of `rbac.rs` do not look at names or rules.
They meet in `deleted_at`, which both have. `Accounts` says who is admin and who is
member of a group, as far as tokens and users go, and `Templates` takes both as free
choices at the start of each call, as `Sharing` does not have to. `RuleMatching` and
`Conditioning` are the two computations inside one step of `EsamServer` (the choice of a
rule, the answer), which takes their outcomes as constants of rules; they touch no table.

### EsamServer

| Variable | In the code |
|---|---|
| `chan`, `rule`, `events` | the tables. `st` is `"none"` (no row), `"live"`, or `"deleted"` (`deleted_at` set) |
| `req` | a request in `handle_esam_impl`: `pc` names the statement it runs next, the other fields are its local variables. `goneRules`, `goneChans` are history |
| `adm` | `create_rule` or `reorder_rules` between two statements |
| `server` | start-up not begun, before each of its statements, serving, or ended by an error |

Each action is the code from one SQL statement to the next:

* `BootPurge`, `BootChannel`, `BootRule`: the three steps of
  `seed_default_channel_and_rule`. The check for the channel and the INSERT are
  one action since nothing else runs before the server listens. `BootPurge` follows
  the foreign keys: rules go with their channel, an event that refers to one of them
  (no ON DELETE clause) makes the statement fail, and `main` return.
* `EsamRejected`, `EsamUnparseable`, `EsamArrive`: what happens before the first
  statement. `EsamLookup`: the channel and its SESAME policy. `EsamReadRules`: the
  SELECT and the choice of a rule. `EsamLog`: the INSERT, then the answer.
  `EsamDropped`: the client goes away.
* `CreateChannel`, `UpdateChannel`, `DeleteChannel`, `UpdateRule`, `DeleteRule`: one
  statement that changes something. `CreateRuleRead` and `CreateRuleInsert` or
  `CreateRuleAppend`; `ReorderCheck` and `ReorderCommit`: two.
  `OperatorSetsTier` is external: no handler writes `sesame_min_tier`.
* `Crash`: the process dies; tables stay, requests in flight are lost.

Abstractions. What a rule can tell apart in a request is one member of `Signals`, a
rule is the set of those it matches. An event keeps the columns that say who, by
which rule, with which action and status. Row identifiers name rows. The edit of the
cue is not part of this model: it changes no state and refuses nothing. Where it panics
(below, `Conditioning`), the handler ends between the SELECT of the rules and the INSERT of
the event, with neither an event nor an answer, which is a step of `EsamDropped`.

`AnswerService` is the abstract specification. It has the two tables, the log, and for
each request where it is and what is decided of it; it knows no start-up, no handler of
administration and none of their statements. Its tables are somebody else's and change in
any way (`Administer`), as long as no row disappears that the log or a request in flight may
refer to and none comes back from deletion under a request. Whatever they do, a request is
routed by one state of the channels (`Route`, `TurnAway`, `NotFound`), decided by one later
state of the rules (`Decide`: of the rules that speak to the signal one of the smallest
priority, or none if none does), and its entry in the log, if it gets one, is that decision
(`Answer`). `Service` in `EsamServer` is `INSTANCE AnswerService WITH` the same tables and
log and with `Asked`, which renames a request's `pc` to its phase and drops its history;
`DecidesAtOnce` is `Service!Spec`. `Crash` and `EsamDropped` are its `Lose`; the start-up and
every administration statement are its `Administer`, or a stutter. The service picks no rule
among several of one priority: `ORDER BY priority` leaves that open.

### Sharing

| Variable | In the code |
|---|---|
| `group`, `role`, `chan`, `links` | the tables |
| `save` | a call of a channel handler: what was sent, the identity `effective()` resolved at its start (`memberOf`, `adminOf`), and the links it has still to insert |
| `gcall` | a call of a group or membership handler |
| `past` | history: every admin and every link there ever was, and the links and groups at the start |

`Begin` is `effective()` and the decisions taken on it; `CanWriteOwner` and
`CanWriteLinks` are the two statements of `can_write`; `CreateRow`, `UpdateRow`,
`ShareRow`, `DeleteRow` the handlers' own statement; `Clear` the DELETE of
`set_groups_scoped` and `Insert` one INSERT of `link_groups`. `Dropped` stops a
handler anywhere. Errors the code ignores (`let _ =`) are ignored: `update_channel`
re-publishes even when its UPDATE failed, and a link to a group that does not exist
is skipped. With `Faulty` any statement on a link table may fail. Projects and
templates share through the same functions with other table names.

### GlobMatch

`parts` is what `pat.split('*')` returns, `i` the part the loop is at (from 1), `pos` the
consumed length of `text`, `verdict` what has been returned. `Literal` is the equality
test of a pattern without `*`; `Skip`, `Anchored`, `Final` and `Interior` are the four
branches of the loop's body, `Exhausted` its end. `str::starts_with`, `ends_with` and
`find` are stated by what they return. Texts are bytes: a match of a whole UTF-8 string
in another begins and ends at character boundaries, so the slices of the code are legal
whenever `pos` is in the text, which is what `TypeOK` says of it.

### RuleMatching

| Variable | In the code |
|---|---|
| `match`, `facts` | the arguments of `rule_matches` |
| `clause`, `here` | the clause and the condition it is at; `anyOk` is `any_ok` |
| `calling` | `eval` is inside `glob_match`, whose variables are those of `GlobMatch` |
| `result` | what is returned |

`CatchAll` is the early return; `CallGlob`, `GlobStep` and `GlobReturns` a condition on the
signal id or the UPID, `Compare` any other, `ListEnds` a clause that is absent, empty or
gone through. `Decided` has the short circuits of `any` and `all`, `Ends` the rule that a
clause counts only when it is present. A name is compared without its case, so it is a
name and a case; a time is one cell for the second, whose text has a fixed width, and the
characters behind it, of which `Tilde` sorts after all. `RuleMatchingAssumption` says of the
constants what the deserialiser and the page produce: lists of conditions on known fields,
times in UTC as ISO 8601 with any number of digits behind the second.

### Accounts

| Variable | In the code |
|---|---|
| `user`, `token`, `member` | tables `users`, `api_tokens`, `group_members` |
| `owners` | users that an `owner_user_id` somewhere refers to |
| `sessions`, `apis` | the JWTs that are out: their claims never change and nothing recalls them |
| `call` | a request: `pc` is the statement it runs next, the rest its claims and what it has read |
| `past` | history: who ever was a super-admin, a group admin, a member |

`Arrive`, `Validate` and `Revalidate` are the middleware and `extract_claims`, which looks
the user up again; `LoginRead`/`LoginSign`, `TokenRead`/`TokenInsert`/`TokenSign`,
`RevokeCheck`/`Revoke` the handlers statement by statement; `Identify`, `ReadVisible`, then
`CreateUser`/`JoinGroup`, `UpdateUser` and `DeleteUser` those that manage users;
`ChangePassword` the one transaction. `DeleteUser` follows the foreign keys: tokens and
memberships go, an owned row makes the statement fail. `SetMember` and `OwnRow` stand for
the handlers elsewhere that bear on users, `Refused` for every error, dropped connection,
crash and expired JWT. Passwords are values without a hash. Start-up's seeding of the
first admin is in `Init`; ids come from AUTOINCREMENT and are not used twice.

### Templates

| Variable | In the code |
|---|---|
| `row` | tables `projects`, `templates`, `channels`, and the rules of each channel |
| `links` | tables `project_groups`, `template_groups`, `channel_groups` |
| `call` | a request: `pc`, the checks it has yet to pass (`todo`), its list (`queue`), its name search (`base`, `tries`), the rules and groups still to insert |
| `past` | history: links, org-wide rows, filings, unfiled projects, where a channel came from |

Every handler is `Begin` (`effective()`), `Look` (its SELECT), `CheckRow`/`CheckLinks` once
for every row it must be able to read or write, then its own statements: `CreateProject`,
`UpdateProject`, `DeleteProject`/`Unfile`; `ReadRules`/`InsertTemplate`;
`ReadCurrent`/`UpdateTemplate`; `DeleteTemplate`; `ReadMembers`, `ApplyRule`, `ApplyChannel`,
`FindName` (one SELECT of `unique_channel_name`), `MakeChannel`, `Fill` (one rule each).
The code takes a SELECT of `unique_channel_name` that fails for one that found nothing, and
after `MaxTries` names that are taken it takes the next one unseen: `FindName` may settle on
a name either way, and `checked` says whether the name was looked up and found free.
`Clear`, `Link` and `Inherit` publish. `ItemFails` is `apply_project` going on after a
template that failed. `ChannelWrite` is any statement of another handler on channels. A
body of a template is the set of rules it has and the name of its channel.

### CueSection, Conditioning and CueContract

A section is a header, a body and a CRC. The body is a sequence of *cells*, each a natural
number: a byte where the code can read it as a length, a flag or a byte of a UPID, and a
whole field where it never does (an identifier with its event id, a PTS, a duration, a
component, the program ids). Lengths count cells. So every offset the code computes is an
offset in the model, and a wrong flag, length or width lands on a wrong cell. The CRC is
the content it was computed over. A section may be cut short, but between two cells. `BuildSection` and its parts are `scte35.rs`;
`ParseCommand`, `ParseDescriptors` and `Decode` the decoder of `tools_api.rs`, with which
edits find their way; `RewriteUpid`, `RewriteDelivery`, `RewriteBreak` and `AdjustBreak` the
edits; `FactsOf` the decoder of `esam.rs`. The two duration edits share `MapDurations`.

What the code does where a section is cut short or a text is odd is in the model too:

* `LocateBreakDuration` does not test that the duration lies in the bytes. If the section
  ends in front of it, the edit writes over the CRC, which is then computed anew, and
  changes nothing else; if it ends before that, the edit indexes behind the bytes and panics
  (`Panicked`). On its way the walk may read the four bytes of the CRC as flags, components
  and times; they can be anything, so it has a set of outcomes.
* `hex_decode` slices a text every two bytes and panics where that cuts a character. A UPID
  value has the set of types for which it does (`splits`): `UpidPanics`, and from it
  `BuildPanics` for a cue that a rule builds and `RewritePanics` for an edit, whose walk may
  end before it comes to the UPID.
* `ParseDescriptor` reads a DTMF descriptor as two bytes and as many characters as the
  second one counts, whatever its length says, and so may end up inside the next one; a
  segmentation descriptor too short for its event id it skips. `ReadFacts` does neither.

`Encode` is external: it is the SCTE-35 format as
encoders write it, and only gives the incoming cues and decides whether a section is sound.

`Conditioning` has one action per branch of `apply_action` and `Fallback` when no rule
matched. `signal` is the event of the next server and the answer of the last: a
cue passes up to `MaxHops` servers, so edits are applied to what edits have made. A signal is
a section as base64, or as hex (which stands for every other spelling that
`scte35_input_to_bytes` reads and `esam.rs` does not), or `junk`, which neither reads, or
`split`, a hex text whose reading panics, or none. `Put` is an assignment to
`p["scte35_b64"]`, which panics when the parameters of the rule are neither an object nor
null. Nothing catches a panic: the answer is `NoAnswer`, and there the signal ends. `cue` and
`order` say in the terms of `CueContract` what is in `signal` and what the last rule asked.

`CueContract` is the abstract specification: a cue is a command and a list of descriptors
as records, an action changes a field of them (`WithUpid`, `WithLimits`, `WithDurations`,
`BuiltCue`), and there are no offsets, cells or CRCs in it. `Contract` in `Conditioning` is
`INSTANCE CueContract WITH` the cues and orders as the decoder page shows them, and
`KeepsContract` is `Contract!Spec`: every step on bytes is a step of the contract.
`CueOf` reads a signal in those terms. A section is *sound* when it is the `Encode` of the
cue that the decoder shows; then it is that cue, and otherwise `Garbled`, since there is more
or less in it than was read; a DTMF descriptor that overruns its length and a segmentation
descriptor too short for its event id make a section garbled. A signal that is no section is
`Opaque`, no answer is `Unanswered`. Of a command that the
decoder does not know (a private one) no layout is known, so such a cue is its flag of
encryption and its cells.

`Answers` says which cues may answer a cue; it is a relation, since not everything is
promised. What is promised: of a cue that can be edited, `Edited`; of an encrypted or opaque
one, itself; of a rule that replaces, what it `Carries`, a built cue that has room for its
descriptor, or the one written out; of a rule whose cue has a UPID that panics
(`BuildPanics`), or that would put a payload into parameters that are no object,
`Unanswered`. An edit whose UPID panics (`UpidPanics`) answers `Unanswered` or, if it failed
before it came to it, the cue as it was. What is not: anything of a garbled cue that is edited;
the cells of a private command that is edited, in which `locate_descriptor_loop` takes what
follows the command type for the loop and may write a UPID or limits inside the command, so
that only the command stays private; that the edit of an opaque payload or of the durations
of a garbled cue is answered; the descriptors of a built cue whose UPID is too long
for its length.

## 3. Runs

| Run | Shows |
|---|---|
| `EsamLifecycle` | two channels, two names, two rules, two crashes: `TypeOK`, `NoDanglingReferences`, `DeletedNeverServes`, `BootServesDefault` |
| `EsamRules` | one channel, two rules with priorities and actions, one administrator, failing look-ups: `AuditTrail`, and that `AnswerService` is implemented, `DecidesAtOnce` |
| `EsamAnswers` | SESAME on, every statement may fail, one crash, under fairness: `RequestsAnswered` |
| `SharingSaves` | two concurrent calls of any channel handler by a super-admin or a user: `SettledLinks` |
| `SharingAuthority` | one channel call against one group call, statements failing: `TypeOK`, `ReadScopesAgree`, `AuthorizedWrites`, `GlobalBySuper` |
| `RuleMatching` | every pattern of up to three short parts or five single bytes on every short text, every window, rules of up to three conditions: `TypeOK`, `GreedyIsExact`, `RulesMean` |
| `AccountsRoles` | two concurrent calls of any handler, three users, JWTs of any age: `TypeOK`, `NoOrphans`, `FirstAdminStays`, `ForcedChange`, `UserWritesAuthorized` |
| `TemplatesLibrary` | two concurrent calls of any handler, a project, two templates, three channels: `TypeOK`, `NameFreeWhenFound`, `AppliedWhole`, `StraysTraced`, `WritesTraced`, `LinksInReach` |
| `Cue` | every command with every list of up to two descriptors, and cues misread, cut short, private or none, conditioned twice by every kind of rule, some of which panic: `TypeOK`, `DecodersAgree`, `DroppedOnlyByPanic`, `KeepsContract` |

**Bounds.** Two channels and two names are what a rename, the reuse of a freed name
and the UNIQUE constraint need; two rules are what a tie, a reorder and a choice
need; two crashes let a crash interrupt the recovery from a crash. One request per
instance is enough for the safety properties since requests share nothing but the
tables, which administration changes freely meanwhile; the proofs are for any number.
`MaxPriority`, `MaxReorder` and `MaxRestarts` bound what would grow for ever, and
appear in guards only (`InsertRule`, `ReorderLists`, `Crash`). Identifiers are
interchangeable, hence `SYMMETRY` in safety runs; `EsamAnswers` has none.
In `Sharing` every call is made at most once: two calls interleave in every way, and
the initial states are all databases with these rows, so a longer history adds no
new start. Two groups let a call reach one and not the other. `Users` has one
super-admin and one user, whose roles, ownership and reach are left open.
`RuleMatching` takes all patterns of up to three parts of at most two bytes (which may
overlap in a text and with themselves) and of up to five parts of at most one byte, on
texts of at most four bytes, over two letters: the greedy choice goes wrong, if at all, by
taking a place that a later part needs, for which two interior parts and an anchored one
suffice. Windows have every form of a bound (absent, blank, each of three seconds written
with up to four digits); a rule has a clause of up to two conditions and one of up to one.
In `Accounts` the third user is the one to be created; ids of users and tokens overlap,
which the code's look-up of a revoked token depends on. `AccountsRoles` has `Faulty =
FALSE`: the middleware's look-up of the password flag fails open, so `ForcedChange` holds
only where it succeeds.
In `Templates` three channels are one to capture and two that concurrent applies make;
two contents let an apply stop half-way; two templates let `apply_project` go on after one
that failed. Templates of rules are not there at the start, calls make them. `MaxTries` is 2
where the code has 10,000: one candidate that is taken, one more, and the name used unseen.
`Cue` scales widths down so that a UPID of a few cells meets each of them: `LenMod` is 16
(for 2^8), `LoopMod` 32 (2^10), `T33` 256 (2^33) and `T40` 512 (2^40), in the order the
real ones have, and `SectionMod` 4096 as in the format, which no loop below `LoopMod` can
exceed; a UUID is two cells. UPIDs have every length around each limit, one is hex with
separators (longer as text than as bytes), one has a character that hex cuts in two,
durations are mapped below zero and beyond 33 bits (and, as a bound of the model, stay within
the 63 bits in which the code adds them). `splice_insert`s are cut short before, in and behind
their flags, with a time, components or the break duration still to come. Two hops are what an edit of an edited cue needs.

**Deadlock** is checked in every `EsamServer` run (a server that is up can always be
administered) and in `RuleMatching`, where every state before the return must have a step,
so the loop never gets stuck between its branches (`Answered` marks the end). It is off for
`Sharing`, `Accounts` and `Templates`, where the system stops when each call was made, and
for `Conditioning`, which stops after `MaxHops`.

**Fairness** is used in `EsamAnswers` alone: weak fairness of the start-up and of each
request's next statement. tokio polls a woken task again, SQLite answers a statement or
fails it after its busy timeout, and the handler has no loop. Nothing is assumed of
clients or administrators, and `EsamDropped` and `Crash` have no fairness.

### Where the code differs from its documents

These runs check one property each, quoted from a document or a comment, and TLC finds
a counterexample.

| Run | Property | Counterexample |
|---|---|---|
| `EsamBootAfterDelete` | `BootNeverFails` | a rule of the default channel is logged, the channel is soft-deleted, the server restarts: the hard delete meant to help re-creation violates the foreign key of `esam_events`, and no later start-up succeeds |
| `AccountsRevocation` | `RevokedRefused` | a revoked API token is looked up by the `sub` of its claims, which is the id of its user and not of its row: with another row under that id, the token is still accepted |
| `TemplatesGlobal` | `GlobalBySuper` | an ordinary user's `update_template` reads the row; a super-admin changes its org-wide flag; the update writes the old flag back |

Other differences were met while modelling. They are behaviour of the models, and no
property claims otherwise:

* a crash between the two INSERTs of the seeding leaves the default channel without its
  rule, and no later start-up adds it (`BootChannel`, `BootRule`);
* two concurrent appends read the same maximum and store the same priority
  (`CreateRuleRead`, `CreateRuleAppend`);
* a reorder list whose first rule is in one channel re-prioritises rules of another
  (`ReorderCheck` looks at the first only);
* events name their channel by text: after a rename, old events belong to whatever channel
  takes the name;
* a soft-deleted group keeps its memberships and links, which go on granting access;
* `create_project` and `insert_template` insert the row before they reject the groups, so a
  refused call has left a row (`PublishNew`);
* a time window whose end is left blank in the page is sent as `""`, and nothing is before
  it; a time with fractional seconds is compared as text with one without
  (`RulesMean` excludes both, through `Sharp`); of a condition on several fields only the
  first that the signal has decides;
* a UPID longer than 255 bytes is not written to a descriptor, while a descriptor of
  another UPID type, as which the same text is shorter, does get it (`TakesUpid`);
* a rule that builds a `time_signal` and names a UPID but neither type sends a cue without
  a descriptor, against the comment at `src/main.rs:1188` ("When any are present we route to
  the advanced builders so the replacement carries a custom segmentation type id / UPID");
* the comment of `set_payload` (`src/main.rs:1093`, "so a conditioning action never drops the
  signal") holds but where the code panics: on parameters that are no object, on a UPID that
  hex cuts inside a character, on a payload in such a text, and on a duration edit of a
  section cut short. Then there is no answer at all. `DroppedOnlyByPanic` states the comment
  with exactly these exceptions;
* a duration edit of a section that ends just in front of its break duration writes that over
  the CRC and reports success (`MapDurations`);
* the two decoders differ in DTMF descriptors that overrun their length and in segmentation
  descriptors too short for their event id (`Garbled`), in any spelling but base64, which
  rules see as an unknown command (`FactsIn`), and in the names they give to the types of
  UPIDs (`src/esam.rs:320`, `src/tools_api.rs:878`; the models compare the types, not the
  names);
* `unique_channel_name` takes a SELECT that fails for a free name (`FindName`), so an apply
  can run into a name that was there all along;
* the quick test of the tools page (`src/tools_api.rs:370`) answers with the rule's own
  parameters and does not condition the cue as the ESAM path does.

`static/openapi.yaml:327` ("Higher priority rules execute first") also contradicts
`ORDER BY priority`, where the smallest number wins; `static/docs.html` has it right,
and no run is spent on it. `src/rbac.rs:255` ("the link set becomes exactly `desired`")
does not hold either when two saves interleave as DELETE, DELETE, INSERT, INSERT: the
union of both remains. `SettledLinks` states what does hold.

## 4. Properties

* `NoDanglingReferences` relates four tables and the requests in flight: the purge of
  a default channel must fail, not orphan an event; names stay unique over soft-deleted
  rows, on which the look-up by name rests.
* `AuditTrail`: the event carries the rule and action of the answer though the rule may
  be changed or deleted between SELECT and INSERT; one event per answer, none for a
  refusal by the channel's policy, one for everything else unless the INSERT fails.
* `DecidesAtOnce`: a request runs three statements while both tables change between any two
  of them; its answer is still what one state of the rules says, by order of priority, of
  a channel that served the name when it was looked up.
* `DeletedNeverServes`: rows deleted before a request arrived do not answer it. (Rows
  deleted while it is handled may.)
* `BootServesDefault`: after any number of crashes, a completed start-up leaves a live
  default channel.
* `RequestsAnswered`: a request that was taken up is answered, unless the process died
  or the client left.
* `AuthorizedWrites`: between check and use, membership and links may change. What
  remains true is that the writer is a super-admin, the owner, or once administered a
  group the channel was once linked to.
* `GlobalBySuper`: only a super-admin's call makes a channel org-wide.
* `SettledLinks`: a link all concurrent saves in reach of it wanted is there, one none
  wanted is gone, one out of reach is untouched.
* `ReadScopesAgree`: `can_read`, the list predicate and the event scope agree in every
  reachable state.
* `RulesMean`: clauses may be absent or empty, facts missing, globs greedy, times texts; a
  rule nevertheless fires exactly on the signals its documentation says.
* `GreedyIsExact`: `glob_match` takes the first place of each part and never goes back;
  it nevertheless answers true exactly when the parts can be placed in order, without
  overlap, the outer ones anchored.
* `NoOrphans`: whatever is created for a user while the user is being deleted, no token,
  membership or owned row is left without its user.
* `FirstAdminStays`: no sequence of role changes, disablings and deletions, by admins with
  JWTs however old, shuts the bootstrap admin out.
* `UserWritesAuthorized`: a user's row is only changed by its user, by someone who was a
  super-admin once or by someone who once administered a group with that user in it; the
  latter never make a super-admin. (Once, not now: that is what a signed role means.)
* `ForcedChange`: a session of a user who must change the password gets no further than
  the middleware.
* `NameFreeWhenFound`: an apply meets a taken name only when the channel that has it was
  created or renamed between the search and the INSERT, soft-deleted channels included. (Of
  a name whose look-up failed nothing is said.)
* `AppliedWhole`: a channel made from a template has all its rules, is being filled, or the
  apply was cut short or answered with the error.
* `StraysTraced`: a live template in a project that was deleted and emptied was filed there
  by a super-admin or a call that had seen the project live.
* `WritesTraced`, `LinksInReach`: what a call writes or publishes traces back to a right the
  caller once had on that row, though rows move between check and use.
* `KeepsContract`: the bytes of each answer are those of the cue the byte-free contract asks
  for: the named field changed, nothing else, lengths and CRC right; and a request is lost
  to a panic only where the contract lets it be.
* `DecodersAgree`: rules and tools read a cue with two decoders; of any sound one in base64
  they say the same, of one in hex rules see nothing but an unknown command.
* `DroppedOnlyByPanic`: a cue is answered with a cue unless the rule deletes or replaces it;
  no answer at all is given only for parameters that are no object, a UPID that hex may cut
  in two, a payload that is no section or a duration edit of a section that does not read back.

## 5. Proofs

`EsamServerProofs` proves for `Spec`, for every value of the constants that satisfies
`EsamServerAssumption` (names, sentinels and bounds are distinct and of the right
kind, and a table of rules has finitely many rows; no other set need be finite, and none
small):

| Theorem | Statement |
|---|---|
| `TypeCorrect` | `[]TypeOK` |
| `Inductive` | `[]IInv`, from which the next four follow |
| `ReferentialIntegrity` | `[]NoDanglingReferences` |
| `AuditTrailHolds` | `[]AuditTrail` |
| `DeletedRowsNeverServe` | `[]DeletedNeverServes` |
| `BootLeavesDefault` | `BootServesDefault`, from the guards of the start-up's actions |
| `ServesAtOnce` | `DecidesAtOnce`: `EsamServer` implements `AnswerService` |

None of the properties is inductive by itself. `IInv` joins the type invariant and the
parts of the three properties with

* `AdmChannel`: an administrator between the two statements of a handler holds a real
  channel, and its computed priority is a number, so that what is stored is well typed;
* `Progress`: what each request has established at each `pc`. A request in flight means
  that the server is up, so the purge of the start-up, the one step that removes rows,
  never meets one. Before the look-up a request has no channel, rule or status; after it
  a channel that was not deleted on arrival; and as long as it has still to read, what
  was deleted on arrival still is, so neither SELECT can return it. A request about to be
  logged was not refused by the policy, which `AuditTrail` needs.

`RowsKept` states of a step what makes the latter hold: no step but the purge removes a
row, and none revives one.

The steps are grouped by what they change: `ChannelStep`, `RuleStep`, `PurgeStep`,
`CrashStep`, `QuietStep` and `EsamStep` each show that their actions keep `IInv`, and
`NextKeepsIInv` joins them. `IInv` was checked by TLC on the passing instances first.

The refinement uses `IInv` and `RowsKept`. `Phases` reads the phase of a request from its
`pc`, and a lemma for each group of actions (`ArrivalServed`, `LookupServed`, `ReadServed`,
`LogServed`, `TablesServed`, `CrashServed`) names the step of the service it is. That
administration is an `Administer` rests on three parts of `IInv`: no row goes while a request
is in flight (`Progress`), none revives (`RowsKept`), and what the log names stays
(`NoDanglingReferences`). That a rule is chosen whenever one speaks needs a smallest
priority: `SomeFirst` gets it for a finite table, from the well-foundedness of the numbers of
rules that go before each. Priorities are integers, so an infinite table need not have one.

`SharingProofs` proves, for any sets of users, groups, channels and calls:

| Theorem | Statement |
|---|---|
| `TypeCorrect` | `[]TypeOK` |
| `WritesAreAuthorized` | `AuthorizedWrites` |
| `ReadScopesStayInStep` | `[]ReadScopesAgree` |
| `OnlySupersChangeGlobal` | `GlobalBySuper` |
| `SavesSettle` | `[]SettledLinks` |

`AuthorizedWrites` is about a step, but what a step uses was read earlier. `IInv` says of
every call in flight that what it holds was true once: `History` (every pair of an
administrator and a group, and every link, that exists is in `past`), `Held` (the identity
a channel call resolved was in `past`, and the right it has checked, if it is past the
check, still amounts to `Entitled`) and `GroupHeld` (the same of a group call). Each lasts
because `past` only grows and because owners are stored once, which `RowsKept` and
`PastKept` state and the lemma of each action shows. `IInv` was checked by TLC first here too.

`SettledLinks` speaks only of the moment when every save is over. `Settling` says what holds
on the way: every save publishes within what its user may reach (`Publishing`), and of each
channel and group `Agreed` says whether the link is there in terms of the saves that could
reach it: as at the start while none has cleared, there once one has inserted what
all want, gone once one has cleared what none wants. `GroupsStay` is needed since a link to a
group that is not there is skipped. `Cleared`, `Inserted`, `Finished` and `Lost` say what
one step does to one pair, and each action is one of them or `Quiet`. `ReadScopesAgree` compares
three predicates of the code, written apart; the proof expands all three, and they agree
in every state, reachable or not. `GlobalBySuper` needs that a row not made yet is not org-wide
(`Flags`), since `CreateRow` writes the flag too.

`GlobMatchProofs` proves, for any alphabet, patterns and texts:

| Theorem | Statement |
|---|---|
| `MatchIsExact` | `[]GreedyIsExact` |
| `NoPanic` | `[]TypeOK`, hence no slice out of bounds |

The strengthening is `GreedyIsSafe`: at every turn of the loop the rest of the pattern can
be placed in the rest of the text exactly when the whole pattern can be placed in the
whole text. The lemma `Commit` is its heart. If the rest can be placed at all, then also
with its next part at the first place where that part fits, since moving one part to the
left leaves the others where they are.

`AccountsProofs` proves, for any users, tokens, groups and calls, and whether or not
look-ups fail:

| Theorem | Statement |
|---|---|
| `TypeCorrect` | `[]TypeOK` |
| `NothingOutlivesItsUser` | `[]NoOrphans` |
| `FirstAdminNeverLeaves` | `[]FirstAdminStays` |
| `WritesAreAuthorized` | `UserWritesAuthorized` |
| `FlaggedSessionsWait` | `[]ForcedChange`, where no look-up fails |

`IInv` joins the type invariant, `NoOrphans` and `FirstAdminStays` with `History` (all that
is a super-admin, a group admin or a member is in `past`, and so is every role signed into a
JWT) and `Held` (the role, the groups and the visible users that a call holds were true
once). Each handler has a lemma that it keeps `IInv`; the authority of a write follows from
`Held` at the statement that writes. TLC checked `IInv` on `AccountsRoles` first.

`FlaggedSessionsWait` assumes `~Faulty`, without which it is false: the middleware lets a
request pass when its look-up of the flag fails. `Forced` says what is behind
`ForcedChange`: a call that came in flagged is a session's, its user has had a row, and for as
long as that row is there its flag is up and the call, unless it changes the password, is
still at the middleware or over. It lasts because of `FlagsStay`: ids are not used twice, and no
step but the change of the password lowers a flag.

`TemplatesProofs` proves, for any projects, templates, channels, contents, users, groups and
calls:

| Theorem | Statement |
|---|---|
| `TypeCorrect` | `[]TypeOK` |
| `FoundNamesStayFree` | `[]NameFreeWhenFound` |
| `ChannelsComeWhole` | `[]AppliedWhole` |
| `StraysHaveAuthors` | `[]StraysTraced` |
| `EveryWriteTraced` | `WritesTraced` |
| `EveryLinkInReach` | `LinksInReach` |

`IInv` is `TypeOK`, `History`, `Held` and `AppliedWhole`. `Held` says of each call, by its
handler and `pc`, what its checks have established, in terms that no other call can undo:
`Writable` and `Readable` are the rights of `can_write` and `can_read` with the links and
org-wide rows there ever were in place of those there are, `MayFile` the right to file in a
project, `Sourced` and `Applying` what an apply may take and how far it has come. As long as a
check is still to do (`Has`) nothing is claimed of it. Owners and rows stay (`RowsKept`), history
grows (`PastKept`), and so do names but for the rename of `ChannelWrite`, which takes the
channel out of every `before` (`NamesKept`): so what is held lasts. Each action has a lemma
that it keeps `IInv`; `CallMoves` speaks of those that move one call and leave the others. The two action properties then follow statement by statement from `Held`. TLC checked
`IInv` on `TemplatesLibrary` first.

`RuleMatchingProofs` proves, for any rules, signals, patterns and texts:

| Theorem | Statement |
|---|---|
| `RulesFireAsMeant` | `[]RulesMean` |
| `GlobsOfRulesAreExact` | `[]GreedyIsExact`, of every call that a rule makes |
| `RulesNeverPanic` | `[]TypeOK` |

The inductive invariant is `RuleInv`. Its part `Passed` says that the conditions already
passed over left their clause undecided and that the clause before is settled; `Called` that
the arguments of a running `glob_match` are those of the condition it is called for; and the
`IInv` of `GlobMatchProofs` holds of its variables, whose lemmas serve here unchanged. The
comparison of times as texts is proved to be that of times where `Sharp` says so, from the
order of texts by their first difference.

`CueProofs` is about the codec alone, for any widths of lengths and durations that satisfy
`WidthAssumption` (they are positive, and 33 bits are no more than 40). Its `Cues` are all
that the format allows: any lists of descriptors and components, of any content, that fit
the lengths they are counted in, but for two kinds of descriptors that the decoder of the tools misreads:
DTMF descriptors whose characters overrun their length, and segmentation descriptors too short
for an event id. For these there is nothing to prove: `Conditioning` has them as `Garbled`.

| Theorem | Statement |
|---|---|
| `RoundTrip` | `Decode(Encode(c)) = c`, for every cue `c` |
| `FactsRead` | of `Encode(c)`, `FactsOf` reads the command of `c`, the first time it names, and the type and UPID of its last segmentation descriptor that has them |

The walks of the code are recursive functions over the cells of a body, and the theorems of
the library on induction take an operator as a parameter, which the provers cannot
instantiate. So the induction is over a set of numbers (`Induction`, from the
well-foundedness of `<`), in which a statement about a recursive function is an ordinary
set. A *chain*, each value computed from the one before, exists and has its type
(`ChainExists`, `ChainTyped`): flattening a list (`Flat`), the walk of `esam.rs`
(`WalkChain`) and that over components (`SpliceWalk`) are chains. A *descent* is a function
that calls itself on a later offset (`DescentExists`, `DescentTyped`): the walks of
`tools_api.rs` are descents, and so is `Starts`, the offsets an edit visits.

`Has(b, i, x)` says that the cells `x` lie in `b` from `i` on. A *layout* gives the parts of a
list the offsets they lie at (`LayoutExists`, `LayoutHas`). `SegmentationForm`,
`InsertForm` and `BodyForm` say what the cells of a descriptor, a command and a cue are, and
`DescriptorRead`, `CommandRead` that who starts reading where they begin reads them and
stops where they end. `RoundTrip` follows part by part: a walk that starts at a part visits
the next one, for as many as there are. For `FactsRead`, `Heard` and `Earliest` say what was
read after `k` parts, and the chain of the walk keeps them.

The edits are proved upon that. `LoopRead` says that the loop is found and that `Starts`
lists the places of the descriptors, so an edit visits each of them and nothing else
(`DescriptorSeen` is what it sees there; `ChosenOnce`: a flag or a duration is one cell, of
one descriptor only). An edit that keeps lengths replaces parts by others of the same length
(`CellsReplaced`): `DeliverySection` and `DurationSection` give the cue whose section
results, `BreakMaps` for the break duration and every segmentation duration at once. A new
UPID changes lengths: `UpidWritten` gives the new descriptor, `LoopReplaced` the loop, whose
length word keeps its upper bits, and `UpidSection` says that the result is the section of the
renamed cue, which then fits its lengths, and that there is none only if the renamed cue does
not fit or is the old one.

`ConditioningProofs` proves, for any signals, rules and widths that satisfy `WidthAssumption`,
`ConditioningAssumption` (the incoming signals are texts or sections of cells, the rules'
parameters are of the kinds `apply_action` reads) and `CueAssumption` (`IncomingCues` has the
cues of the incoming signals, and the names of the four that are none are distinct and no
cue):

| Theorem | Statement |
|---|---|
| `TypeCorrect` | `[]TypeOK`: every answer is a signal, and a section in it has a body of cells, or there is none |
| `CuesAreKept` | `DroppedOnlyByPanic` |
| `DecodersSayTheSame` | `[]DecodersAgree` |
| `BytesKeepTheContract` | `KeepsContract`: `Conditioning` implements `CueContract` |

Incoming signals need not be sound, and rules may carry any signal.

`TypeOK` is inductive; the work is in what the edits compute. A loop that is found lies in the
body (`LoopFound`), every descriptor starts inside its loop (`StartsInLoop`), and each
edit makes a section or none (`UpidRewritten`, `DeliveryRewritten`, `BreakRewritten`,
`BreakAdjusted`), or panics, as does the encoder (`Built`).

`CuesAreKept` has two halves. That the answer is a cue or no answer at all follows branch by
branch (`FallsBack`): each falls back on the event's cue when its edit fails, and a cue that
is text is a signal. That there is no answer only where the property says so (`OnlyPanics`) is
read off the contract, whose `Answers` an answer meets: of a cue that can be edited,
`Unanswered` takes a UPID that panics.

`DecodersSayTheSame` is `FactsRead` of a sound cue, whose decoded form `FactsShown` reads
(`FactsAreShown`), for the invariant `CueIsRead`: the history variable `cue` is what is in the
signal.

The refinement takes `TypeOK` and `CueIsRead` as its invariant. It goes by what the event's
cue is (`CueKinds`: none, opaque, private, sound or garbled) and by the action. For a sound
one `FitsIs` shows that the contract's count of lengths, which knows no cells, is the length
of the cells, and `UpidPromised`, `LimitsPromised`, `TicksPromised` and `DeltaPromised` that
the cue of which an edit makes the section (`UpidKeeps`, `LimitsKeep`, `BreakKeeps`,
`AdjustKeeps`) is the cue the contract promises. `EditAnswers` puts this together with the
other kinds of cue: what cannot be edited goes out as it came in. The panics of the bytes
are those of the contract: `BuildPanicsSame` for what a rule builds, `UpidPanicsSame` for an
edit of a sound cue, whose walk comes to exactly the descriptors the contract speaks of. What a rule builds is in
the format too: `BuiltIs` gives the cue of which `BuildSection` makes the section,
`BuiltRead` what is read of it, also when it is too long, and `OwnKept` that it is what the
rule `Carries`. `StepKeeps` joins the actions.

This is where three statements had to be made precise. `DecodersAgree` is not true of every
section: of a segmentation descriptor that ends at its type id, with stuffing behind it, the
one decoder shows a type id and the other does not, since only one insists on the segment
numbers. It is stated of sound cues, whose descriptors have them. And a section that decodes
without an error may still hold more than was read, in which case an edit changes what nobody
sees; hence `Garbled` is whatever is not sound, and not only what fails to decode. And that no cue is
dropped is true but for the panics, which are now named one by one.

Only model-checked:

* `RequestsAnswered`: liveness under fairness is out of the prover's reach.
* the counterexamples.

## 6. Not modelled

SESAME: verification, keys and replay cache are in an external crate of which the
repository has the calls only; `EsamServer` has the verdict, the scope and the policy of a
channel. Its restart inside the replay window and its fallback to an unsigned response
(`src/sesame_axum.rs`) are listed as hazards without a property.
Texts: XML and JSON, log wording, statistics; of the ESAM decoder the models have a set of
facts or a parse error. The stateless handlers of the tools page around the codec.
Migrations. Backup, which only reads. Browser pages and installation scripts.
Connection-pool exhaustion: a statement that gets no connection is a statement that fails,
which `DbFaults` has. Several server processes on one database file: the installation runs
one. Password hashes, JWT signatures and their expiry, which `Refused` covers.

## 7. Plan

1. `SesameGate`: the calls into the crate, the replay cache lost on restart, the signing
   fallback.
2. An abstract sharing service whose saves are atomic, to say which interleavings of
   `Sharing` and `Templates` are not serialisable, and the proof that the others are.
3. The XML of requests and answers between `EsamServer` and `Conditioning`, which today
   meet in constants of rules.
