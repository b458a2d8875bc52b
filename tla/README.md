# The Frankfurt League, specified in TLA+

Frankfurtleague runs an amateur football league: clubs, seasons, a group phase and a knockout
bracket, referees and their reports, squads, applications of new clubs, registrations of players,
and the league's duties about personal data (consents, retention, erasure). This directory holds
TLA+ models of its backend and of the parts of its frontend that keep state or answer for it, the
TLC runs that check them on small instances, and proofs for instances of any size. Names are the
source's, in its own mix of German and English; a rule is cited by the id the source gives it
(`REQ-…`, `I…` of `src/docs/backend/spec.md` and `src/docs/frontend/spec.md`).

Contents: [the system](#the-system), [the common ideas](#the-common-ideas),
[modules](#modules), [runs](#runs), [fairness](#fairness), [proofs](#proofs),
[what the runs found](#what-the-runs-found), [limits](#limits), [plan](#plan).

## The system

`fl_backend` is a FastAPI service over MongoDB; several worker processes and several people use it
at once. `fl_frontend` is a Next.js site: its pages and server actions call the API, it keeps its
own store of accounts, sessions and passkeys, sends every mail, and its background passes call the
backend's *sweeps* and outboxes over HTTP. Two backend requests share nothing but the database and,
inside one process, a season cache; all writes of a request run in ONE multi-document transaction,
and the rules a schema cannot state are judgements in that transaction's callback. Between the two
programs stand calls that may be lost, late or answered twice, and a mail provider that takes a
message or does not say.

### Backend (`src/fl_backend/app`)

| Component | State it keeps | Operations | Depends on, interacts with | Hard behaviour | Correct when | Here |
|---|---|---|---|---|---|---|
| `core/transactions.py`, `core/crud.py` | none but the open session, an attempt's write count, the rows of a page | open, judge, retry, abort; anchor a document; isolate a failing row, drain a clock | every slice | snapshot reads, write conflicts, retries, deadlines, an abort nobody answers | judged facts hold at commit; one bad row holds nobody back; a committed write is answered | `Transaktion`, `Zerlegung` |
| `api/saisons` | `saisons` (status, rules, watermark) and, by draw and undraw, `spieltage` and `spiele` | create, edit rules, draw, replace, undraw, activate, swap groups | every slice judges the season's status | two rollovers, a rollover beside a save, an undraw beside a report | one running season; a live season has its schedule; nothing recorded is lost | `Saison`, `Saisonfolge`, `Gruppen` |
| `api/saisons/cache.py` | process-local cache with a generation | store, read, invalidate | readers of seasons | a read that overlaps a commit is stored after the drop | nothing older than the last drop of this process is served | planned |
| `api/spieltage` | `spieltage` (spans) | date a matchday | activation needs all dated; a fixture's date lies inside | re-dating beside a fixture's dating | matchdays in order; fixtures inside | in `Saison` as dated or not; order planned |
| `api/spiele` | `spiele` (sides, sources, event, booking) | save one fixture, preview, undo several | standings, bracket, referees, venues | a save rewrites later rounds; an undo replays entries; two saves beside each other | the bracket is what results and tables decide; nobody twice in a round | `Turnierbaum`, in part `Saison` |
| `api/teams` | `teams`, `saison_teams` | enter, move, exit, replace, retire, reactivate, standings | draw, swap, applications | counts read and not locked; rows and fixtures written apart | groups never over capacity; results keep their clubs | `Gruppen`, standings in `Turnierbaum` |
| `api/spielberichte` | `spielberichte` | referee's report: write, correct, adopt into a result | fixture, season | first report beside undraw or rollover | a report has its fixture; none begins after the close | in `Saison`; versions and adoption planned |
| `api/sperrliste` | `sperrliste` (digest, last season) | ban, lift | rollover erases; the frontend signs the barred address out | a ban entered during the rollover; a sign-in beside the ban | no ban outlives its seasons or lapses early; a barred address's session serves nobody | in `Saison`, `Sitzungen` and `Spielsweep` |
| `api/spielbestaetigungen` | `spielbestaetigungen`: a question per club, seat and Ansetzung | close, tell, mint, remind (one sweep call), stamp, answer, discard | fixtures, clubs' contacts, the frontend's pass | a commit nobody answers, lost stamps, a fixture moving under the pass | a stamp means mailed, or barred or filed by design; asked once; told before asked anew; nothing owed for ever | `Spielsweep` |
| `api/berechtigungen` | grants, tiers, proposals; an outbox of changes | propose, approve, take; claim, stamp | actors, the frontend's pass | two administrators beside each other; lapsed leases | the tier is never emptied; every change is told or given up | outbox in `Postausgang`; tiers planned |
| `api/adresswechsel` | address changes; an outbox of notices | request, confirm by two mailboxes, stop, take effect; claim, stamp | every row keyed by an address, the account | two answers and a sweep with waiting days; a move that fails | takes effect only unstopped, once, everywhere; its end is told once, and not while the account could still follow | outbox in `Postausgang`; its life planned |
| `api/registrierungen` | `registrierungen` | submit, confirm, admit, decline, sweep | invitations, squads, bans | deadline clock beside an admission; reminders | erased on time, never after admission; reminded once | its sweep in `Zerlegung`; life planned |
| `api/bewerbungen` | `bewerbungen`, contacts' consents | apply, consent, accept, decline, sweep | season entry | consent clock beside an acceptance | accepted once; no entry without its consents | entry half in `Gruppen`; rest planned |
| `api/identitaet` | none of its own | erase a person everywhere, restore | all collections, action log | many collections in one transaction | no row of the person is left | planned |
| `api/einladungen`, `api/konto`, `api/spieler`, `api/schiedsrichter`, `api/spielorte`, `api/kontakte`, `api/einwilligung`, `api/zustellung` | link states; squads; referees; venues; mail reports | create, edit, retire | bookings, registrations | retirement beside a booking; one slot, two fixtures | booked people and places are there and free | planned with their neighbours |
| `core/drosselung.py` | daily counters | count, refuse | person routes | counted outside the transaction | ceiling held per person and day | planned |
| `core/security.py`, `core/recording.py`, `core/journal.py` | actor of a request, action log | bind, judge, record | every write | judged again on every retry | no write without its row | planned (cryptography left out) |
| `core/constraints.py`, `core/db.py` | indexes, schemas | apply at start | all | — | — | the unique indexes the models rely on are in their write sets |

### Frontend (`src/fl_frontend/src`)

| Component | State it keeps | Operations | Depends on, interacts with | Hard behaviour | Correct when | Here |
|---|---|---|---|---|---|---|
| sign-in sessions and passkeys (`core/auth.ts`, `core/subject.ts`, `core/sessionLifetimes.ts`, `features/passkeys`) | `session`, `passkey` and `user` rows in the library's store; the browser's cookie | sign in, set a passkey up, rotate, serve, refresh, land, remove a passkey, end an address's sessions | the backend's gate and grants, the ban's action | gate, stamp, insert and rotation are separate steps; two sign-ins from one cookie; a ban between any two | an ended account is not served; of two successors one stands; no page loop; the last passkey stays | `Sitzungen` |
| sign-in codes, attempt bounds (`core/signInCode.ts`, `core/auth.ts`) | `verification` rows | send, check, count, forgive | the store's clock | counts read and written apart | bounds hold | planned |
| request spine (`core/requestScope.ts`, `core/api.ts`, `shared/utils/*Mutation.ts`, `writeOutcome.ts`, `actionError.ts`, `publicRoute.ts`) | a request scope: deadline, whether a write was sent, whether its outcome is unknown; Next's cache | send, bound, abort, answer, drop tags | the backend, which goes on unheard | an answer lost or cut behind a commit; a commit behind the caches' drop | the page's sentence is true; no cached read is older than the answer; doubt has a reason | `Anfrage` |
| mail (`core/mail.ts`, `core/mailGate.ts`, `core/versandAusfall.ts`) | none | gate, send, retry, word a failure | provider | a broken attempt may have arrived | "failed" means nothing arrived | in `Postausgang`, `Spielsweep` |
| grants' and address changes' outboxes (`features/berechtigungen/abgleich.ts`, `features/adresswechsel/postausgang.ts`) | per instance: whether a pass runs, one queued behind it, who was told | claim, mail, stamp, boot interval | backend leases | lost claims and stamps, lapsed leases, two module instances, restarts | a stamped row was told; nobody twice; every row leaves | `Postausgang` |
| confirmation pass (`features/spielbestaetigungen/sweep.ts`) | the pass running | notices, stamps, reminders, requests | backend sweep | as above, and order between notice and request | with the backend's half above | `Spielsweep` |
| other passes (`features/{bewerbungen,funktionen,saisons}/sweep.ts`) | as above | as above | as above | as above | as above | planned |
| pages, forms, editors, mail texts, `proxy.ts`, configuration, `nginx`, scripts | view state | render | — | — | — | not modelled: presentation and deployment |

## The common ideas

### Every backend handler is a transaction

`Transaktion.tla` is what the concurrent backend modules share. A handler opens `transaction_session`, reads
one snapshot, judges, writes. MongoDB lets two transactions both commit unless they write a common
*document*; what one only read may be stale when it commits. That is why the source anchors: it
`$inc`s a counter of a document it merely judged (`anchor_in_db`), so that the other writer of
that document conflicts. A module therefore has for each handler

* `Beginne…`: snapshot, guard (the handler's refusals), and the write set `Schreibt…`, computed from
  the snapshot; it changes nothing but the actor's `tx` record;
* optionally `FrageNach`: the second reading *outside* the session, on what is committed by then (I118);
* `Schreibe…`: the commit. It changes the collections by what the *snapshot* decided and aborts every
  open transaction whose write set shares a document;
* `Abbruch`: refusal, lost connection or process end; nothing is stored. A retry is the same actor
  beginning again on a fresh snapshot.

The abstraction that matters: MongoDB gives a contended document to the first *writer*, the model to
the first *committer*. One of the two is aborted either way, so the sets of committed histories agree.
A `$set` of an equal value writes nothing and conflicts with nothing (I117), so it is not in the
write set; a unique index is a document named by its key (`UniqSaisonActive`).
Every property about races rests on these write sets, and most mutants of those runs drop one anchor.

### Every frontend operation is a chain of calls

A frontend operation is one coroutine whose awaits are calls: to the store, the backend, the provider.
`Sitzungen`, `Anfrage`, `Postausgang` and `Spielsweep` have one action per stretch between two awaits,
so everybody else steps in between, and keep the coroutine's local variables in a record (`anlauf`,
`scope`, `pass`). A call has three ends: it took effect and was answered; it took effect and the answer
was lost; it did not take effect. What the caller reads in the last two is the same, and which
conclusions it may draw from that is what these modules are about.

## Modules

| Module | Source | State | Composes |
|---|---|---|---|
| `Transaktion` | `core/transactions.py`, MongoDB | — (operators) | |
| `Saison` | `api/saisons` (+ `spieltage`, `spiele`, `spielberichte`, `sperrliste` as far as its handlers judge them) | `saison`, `spiel`, `spieltag`, `gezogen`, `bericht`, `sperre`, `tx` | `Transaktion`; refines `Saisonfolge` |
| `Saisonfolge` | I18 of the backend spec: the promise | `status` | |
| `SaisonProofs` | theorems about `Saison` | | `Saison`, `TLAPS` |
| `Gruppen` | `api/teams`, swap, rules and draw of `api/saisons`, acceptance of `api/bewerbungen` | `status`, `regeln`, `zeile`, `ruht`, `spiel`, `tx` | `Transaktion` |
| `GruppenProofs` | theorems about `Gruppen` | | `Gruppen`, `TLAPS` |
| `Turnierbaum` | `api/spiele` save, bracket, undo; `api/teams/services.py` standings | `gruppe`, `ko`, `beleg`, `betrieb`, `tx` | `Transaktion` |
| `TurnierbaumProofs` | theorems about `Turnierbaum` | | `Turnierbaum`, `TLAPS` |
| `Zerlegung` | `Batch`, `isolate`, `run_isolated`, `drain`; the registrations' sweep callbacks | `art`, `zeile`, `lauf` | |
| `ZerlegungProofs` | theorems about `Zerlegung` | | `Zerlegung`, `TLAPS` |
| `Sitzungen` | `core/auth.ts`, `core/subject.ts`, the passkey, ban and sign-out actions | `sitzung`, `passkeys`, `anlauf`, `abruf`, `entfernung`, `cookie`, `beendet`, `uhr` … | |
| `SitzungenProofs` | theorems about `Sitzungen` | | `Sitzungen`, `TLAPS` |
| `Anfrage` | `core/requestScope.ts`, `core/api.ts`, the spine of `shared/utils`, what a page says of its answer, the backend's commit, Next's cache | `scope`, `stand`, `antwort`, `gezeigt`, `cache`, `fuellung` … | two programs and the cache |
| `AnfrageProofs` | theorems about `Anfrage` | | `Anfrage`, `TLAPS` |
| `Postausgang` | `abgleich.ts`, `postausgang.ts`, `mail.ts` over the backend's claim and stamp | `zeile`, `pass`, `offen`, `angenommen`, `post`, `konto` … | backend outbox, passes, provider |
| `PostausgangProofs` | theorems about `Postausgang` | | `Postausgang`, `TLAPS` |
| `Spielsweep` | `spielbestaetigungen/sweep.ts` over `spielbestaetigungen/sweep_router.py` and its services | `spiel`, `gesperrt`, `zeile`, `pass`, `gebeten`, `gewarnt`, `erinnert` … | backend sweep, pass, provider |
| `SpielsweepProofs` | theorems about `Spielsweep` | | `Spielsweep`, `TLAPS` |
| `MC…` | definitions the `.cfg` files name: shapes, bounds, alternatives, symmetry | | its module |

**Saison.** A season's `status` is `keine` (no document), `future`, `active` or `past`. A fixture is
`keins`, or one of what the judgements tell apart: as drawn, booked to a referee, carrying any other
record, played, called off. `BeginneZiehung(…, ersetzt)` is `generate_spielplan` with its `replace`
flag, `BeginneLoeschung` is `undraw_spielplan`, `BeginneAktivierung` is `activate_saison` (demotion,
promotion and the erasure of lapsed bans in one commit), `BeginneSpielSpeichern` a save in a season of
any status with whatever the bracket pass rewrites beside it (over-approximated here; exact in
`Turnierbaum`). `gezogen` records from which shape the stored fixtures were laid out: it stands for
their number.

**Gruppen.** One season's entries. `zeile[t]` is the club's `saison_teams` row, `spiel` the season's
fixtures, named by the two clubs the draw gave them: a name for the `_id`, which stays when sides
are swapped or handed over. Every group fixture is undated here, so `REQ-SWAP-005`, which needs a
dated bracket side, cannot fire and `REQ-SWAP-006` judges every fixture; saves do not re-field sides.
`REQ-ENTER-004`'s lock on a drawn season is implied by full groups (`GezogeneGruppenSindVoll`).

**Turnierbaum.** One season's group results and knockout fixtures. `GruppeGespeichert` and
`KoGespeichert` are `_write_spiel_data`: judge, apply, release the round's other sides, resolve the
whole bracket (`Aufloesung`, the last value of the recursive function `Aufgeloest`, round by round, which is an
order `_resolve_sides`' memoised walk reaches its fixtures in), and report (`Bericht`). `Entschieden` is `build_decided_standings`: a placing is handed on
only if every ending of the group's open fixtures leaves it (`Endungen` enumerates wins, draws and
call-offs as `_endings` does). `Zurueckgenommen` replays a report entry by entry in one transaction.
A win is 1:0 and a draw 0:0. Groups have two to four clubs, few enough for the code to walk every ending
(`CERTAINTY_FIXTURE_LIMIT`). The table ranks as `_tiers` and `_break_tie` do (`Vor`, `Rang`): points; then, of a band of level clubs
none of whom has a fixture left with another, the mini-table or the goals first, as the constant `tiebreak_order` says, the
mini-table only where all of them met. So two level clubs that drew are separated by the goals of their other matches, and a club
that can hold no placing any more takes part in none. Exits, bookings and dates are left out, and
cycles or references to missing matches, which a write refuses, do not occur.

**Zerlegung.** One sweep call over rows that are sound, unreadable, poisoned (their write fails) or
not yet due when judged. An attempt is one atomic step with one of six outcomes (`Ausgaenge`); the
clock is abstracted to a deadline that may strike at any attempt, also *during* a commit that lands.
`lauf.schuldet` is `owes`: whether a committed row is owed a message. Between attempts people decide
rows and rows come due.

**Sitzungen.** One account, one browser. A sign-in (`anlauf`) passes through the steps of the code:
`Beginne` (the cookie it carries, the instant before the gate), `refuseUnadmitted` (the gate's answer), `Stemple`
(stamped again past every await), `Fuege` (the insert, dated by the *first* instant), then, past the
insert, `endReplacedSession`, `ListeGeschwister` and `endEarlierSiblings`, any of which the store may
fail; `Antworte` is the response's cookie reaching the browser. A passkey set-up is the same chain with
the plugin's own judgement in front and again at the stamp. `removePasskey` is a transaction that
claims the account's row, which aborts any other. A page request is three steps, as the awaits are: `slideSession` reads the
row, `Beurteile` judges it as read (`session.update.before`) and `updateSession` writes, whatever happened to the row
between. A landing is two, the second deleting the row by its id; the reads in front of its verdict are taken as one.
`endSessionsOfAddress` stamps the account, and then deletes rows. The guards (`getAdminSession`, `getSubjectSession`, `getKontoSession`) and the landing are operators
over a stored row, as in the source. Windows are small numbers in the order the figures have.

**Anfrage.** One press. Its *body* is a sequence of calls, each a write, a read or a message, with what
the code makes of that call's failure (`wenn`): the throw that reaches the spine, the club saved
without its entry, the half of an undo, or nothing. `Send` bounds the call by the request's deadline or
its own, whichever is shorter; the backend's `Commit` comes whenever it likes inside its own
deadline; `Answer`, `AnswerFailed`, `Break` and `Abort` are the ends of a call, and `Settle` is `runGuarded`
reading the scope and dropping the write's tags. `Show` is the page's sentence, or its words for an
action that was rejected. `FillReads` and `FillStores` are a cached public read beside it all.

**Postausgang.** Two outboxes with one shape, told apart by `lage.art`: changes to grants are mailed
under an idempotency key and repeated, an address change's notices are unkeyed and sent once. `lage.traegt` are the notices of a
change whose account the pass moves first; a change made because the old address was lost (`wartezeit`) and one that did not take
effect (`verworfen`) carry none, and their notices go as they are. `carryAccount` moves
the account or throws, before its write or behind it, which keeps the row. What it answers otherwise lets the notice go: moved now, nothing left to move (also where the move of an earlier pass
took effect unanswered), or `belegt`, the new address holding an account of its own (`KontoEroeffnet`), when the old one stays
where it is. No row of a change that took effect is written without its replaced address (`adresswechsel/crud.py`), so
the early return for one is left out. `Claim` takes every row no lease holds and counts an attempt; the lease runs
down with `Tick`, the interval of the pass. `deliver` is one attempt at the provider with one of six ends.
`runAbgleich` is the queue of one behind a running pass. That the provider collapses a repeated key inside its day is an
assumption about it (`Nimmt`); no property asserts it.

**Spielsweep.** One fixture, one club, its mailboxes. The backend's four transactions `close`, `tell`, `mint`, `remind`
are four steps whose results the call carries (`pass`). Each takes the rows due, or fewer: the season's share (25 notices a
pass) may be full of other fixtures' rows, and a row that fails alone is passed over. `Umfang` lets a step take any subset, a
step short of its rows being one of a history's `stoerungen`. `after_what_is_owed` is a step that failed, with its commit or
without, after which what is owed is answered all the same; then the frontend mails notices, stamps
them, mails reminders, mails requests, stamps those. A send ends as the gate and the deployment let it
(`Ausgaenge`): barred; sent, broken off or failed in production; withheld in production without its key; filed on a stack that mails
nothing. `istVersandt` counts a barred and a filed message as sent, as I742 says, so a notice whose first mailbox is barred is
done whatever its second send did, exactly as `mailTeamHinweis` keeps its first success. The club answers, the fixture moves, is called
off and reinstated, and a ban is put on a mailbox or lifted between any two steps.

## Runs

Twelve configurations, eight that must pass and four that find a disagreement. TLC uses symmetry on
actors, shapes, clubs and sign-ins where that is sound, and none where a liveness property is
checked. Sizes are distinct states.

| Run | Module | Bounds | Asks | States |
|---|---|---|---|---|
| `wechsel` | `MCSaison` | 2 requests at once, 2 seasons of 1 fixture each, 2 shapes, 1 person, bans of 0 further seasons | does the lifecycle hold in every overlap of two requests, and refine `Saisonfolge`? | 437,331 |
| `platz` | `MCGruppen` | 4 clubs, one or two groups of two; everything one at a time, or two requests at once | do groups, capacities and entries stay right? | 311,690 |
| `runde` | `MCGruppen` | 4 clubs in two groups, 2 requests | violation, below | |
| `baum` | `MCTurnierbaum` | groups of 3 and 2, 2 semi-finals, a final, the mini-table first; the group of three played out, or two left of it and hand edits, undos, both, or two saves at once | is the bracket what results and tables decide, and does an undo restore it? | 63,224 |
| `letztes` | `MCTurnierbaum` | a group of 3 and a final, goals first, wins alone, 2 requests | violation, below | |
| `lauf` | `Zerlegung` | 4 rows of every kind, one coming due late, page and share 2, one failure no row carries | does a sweep reach every sound row, answer what it commits, and end? | 496,100 |
| `anmelden` | `MCSitzungen` | 3 sign-ins, 2 passkeys, 2 removals, 2 page requests at once, 4 instants, refresh age 1, idle 2 | who is served, landed and left a passkey under every interleaving? | 1,403,638 |
| `druck` | `MCAnfrage` | 7 bodies of presses, 3 calls at most, 16 instants of 2.5 s | is the page's sentence true, and the cached read behind it? | 399,146 |
| `leeren` | `MCPostausgang` | seven outboxes: 2 rows, 2 mailboxes, 2 instances or a restart, not all at once; lease 2, 2 claims, 2 attempts | is a stamped row told, an unkeyed notice sent once, and every row gone in the end? | 96,550 |
| `zweimal` | `MCPostausgang` | 1 row, 2 mailboxes, 2 wordings, no lost call | violation, below | |
| `fragen` | `MCSpielsweep` | 2 slots on two days, 3 days, 3 rows, 2 mailboxes; six budgets of moves, bans, answers, failures and kinds of sending | is a club asked once, told before it is asked anew, and never left owed? | 80,136 |
| `postfach` | `MCSpielsweep` | one move, sends failing at will | violation, below | |

Why the bounds suffice.

* *Two requests at once.* A stale judgement needs one transaction that judged and one that committed
  meanwhile; a third only repeats the second. *Two seasons*: the incumbent and its successor; a ban with
  `SPERRE_DAUER` 0 expires within them, which is where `$lt` and `$lte` differ. *Two shapes*: the one
  drawn and the one edited to. *Groups of two and three*: the smallest with a decided and an undecided
  tie; a group of three has an order that is fixed before its last fixture, and, with draws and call-offs, two level clubs
  whom goals separate and their meeting does not. *Semi-finals and a final*: two
  rounds, so a correction passes through an occupied slot into the next one.
* *A page of two over four rows*: pages with and without a further one, halves of one and of two rows; a
  share of two is smaller than the three rows an owing clock reads.
* *Three sign-ins*: the session that stands, and two that carry its cookie; a third sibling is
  listed like the second. *Two removals of two passkeys*: the smallest pair that could take both.
  *Two page requests*: a refresh that was read before another's judgement and lands after it. *Four instants* with the refresh
  age one, the administrator's idle figure two and the person's figures three, in the order the code's have (five minutes, an
  hour, a day and more; an enrolment's window is one): refreshes inside the idle window, on its edge and past it.
* *A tick of 2.5 seconds* divides the figures of the code (30 s a request, 15 s a call, 10 s the backend's
  deadline; the 12 s a write needs are five ticks), so the comparisons come out in the order they have. Three
  calls: two that write, and one of another kind behind them.
* *A lease of two intervals* is the code's ratio: a pass that comes inside the lease, and one after it. Two
  claims and two attempts are the smallest counts with a last one and one before it.
* *Two slots*: a fixture that moves and moves back. Three days are a window, its last day and the day
  after. Three rows are every question those budgets can raise. *Two mailboxes*: the smallest club of which a send reaches one and
  fails, or is barred from, the other. The budgets (`Vorraete`) are alternatives a history is bound to in `Init`: two moves with
  every send going out or failing at will, one mailbox barred; a ban put or lifted beside a move; a move and a step that fails,
  stops short of its rows or loses its answer, on a failing provider and on a stack that mails nothing; production without its key.

`Betriebe` (`Gruppen`, `Turnierbaum`), `Lagen` (`Sitzungen`, `Postausgang`), `Vorraete` and `Ruempfe` are such
alternatives: one run covers several situations without their product. Between them every action fires.
Counters that would grow are capped and the cap is in the action: `weggelegt`, `post` and a day's `erinnert` count to two, two
standing for more; `versuche` in `Postausgang` stops at the attempt cap, past which only "given up" matters.

Deadlock is checked in `wechsel`, `platz`, `baum` and `fragen`. `Zerlegung` is one call, `Anfrage` one press: both end.
In `Sitzungen` the clock and the sign-ins run out, and in `Postausgang` an empty outbox with nothing left to
change is the end of the history.

Each property has a mutant: a variant of one definition (`…_OhneAnker`, `…_Gestempelt`, …) placed
before the original and commented with the bug it stands for, under which TLC finds the property
violated. The `_` variants are used by nothing else.

### Properties

* `Saison`: `HoechstensEineAktiv` (two activations, the fresh league included), `OffenesUrteilGilt` (what
  an uncommitted rollover or creation judged still holds, the reason the former is true),
  `DokumenteStimmen` (a live season has its whole schedule, stored fixtures are one draw, a report has its
  fixture, no ban outlives its seasons); steps: `NichtsGehtVerloren` (nothing recorded is deleted, a closed
  season and a ban's seasons stand, no first report after the close); refinement: `IstSaisonfolge`.
* `Gruppen`: `PlaetzeStimmen` (no group over capacity, drawn groups full, no retired club entered),
  `GruppenSindRunden`; step: `UmbesetztWirdNurOffenes` (a swap or replacement moves no result to another
  club and fields none that left).
* `Turnierbaum`: `BaumIstAufgeloest` (resolving again writes nothing), `ErgebnisGehoertDenSeiten`,
  `JederStehtEinmal` (nobody twice in a round, no source twice), `RuecknahmeStelltHer`; step:
  `EingesetztesStehtFest`.
* `Zerlegung`: `NurDasFehlerhafteBleibtLiegen` (a row passed over is left as it was, only failing rows are,
  nobody behind one is held up), `SchuldIstBeglichen` (what commits is answered, within the share);
  liveness: `LaufEndet`.
* `Sitzungen`: `BeendetesDientNie`, `NurDasLetzteGeschwisterSteht`, `LandungKreistNicht`; `NurBenutztesBleibtOffen` (what the
  administrator's guard admits was used inside its window, through refreshes judged on rows that others changed since); step: `LetzterPasskeyBleibt`.
* `Anfrage`: `AnsageStimmt` (also of commits still to come: "not saved" means nothing can land any more),
  `KeinAlterCache`, `ZweifelHatSeinenGrund`.
* `Postausgang`: `GestempeltHeisstErzaehlt` (and nobody is told of a change while the account could still follow),
  `EinHinweisJeEnde` (an unkeyed notice goes once, but for a lapsed lease, a lost stamp or a restart), `FehlgeschlagenesGingNie`;
  liveness: `JedeZeileGehtHinaus`.
* `Spielsweep`: `StempelHeisstGemailt` (a stamp says its message went, or was barred, or filed where nothing mails: I742),
  `NichtsDoppelt` (one question per Ansetzung, one reminder a day); step: `HinweisVorDerNeuenAnfrage` (I869: a request waits for the
  notice that voids the earlier one, unless an earlier pass tried that notice and this pass's answer leaves it out); liveness:
  `NichtsBleibtLiegen`.

## Fairness

* `Zerlegung`: `WF(Laufschritt)`. The call is one coroutine; each of its awaits is bounded by the request's
  deadline, so a step that stays possible is taken. Nothing is assumed of the people around it.
  `LaufEndet` still needs the code's argument, that every page moves a row, passes one over, or is
  raised (`refuse_a_stalled_page`); its mutant reads the rows passed over again.
* `Postausgang`: `WF(Tick)`: `startAbgleich` sets an interval at boot that nothing clears, and a restart boots
  again. `WF` of a running pass: its sends and calls are bounded by timeouts. `SF` of a claim that hands
  rows out and of a stamp: the backend does not lose every one for ever. `<>[]~Ueberzogen`: from some moment
  on a pass ends inside its lease, which is ten minutes for one page of bounded sends.
  The provider may refuse every message for ever: the attempt cap is what ends the row then, and
  its mutant drops the count.
* `Spielsweep`: `WF(Schritt)`, as above. `SF` of a request accepted for every mailbox no ban holds: the source has no
  cap on requests, so a provider that refuses one for ever would have it owed for ever, and the code
  intends that. A notice *is* capped, and nothing is assumed of it. Failed, short or unanswered steps are as many as a history's
  budget holds: a season whose share other fixtures fill for ever would leave this one owed for ever. What is owed ends
  only where it can: a club all of whose mailboxes are barred, and production without its key, are excepted. Days, moves and
  answers may stop.
* The other modules state safety alone: a request may be abandoned at any point.

## Proofs

TLAPS (SMT, Zenon and PTL only) proves every safety property the passing runs check,
for any values of the constants (four of `Turnierbaum`'s for requests one after the other): any sets of seasons, fixtures, clubs, persons, rows, mailboxes,
sign-ins and concurrent requests, any bracket and wiring, any window lengths, deadlines, caps and page sizes.

| Module | Theorem | States |
|---|---|---|
| `SaisonProofs` | `Typkorrekt` | `Spec => []TypeOK` |
| | `EineSaisonAktiv` | `Spec => []HoechstensEineAktiv` |
| | `UrteileGelten` | `Spec => []OffenesUrteilGilt` |
| | `SaisonfolgeUmgesetzt` | `Spec => IstSaisonfolge`: the lifecycle implements the abstract succession |
| | `DokumenteHaengenZusammen` | `Spec => []DokumenteStimmen` |
| | `NichtsVerloren` | `Spec => NichtsGehtVerloren` |
| `GruppenProofs` | `Typkorrekt` | `Spec => []TypeOK` |
| | `PlaetzeGehenAuf` | `Spec => []PlaetzeStimmen` |
| | `NurOffenesWirdUmbesetzt` | `Spec => UmbesetztWirdNurOffenes` |
| | `GezogenesBleibtRunde` | `Spec => []GruppenSindRunden` |
| `TurnierbaumProofs` | `Typkorrekt` | `Spec => []TypeOK` |
| | `ErgebnisseGehoerenDenSeiten` | `Spec => []ErgebnisGehoertDenSeiten` |
| | `JederEinmal` | `Spec => [](~betrieb.zugleich => JederStehtEinmal)` |
| | `BaumBleibtAufgeloest` | `Spec => [](~betrieb.zugleich => BaumIstAufgeloest)` |
| | `EinmalPlatziertBleibt` | a placing `Platzierter` has decided is not moved by the group's next result |
| | `EingesetztesBleibt` | `Spec /\ ~betrieb.zugleich => EingesetztesStehtFest` |
| | `UndoStelltHer` | `Spec /\ ~betrieb.zugleich => []RuecknahmeStelltHer` |
| `ZerlegungProofs` | `Typkorrekt` | `Spec => []TypeOK` |
| | `NurFehlerhaftesLiegt` | `Spec => []NurDasFehlerhafteBleibtLiegen` |
| | `SchuldWirdBeglichen` | `Spec => []SchuldIstBeglichen` |
| `SitzungenProofs` | `Typkorrekt` | `Spec => []TypeOK` |
| | `BeendetesBleibtBeendet` | `Spec => []BeendetesDientNie` |
| | `EinPasskeyBleibt` | `Spec => LetzterPasskeyBleibt` |
| | `NurBenutztesOffen` | `Spec => []NurBenutztesBleibtOffen` |
| | `EinGeschwisterSteht` | `Spec => []NurDasLetzteGeschwisterSteht` |
| | `LandungKommtAn` | `Spec => []LandungKreistNicht` |
| `AnfrageProofs` | `Typkorrekt` | `Spec => []TypeOK` |
| | `AnsageIstWahr` | `Spec => []AnsageStimmt` |
| | `CacheIstFrisch` | `Spec => []KeinAlterCache` |
| | `ZweifelBegruendet` | `Spec => []ZweifelHatSeinenGrund` |
| `PostausgangProofs` | `Typkorrekt` | `Spec => []TypeOK` |
| | `GestempeltErzaehlt` | `Spec => []GestempeltHeisstErzaehlt` |
| | `EinmalErzaehlt` | `Spec => []EinHinweisJeEnde` |
| | `FehlgeschlagenGingNie` | `Spec => []FehlgeschlagenesGingNie` |
| `SpielsweepProofs` | `Typkorrekt` | `Spec => []TypeOK` |
| | `GestempeltHeisstGemailt` | `Spec => []StempelHeisstGemailt` |
| | `KeineFrageDoppelt` | `Spec => []NichtsDoppelt` |
| | `HinweisZuerst` | `Spec => HinweisVorDerNeuenAnfrage` |

### Assumptions

Only those the modules declare about their constants, which TLC evaluates in every run of the module. Most say
that a constant is a number or a finite set. Those with content, and what bears them out:

* `Rumpf` (`Anfrage`): what a body of calls is in this code. A call that answers for its own doubt
  (`runAnsweringOwnCut`) settles its failure; behind such a call come only such calls; no write whose refusal is
  thrown follows another write; an answer in part is a second write's behind a first (`postTeamAction`,
  `partlyRestored`). A body with two such writes could answer "not saved" of a press whose first write stands: that no
  action is written so is part of what makes `AnsageStimmt` true.
* `FristenAssumption` (`Anfrage`): the backend's deadline, the time a write needs, a call's bound and the
  request's deadline nest. `KeinAlterCache` and the truth of "not saved" rest on it.
* `FensterAssumption` (`Sitzungen`): the administrator's windows (an hour, a day) lie inside the person's
  (fourteen days, thirty). Were they not, the landing would send an administrator to a page whose guard sends her back.
* `AngemeldetAssumption`, `LagenAssumption` (`Sitzungen`): the session standing at the start and a passkey factor name
  what exists.
* `ZeilenAssumption` (`Spielsweep`, bound): there are more rows than moves, so a mint always finds one. `PostfachAssumption`: the
  club has a mailbox; a notice is tried at least once (`ZahlenAssumption`).
* `LagenAssumption` (`Postausgang`): a notice of an address change has one recipient.
* `RundeAssumption`, `VerdrahtungAssumption` (`Turnierbaum`): what `draw_spielplan` lays out. Fixtures are numbered
  through in playing order, so that a later number is never of an earlier round; a slot names a placing (in the opening round
  only), an earlier round's fixture, or nobody; no two slots name the same; and the two slots of a fixture that wait for
  fixtures wait for fixtures of one round. They are about the bracket as drawn: that hand edits keep the first three
  is proved (`AngewandtGilt`, `AngewandtQuellen`), from `find_wiring_refusal`; the last they may break, and
  `RuecknahmeStelltHer` therefore asks it of the season (`AusEinerRunde`).
* `GruppenAssumption` (`Turnierbaum`): groups of two to four clubs, where every ending is walked (`CERTAINTY_FIXTURE_LIMIT`), no club
  in two. `RegelAssumption`: `tiebreak_order` is one of the two orders the rules know.
* `NamenAssumption` (`Turnierbaum`): the words for an event are no club, "no source" is no source, and "nobody" is neither.
* `RegelwerkeAssumption`, `TeamsAssumption` (`Gruppen`): a shape offers a group and places, a league has
  finitely many clubs.

### Saison

`HoechstensEineAktiv` is not inductive. A rollover commits what it judged earlier, so the invariant must say
what is known of *open* transactions. `FolgeInv` has four parts: `TypeOK`, for the shape of what a transaction carries;
`HoechstensEineAktiv` itself; `OffenesUrteilGilt`; and `Schreibsatz`, that an open creation has its season's document
in its write set and an open activation of a planned season has `UniqSaisonActive` in it. `Schreibsatz` is what makes
`OffenesUrteilGilt` inductive: a status moves by a creation, which leaves every open activation's judgement alone, or
by the activation of a planned season, which shares the index key with every other such activation, so
that one has been aborted. Two first activations of a fresh league share nothing else. The refinement follows
step by step: `SchreibeAnlegen` is `Anlegen`, `SchreibeAktivierung` is `Abloesen` by `OffenesUrteilGilt` (or a
stutter, on a season running already), everything else stutters.

`LigaInv` is the same idea for the documents. `Urteile` says of every open transaction what its kind judged
*together with the documents it writes*; `NurEigenes` says a commit moves only what its write set names; `UrteilUeberlebt`
follows, once for all kinds: a judgement outlives every commit that shares no document with it. `DokumenteStimmen` and the
step property `NichtsGehtVerloren` then hold commit by commit from what the commit's own judgement still says.

### Gruppen

The shape is Saison's (`Urteil`, `NurEigenes`, `UrteilUeberlebt`), with sizes of sets for what is judged. `PlatzInv` is
`TypeOK`, `PlaetzeStimmen` and the judgements: an entry or a move has a place left, a rules edit fits the
rows, a draw's groups are full, a swap's two rows stand where it read them and the fixtures it re-fields are
open. The season's anchor is what keeps an entry's place free until it commits; a swap and a replacement take no anchor
and need none, since they leave each group's size alone (`TauschHaeltGroesse`, `ErsatzHaeltGroesse`). A drawn season has
no place left (`PlatzHeisstUngezogen`), so entries and moves cannot follow the draw.

`RundenInv` adds what holds where requests run one after the other: one transaction is open, and the sides it
carries are those of the fixtures as they stand (`Gelesen`). A swap and a replacement are then one renaming of two clubs in the rows
and in the fixtures at once, and `UmbenannteRunden` says the round robins of renamed groups are the renamed round robins. With
requests at once `Gelesen` fails against a draw, which is the finding of `runde`.

### Turnierbaum

Everything said of a save is said of what `Aufloesung` computes, a recursive function over an order of the fixtures that
is chosen. Neither may be taken for granted in a proof: `ReiheGilt` shows that the order exists (any finite set of fixtures can be counted
up by round and number) and `AufgeloestGilt` that the function satisfies its equation, both by least counterexample over the
naturals, since the induction theorems cannot be instantiated here. `DurchlaufGilt` then says what a pass keeps after any
number of fixtures, and `VorUndNach` that a fixture is moved by its own step only, every fixture that feeds it being settled before.

`Inv` has two halves. `DokumenteInv` holds however requests overlap, since it speaks of one document at a time: a stored
fixture and every fixture an open request is about to write name sources of their kind and carry a result only between
two seated clubs, one of which it names (`GuteLage`). A save keeps that of whatever season it read, stale or not, so its write keeps it
too. `EinzelnInv` is about whole seasons and holds of one request at a time: the stored season, and the season the
open request leaves, are `Sauber`, with nobody twice in a round, no source feeding two slots, and a bracket that resolves to
itself. Three facts carry it:

* `EinmalGenuegt`: for *every* season of sound documents the resolution of a resolved bracket is itself. A moved fixture loses its
  result, and so does all it feeds, within the one pass; this is what "void for this pass" in `_outcome_of` is for.
* `DoppelteLeer`, `GespeichertGilt`: an accepted save leaves no double entry, `find_advancement_occupancy_refusal` having compared the
  resolved bracket with a clean one.
* `NachspielGilt`, `ZurueckgenommenGilt`: an undo replays any number of entries, each over the season the last one left.

`JederEinmal` and `BaumBleibtAufgeloest` need `~betrieb.zugleich`. The two saves of `letztes`, each resolving without the other's result, are why
`BaumBleibtAufgeloest` does; two hand edits of one round are why `JederEinmal` does.

`EinmalPlatziertBleibt` is the standings' side of it: the endings of a group shrink as results come in, standing before is an
order with at most one club on a placing (`VorOrdnet`, `EinerStehtAuf`), and fewer fixtures left only decides more.

`EingesetztesBleibt` carries it through the bracket. A result more of a group leaves every placing it had decided on offer and
decided (`EntschiedenesBleibt`). A slot fed by a placing is in the opening round, whose fixtures wait for no other
(`PlatzInDerErsten`), so what the pass does there depends on the standings alone (`PlatzspielGilt`); and a fixture the pass
leaves alone because one club would stand on both its sides is left alone again (`PlaetzeBleiben`). An undo is the hard case: it
too may record a result where none was, and its later entries are knockout saves. They put results
back and move nobody by hand (`EintragSetztNichtUm`), since the report they come from still fits the season its save left.
`NacheinanderInv` says that of every report held, and needs requests one after the other: another save in between may have taken the
source of a slot away, and an entry for it then sets a club by hand.

`UndoStelltHer` is about two saves, the second built from what the first reported. Every entry of a report goes through
judgement, release and resolution again, and between entries the season is neither the one before nor the one after.
`ZurueckBis(F, L, D)` says what holds then: the fixtures in `D` are as in `F`, the season to be restored; every other is empty of a
result, and each of its sides holds `F`'s club or nobody, by whether its source is in `D`. Resolving such a season moves only
what lies behind `D` (`ZurueckRuht`, `BaumZiehtNach`), an accepted entry puts its fixture into `D` (`EintragZurueck`), and
the report's order, the named fixture and then ascending numbers, has every fixture behind those that feed it
(`QuellenZuerst`); with `D` everything, `L` is `F` (`AllesZurueck`). Where it starts is the save's doing: a pass leaves every
fixture it does not report as it was, and takes the result of every other (`NachDemSpeichern`, `GruppeErster`, `KoErster`).
That an entry is *accepted* needs more: that a maintained side already holds the club it names, which is `BaumBesetzt`, and that
the clubs of one round are not in its way (`BesetztOhneDoppel`). Both rest on two facts about a clean season: a fixture fed from one round
is sent two clubs (`ZweiVereine`), and a placing goes to one club (`EinPlatzJeVerein`). `BelegInv` carries the result from
save to undo: one request after the other, whatever report is kept is of the season as it stands.

### Zerlegung

`IInv` is told of the rows and the call as values, so that it can be carried along the parts of one step. The halves still to be
attempted are disjoint and hold rows nobody wrote, a row passed over stands and fails alone, a page taken apart has each
sound row that is due in a half to come, and a call that owes has written no more rows than it has spent of its
share. The halving's arithmetic (`Letzte`, `Teilmenge`) is proved over finite sets of rows.

### Sitzungen

`IInv` has six parts. `TypeOK` is not inductive alone: an enrolment's insert adds the passkey it names, so
`EinschreibungNenntPasskey` says it names one. `BeendetesDientNie` compares two instants taken at different steps of
different operations; `Zeitfolge` orders them: a sign-in before its insert has no row; no sign-in and no row is dated after
the clock; of a sign-in admitted before the ending, the instant it carries, and the row it inserts, are dated no later
than the ending. This is where it matters that `createdAt` is taken before the gate is asked: dated by its stamp, a
row inserted after the ending would be newer than it. `EntfernungLaesstEinen` is behind `EinPasskeyBleibt`: an open removal of
an administrator's passkey leaves another, since it counted more than one and any other removal's commit aborts it
(`claimAccount`).

`NurBenutztesOffen` needs what is said of rows said of every page request under way too (`BenutztInv`): the instant a request has read
or judged is covered by the session's last use, or the row it comes from is marked by then (`ZeilenGedeckt`, `AbrufeGedeckt`). A refresh
judged late brings its own mark; one judged in time and landing late brings an instant that was in time; and no write clears a mark.

`GeschwisterInv` adds, for the siblings, that ids order the rows as they were inserted and that, of two siblings which
both stand and have both listed, one still has one of the two on its list (`EinesIstVermerkt`): whoever lists second sees the other. So
where every list is worked off, one of them is gone. `LandungKommtAn` needs no step: in every state of the right
types the landing's verdict is the page's own, by the order of the windows.

### Anfrage

What a page says must be true of writes that are still running when it is said, so `IInv` ties four
places together: where the request stands in its body (`OrtStimmt`); that the writes behind the call stand, and none ahead of it is sent
(`SchreibenStimmt`); that a running write's deadline in the backend ends before its caller stops waiting, unless a broken
connection ended it (`FristStimmt`); that every answer given is true and stays so (`AntwortStimmt`). `CacheStimmt` says a fill of
the cache that began before the drop is known for one, which is why the drop may come before the answer.

### Postausgang

A stamp is written steps after the sends it stands for, over awaits. `PassWahr` says of a pass what its local variables
claim: who it counts as reached was told, a row it holds for finished is, a send it remembers as gone broke off.
`GedaechtnisStimmt` says the same of what an instance remembers across rounds, `ZeilenStimmen` of the stamps, and `PostStimmt`
that the provider's keys are those of what it delivered. More mail and more moved accounts leave all of this true (`MehrPost`),
which settles every step of *another* instance. Of an address change it says besides that whoever was told, and every row a pass is
telling, has an account that can follow no more (`Gefolgt`); neither a move nor an account opened at the new address undoes that.

`EinmalErzaehlt` needs who *may* still tell. `HInv` says of every notice no lease lapsed under, and no stamp or pass was lost of: a pass
at work on it holds its claim (`GehaltenesGehoert`), so no two are; a mailbox told is covered, by the row being out or by the pass that has
it remembering so (`ErzaehltesIstGedeckt`); and a row is in one place of its pass (`Geordnet`), which tries its only mailbox once. The claim,
which takes a row only where no lease holds it, is the step that would break it, and its mutant does.

### Spielsweep

`IInv` ties the rows to what the pass carries. Of the rows (`ZeilenStimmen`): one question per Ansetzung, at most one open row, a
reminder mailed today stamped today, and beside an open row every notice held about another Ansetzung was tried or is of a day
gone by (`OffeneGezaehlt`): the mint waits for a notice its own answer does not carry, so a row is opened only behind tried ones. Of the pass:
what it asks is not closed over a move (`Fragbar`), what it stamps was mailed or had nobody to go to, what it reminds was stamped ahead; and
(`HinweisUnterwegs`) between the close and the last request the notice of every row closed over a move is out, in
the pass's hands, has every mailbox marked as unwarned, or is left out of this pass's answer and still held. `HinweisZuerst` follows: a
request leaves out every mailbox so marked, and of a notice left out `OffeneGezaehlt` says an earlier pass tried it.

That last case is in the code and not in its rule. A notice that failed once, or whose stamp was lost, stays due, and beside it a row
minted and not yet stamped. A pass whose share of 25 is filled by other fixtures' notices, or that passes the row over,
neither answers it nor marks its mailboxes, while `remind` asks the minted row again: the request overtakes the notice.
`HinweisVorDerNeuenAnfrage` names the case (`Uebergangen`); without the exception TLC refutes it. The exception is as small as the code
lets it be: a notice *no* pass has tried yet is never overtaken, whatever is left out.

A row whose own day and whose fixture's day have
both passed owes no notice any more (`_notice_to_come`); a fixture moved to a later day afterwards is
asked about anew, with the old row's notice never sent. That is what the code means; no run is long enough to show it, and the proof did.
`HinweisVorDerNeuenAnfrage` and `StempelHeisstGemailt` therefore speak of rows whose day is still to come.

### Only model-checked

Liveness under fairness (`LaufEndet`, `JedeZeileGehtHinaus`, `NichtsBleibtLiegen`) is out of the prover's reach, with
`ENABLED`. `JederStehtEinmal`, `BaumIstAufgeloest` and `EingesetztesStehtFest` are proved of requests one after the
other; of overlapping ones `baum` checks them in its bounds, and `letztes` refutes `BaumIstAufgeloest` beyond. Undos are run and proved of requests one after the
other only. The four properties of the violated runs do not hold.

## What the runs found

Three code bugs and one divergence of documentation and code; the counterexamples are TLC's.

* `runde`: a swap before the first draw writes two `saison_teams` rows, the draw the season and new
  fixtures; both commit, and clubs of different groups meet.
* `letztes`: the last two fixtures of a group saved at once; neither resolution sees the group
  complete, and the slot it feeds stays empty until some later save.
* `zweimal`: a pass inside the lease of a row it left unstamped is handed no such row and forgets who was
  told. After the lease the row is claimed again and all recipients are mailed again. The provider's key collapses
  an equal message, and not one that an erasure has reworded.
* `postfach`: of a club's two mailboxes the notice that voids a request reaches one. The pass counts the
  club as told, so the other mailbox gets the fresh request without ever having read that the earlier one is
  void, where the documentation says the request to *that mailbox* waits.

## Limits

* `Saison`: who meets whom, capacities and standings are the other modules'. A fixture's booking is
  one of its states; that a referee is free belongs to the bookings. `wechsel` has one fixture per season, so a
  save that rewrites further fixtures is not exercised there; the theorems cover any number.
* A rollover judges the outgoing season's fixtures, a save that takes a result back writes only its fixture:
  both commit, and the season closes with a match still to be played. The source judges this at the activation
  and nowhere else; no property here excludes the overlap. A replacement beside the *first* draw overlaps as the
  swap of `runde` does.
* `baum` edits sides by hand one request at a time: two saves at once may put one club on both fixtures
  of a round, each having judged a round the other had not written.
* `RuecknahmeStelltHer`: while the season stands as the save left it, an accepted undo restores it
  exactly, after hand edits too; and the undo of a recorded result is accepted if every slot was maintained and none filled by hand. An undo
  can be refused otherwise: where a slot's group could not produce the placing, where a result stands on a side set by hand,
  or where the save took a slot over: its report names the cleared source and the
  earlier occupant, and `find_wiring_refusal` refuses a side with a source whose club is not the stored one, though
  `docs/glossary.md` says of an undo that "a `Quelle` that save itself cleared does come back". A bracket rewired by hand so that one fixture waits for two rounds is
  excepted: both sources may send it the same club, and it then keeps whom it had.
* `EingesetztesStehtFest` is about results still missing; a *correction* may move a club, and should.
* A sweep's attempt is one step in `Zerlegung`; two sweep calls at once are not modelled. A failing read after
  a row was passed over, and before any is taken, halves the whole read, that row included, which is
  then passed over and counted again: no property excludes the double count.
* `Sitzungen`: a refusal by the administrator's guard is not final. A page request that read and judged the row inside the idle window,
  and whose write lands after another request was refused, moves the stamp and revives the row, until an hour after that judgement.
  The comment at `core/auth.ts:998` ("a session the administrator's window refused stays refused") is stronger than the code, by that
  one delay; `NurBenutztesBleibtOffen` says what does hold. One account and one browser. Grants do not change under a session. Left out: the account's
  move to another address beside a running sign-in, and a landing whose grant read failed (it sends on to `/bereich`).
* `Anfrage`: a connection that breaks under a write while the backend still works leaves an answer that is
  honest about the doubt, and a cache that may be filled ahead of the commit: `verloren` marks it, and
  `KeinAlterCache` excepts it. The guards' judgement and step-up are not part of a press here.
* `Postausgang`: that nobody ever had an account at the replaced address is taken like an account moved already. How a change comes
  about, and when it takes effect, is outside.
* `Spielsweep` has one fixture and one club; other fixtures' rows show as a step that leaves some out. `Verwerfen`'s second judgement
  outside its transaction (I118) is taken as one step. A club's contacts do not change, no mailbox is given up as unreachable by the
  provider (`seat_is_unreachable`), and a link a later one replaced still answers, as its hash does in the source. The referee's
  rows, notices and answers are left out.
* Not modelled: the season cache, matchday order, bookings, report versions, applications' and
  registrations' lives, erasure, grants' tiers, sign-in codes, daily ceilings, the action log, the other passes.
  Presentation (views, forms, editors, mail texts, schemas of forms), configuration, build and deployment
  hold no state a model would add to; they are most of the frontend's files and lines, so the
  models stand for a small share of the repository's TypeScript. What they stand for is the part that keeps
  state across an await. The backend is Python; its map entries name its handlers the same way.

## Plan

Order, most important first. The project keeps to twelve runs, so that all of them stay quick to repeat: a new run takes the place of
the weakest one, or joins a run as an alternative chosen in `Init`.

1. `Adresswechsel`: two mailboxes, stop, waiting days, taking effect, and the account's carry beside a running
   sign-in; abstract promise: the address of a person changes once, and only unstopped. It composes with `Postausgang`.
2. `Buchung`: referees, venues and matchday spans with their anchors, including a matchday re-dated beside a
   fixture's dating.
3. `Bewerbung` and `Registrierung`: lifecycle, invitations and erasure clocks, with `Zerlegung` as their sweep.
4. `Spielbericht`: versions and adoption into a result and its undo. Then the season cache, grants and tiers,
   sign-in codes and their bounds, the daily ceiling, erasure, the other passes.
5. For `Turnierbaum`, undos beside other requests: which of them a report kept over somebody else's save still restores,
   as a property first.
