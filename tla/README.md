# Yobante Colis backend: verification project

TLA+ models of the protocols of the Yobante Colis backend (Node.js, Express, Sequelize 6,
PostgreSQL, Redis, Cloudflare R2), their TLC configurations and their TLAPS proofs. Paths below
are those of the repository, from `src/src/`. Modules and definitions keep the (French) names of
the source.

The backend runs as several identical processes on one database. Almost every operation has
the same form: *load rows, check them, await, write*, sometimes in a transaction that locks
one of the rows, sometimes with a conditional `UPDATE`, sometimes with neither. What can go
wrong is what two such requests do to each other, and it is what the modules are about: each
operation is cut where the code awaits outside a lock, and other requests run in the cuts.

1. [Inventory](#1-inventory) – 2. [Modules](#2-modules) – 3. [Runs](#3-runs) –
4. [Proofs](#4-proofs) – 5. [Disagreements found](#5-disagreements-found) –
6. [Windows the code leaves open](#6-windows-the-code-leaves-open) –
7. [Not modelled](#7-not-modelled) – 8. [Plan](#8-plan)

## 1. Inventory

| Component (source) | State | Hard behaviour | What makes it correct | Module |
|---|---|---|---|---|
| Parcel state machine (`config/colis.js`) | 19 statuses, transitions, event codes | an event may repeat the current status, even a final one | transitions only along the table | `EtatsColis` |
| Tracking engine (`modules/colis/service/suivi.service.js`) | status, point and withdrawal code of a parcel; stock counters of the points | check before the lock and again under it; two scans of one parcel | a closed parcel stays closed; counters = parcels present; a code exists at the counter | `Suivi`, `Acheminement` |
| Effects of an event (`suivi.service.js`, `notification.service.js`, `facturation.service.js`, `utils/apresCommit.js`) | invoice, payment link, messages, subscriptions | they run after the COMMIT, and also when the COMMIT fails; one of several fails; two receptions issue the invoice together | one invoice, one link, messages of the events whose COMMIT was attempted, once | `Effets` |
| File of a parcel (`colisAdmin`, `colisClient`) | dates, attempts, timeline, point of withdrawal, courier | corrections without a lock while events go through | dates and counts agree with the timeline | `Dossier` |
| Declaration (`colisDeclaration.service.js`, `utils/referenceGenerator.js`) | uploads, tracking number, parcel, customs, invoice, pick-up | files sent before the transaction; a number that is counted, not drawn | no parcel without its files, no file without a parcel, unique numbers | `Declaration`, `References` |
| Study, answers and resources (`colisEtude`, `colisClient`, `admin/.../user`) | packaging stock, referral credit, reward of the sponsor | two declarations spend the same credit; an answer races the expiry task | what is reserved is given back or used, once | `Demandes` |
| Hand-over by code (`remise.service.js`, `colisAdmin`) | hash, event, agent, expiry, wrong tries; unpaid invoices | two submissions, a code replaced while used, failure after the consumption | one code, one hand-over; nothing leaves unpaid | `Remise` |
| Invoices, payments, refunds, credit notes (`modules/facture`, `modules/paiement`) | invoice with cumulated amounts and status; payments; credit notes | several agents on one invoice; writes with and without a lock | amounts follow the tables; no over-payment nor over-refund; status agrees with balance | `Facturation` |
| Claims (`modules/reclamation`) | claim, compensation | the decision is re-read under a lock, answers and assignment are not | one credit note for each decision that closes a claim | `Reclamations` |
| Rotations (`modules/rotation`) | status, counter, parcels aboard | last place, a milestone recorded twice, propagation parcel by parcel | counter = parcels aboard ≤ capacity; one propagation | `Rotation` |
| Collection points (`modules/pointCollecte`) | counters, active flag | counting, moving and writing are three statements | an uncrossed transfer is exact | `StockPoints` |
| Reference territory (`zone`, `ville`, `pointCollecte`, `serviceExpedition`, `models/index.js`) | rows and foreign keys; the rows a deletion counts and those it does not | a deletion races an insertion; a value is checked then changed | a deletion takes along none of the rows it counts; a point is in the country of its city | `Territoire` |
| Pick-ups and rounds (`modules/enlevement`, `catalogue/.../tourneeCollecte`) | requests, places of a round | the last place, a place freed twice, writes of stale rows | places = bookings, none beyond the capacity | `Collectes` |
| Pricing (`modules/tarification`, `models/tarif.model.js`, `surcharge.model.js`) | a computation | roundings, thresholds, currencies, minima | columns add up, the tax is exact, offers are sorted | `Tarification`, `DonneesTarif` |
| Price grid (`tarif.service.js`) | brackets and periods | two controlled insertions that overlap together | no overlap that the control could see; the audit tells the truth | `Grille` |
| Delivery dates (`utils/delais.js`) | a computation | working days and holidays of two countries | the delay is the number of days it counts | `Delais` |
| Customs (`modules/douane`) | articles, value, duties, status | nothing locks the declaration; it starts with articles and a value of their own | the estimate follows the articles from the first change on | `Douane` |
| Sessions (`modules/auth`, `utils/jwtUtils.js`) | refresh tokens, versions, revocations, a cache per process | a renewal races a revocation; a cached account is stale | what was revoked is refused | `Sessions` |
| One-time codes (`auth`, `profil`) | rows of codes | compared and counted without a lock | a code serves once | `CodesUniques` |
| Account, address book (`compte`, `adresse`) | addresses, deletion | the deletion races what is being created | nothing survives a deletion but what was in flight | `Compte` |
| Professional rate (`profil`, `admin/user`) | tax number, document, rate | the administrator decides on what he saw before | a rate is granted on the number, and the document if any, of the account | `Professionnel` |
| Staff (`admin/personnel`, `admin/admin`) | two columns that name each other; roles | each column has its own UPDATE, at creation too; two super administrators leave together | a person in charge is attached; one super administrator remains | `Personnel` |
| Reviews (`modules/avis`) | review, moderation, cached summary | moderation of a stale row; a cache whose query ends after a change | only who may write writes; the summary is recent | `Evaluations` |
| Files (`infrastructure/r2.service.js`, scripts) | objects of the storage, columns that name them | replace, delete, migrate while the API runs | a column names a living file | `Fichiers` |
| Caches (`utils/cache.js`, parameters, FAQ, templates) | entries per process | a load read before a write, stored after its invalidation | an entry is not older than its lifetime allows | `Caches` |
| Background queue and shutdown (`utils/arrierePlan.js`, `server.js`) | queue, places, planned retries per lane | wake-ups, retries outside of the lane, a silent provider, the drain | bounds kept; a drain that misses nothing; every send ends | `ArrierePlan` |
| Scheduled tasks (`jobs/taches.js`) | slots | two processes, a stop between a reservation and its tasks | one run per day, a late study signalled at most twice; what expired is closed | `Taches` |
| Receptions of files (`middlewares/upload.middleware.js`) | places, a queue | a place released by two events; the client leaves while it waits | at most the bound, none lost | `Receptions` |

`PROJECT.json` has the list of components with what is left out of each, and the hazards: what is
hard to test in this code, line by line, with the properties that watch it.

How components meet: events of the engine are recorded by the staff, by a courier, by the
rotations, by the tasks, by the client, by the hand-over and by the pick-ups; the engine's commit
triggers the effects (invoice, messages), which enter the background queue; the declaration
reserves in the rounds, in the packaging and in the credit; cancellation, refusal and expiry give
back; claims end in a credit note of the invoice; everything authenticates through the sessions
and reads the cached parameters.

## 2. Modules

`MCx` modules compose the components for TLC and give their constants; `xProofs` modules hold the
theorems of `x`. `EtatsColis` is shared by `Suivi`, `StockPoints`, `Rotation`, `Remise`,
`Demandes` and `Dossier`: the state machine is written once.

**Sums.** A host (`MCSocle`, `MCReseau`, `MCClients`, `MCColis`, `MCComptes`, `MCGestion`)
composes several components, and a variable `partie` says which of them moves; the variables of the
others stay as they start. In these instances the components share no row, so exploring their
product would say nothing more; the run explores their sum. A component with proofs is *extended*
by its host, so that the run and the theorems speak of the same definitions: its definitions then
have names of their own (`InitTaches`, `NextTaches`, `SpecTaches`, `varsTaches`...). `MCSocle`
extends `ArrierePlan`, `Taches` and `Receptions`; `MCReseau` extends `StockPoints` and `Rotation`;
`MCComptes` extends `Remise`, `Sessions`, `CodesUniques`, `Personnel` and `Professionnel`;
`MCClients` extends `Effets`, `Collectes` and `Compte`; `MCColis` extends `Reclamations`,
`Declaration`, `References`, `Dossier`, `Evaluations`, `Fichiers`, `Territoire` and `Caches`.
`MCGestion` extends `Suivi`, `Facturation`, `Douane` and `Grille`, and instantiates
`Tarification`, `Delais` and `Demandes` on the registers `x1, x2, ...`.
`MCFacturation` has `Facturation` alone, for the first disagreement of section 5.
Where components do share rows, they are composed in one module: `StockPoints` extends
`Suivi`; `Effets` has the invoice, the event and the messages; `Declaration` the files, the number
and the round; `Demandes` the decisions and what they give back.

**Hypotheses.** What a model takes of its constants is its operator `Hypotheses` (`HypothesesCodes`,
`HypothesesTaches`... where the host extends it, or a named `ASSUME`). The hosts assume those of
every component, so TLC evaluates them; theorems have them as an explicit hypothesis. They say that
constants are of the right kind (finite sets, natural numbers, model values that are not members of
a set), and, in `Taches`, that the 55 minutes which keep a second process out of an hourly slot are
at most two of its periods.

**Variants.** An operator whose comment says "Variant" is a plausible slip in the operator below
it (a condition dropped, a stale value used, an order swapped). No specification uses it;
`PROJECT.json` names the property that tells the two apart.

### How states and actions correspond to the code

- A request in flight is a record (`guichet[r]`, `manoeuvre[a]`, `demarche[r]`, `saisie[r]`, ...):
  what the JavaScript function holds in its local variables between two awaits; `lue` is the
  instance it loaded. `Lire...` actions are the load and the checks that refuse at once; the next
  action is the write.
- A transaction with `LOCK.UPDATE` on the row its checks bear on is one action. Reads it makes
  before the lock are a separate action. Where a transaction has several statements on rows it
  has not locked (`transfererStock`, the address book), it is several actions.
- `instance.update` and `save` write the columns that differ from what was loaded: the
  models of stale rows (`Remise`, `StockPoints`, `Reclamations`, `Professionnel`, `Evaluations`,
  `Douane`) write those and no other.
- A conditional `UPDATE ... WHERE` is one action with the condition as a guard.
- A request that is refused, whose transaction fails, or whose process stops, is `Abandonner`
  (`Interrompre`, `Renoncer`): what it wrote before stays.
- Time is left out, or passes in units where the property is about it (`Caches`, `Taches`,
  `Evaluations`): a timer, an expiry, a late call happen at any moment.
- Auxiliary variables (`perime`, `croises`, `bouscules`, `croise`, `aveugle`, `melee`, ...) record
  that two requests met in a window the code leaves open; the property then speaks of the others,
  and section 6 lists the windows. `estimee`, `trompes` and the outcome "perdu" record history a
  property needs: that an estimate was computed once, that a process learned a sequence from a
  COMMIT that failed, that an event was undone after its effects were let go.
- A COMMIT may fail (`CommitEnEchec`, `ValiderEnEchec`): nothing is written, and the hooks that
  `utils/transactions.js:40-41` runs after it run all the same.

`Facturation`: `facture` is the row (price before tax, discount, total, `montantPaye`,
`montantAvoirs`, status). Locked writes: `Encaisser`, `RembourserParAvoir`,
`RembourserEtRouvrir`, `EmettreAvoir`, `AnnulerExpedition`. Unlocked writes:
`AppliquerRemise`, `AnnulerFacture`, `CorrigerPesee`, whose row may be stale; `perime` records
that one of them wrote over a row that had changed. `InitFactures` is an issued invoice.

`Suivi`: `LireEvenement` is the check before the transaction, `EnregistrerEvenement` the
transaction, `Decider` a decision of the study, of the client or of the expiry task (lock
first). `RegenererCodeRetrait` writes without a lock. `PhaseDe` maps the 19 statuses to the 5
phases of `Acheminement`, which promises that a parcel only goes forward, or home, and is
counted where it is.

`Remise`: a code is its rank among those displayed, so that "more recent" is a comparison;
`affiches` remembers what each was displayed for and `remises` on which code each hand-over
rests. `EvenementAilleurs` is what other services do to the parcel; `Facturer` makes the invoice
due or settled at any time.

`Rotation`: `EcrireJalon` is the conditional update of the status; `ListerPassagers`,
`EnregistrerEvenement` and `Repondre` the propagation to the parcels, one transaction each, whose
failures are swallowed.

`References`: a declaration counts, inserts its parcel and only then draws numbers of documents
(`Inserer`, `Nextval`); `CreerSequence` is the creation on demand of a missing sequence, which the
process remembers from the hook of its COMMIT (`Apprises`) until it restarts (`RelancerServeur`).

`Collectes`: an administrator reads a pick-up, writes it under its transaction
(`EcrireEnlevement`), records its event on the parcel in another one (`AnnoncerEnlevement`) and gives
the place back in a third (`RendrePlace`).

`Evaluations`: the summary is queried (`Consulter`), stored when the answer comes (`Retenir`) and
served (`ServirSynthese`); a query takes up to `DureeLecture`.

`Territoire`: a deletion counts what its service counts (points, parcels, tariffs), then the keys
of `models/index.js` act: a row goes along (CASCADE, `Vider`), its column becomes NULL (`Detacher`)
or it keeps the other from going. `annexes` are the rows of the tables no count looks at (users,
addresses, pick-ups, surcharges, timelines, rotations, rounds, proofs of delivery); `pertes` are the
rows of the others that a deletion took along.

`ArrierePlan`: one process, one thread; an action is what runs between two returns to the event
loop; the `catch` of a call and its `finally` are two actions.

`Tarification` is the whole of `calculerDevis` and `comparerServices` as operators on exact
numbers (cents, grams, thousandths): the code computes in floating point and rounds at the
places the model rounds; that the two agree within a rounding is assumed, not shown. `Delais` and
`Grille` are pure too, compared with reference definitions (the count of working days, the set of
weights a grid covers).

## 3. Runs

Every passing run is exhaustive on its instance and has two requests in flight in each component
(three declarations in `References` and `Declaration`, whose numbers are counted).

| Run | Instance | Shows |
|---|---|---|
| `gestion` | 1 parcel, 2 points, 2 callers, 15 event codes, a forced cancellation; 1 invoice, 2 payments, 2 credit notes, 2 agents, price at most 1, VAT 50 %; 1 customs declaration, whose articles differ from its declared value; brackets that overlap, meet and are apart; the quotes of `DonneesTarif` with 3 credits; deposits from 70 to 110 days with the holidays of spring 2026; a sponsor and his client with 2 requests | exact stock, final states, a code at the counter, refinement of `Acheminement`; amounts of an invoice follow the tables, no over-payment, no over-refund, a paid invoice has no balance and a cancelled one no payment, a cancellation is for good; the estimate follows the articles from their first change on; a controlled grid has no overlap; quotes add up; short delays are exact; credit, packaging and reward are conserved |
| `colis` | 1 parcel or 2–3 declarations, 1 point or city, 2 processes, 2 files, 2 claims on 1 parcel | the properties of the declaration, of its number, of its file, of its review and of the files and caches; the summary of reviews is no older than its TTL and one query; at most one credit note for each closing decision since the claim was last reopened; the territory, until two writes cross |
| `comptes` | 2 requests on one worker and a second worker, 2 tokens, 2 codes, 2 agents and 2 points, 2 administrators; 1 parcel, 1 agent and 2 submissions, 2 hand-over codes, two wrong tries | revoked access is refused; a code serves once; a parcel is handed over once per code, and settled; the staff and the super administrator; the professional rate |
| `clients` | 1 round of capacity at most 2, 2 pick-ups, 1 parcel; 2 addresses of 2 types; 2 events, 1 subscriber, 3 attempts, 3 failures | one invoice, one link, messages of the events whose COMMIT was attempted (a failed COMMIT is one of the failures); places and pick-ups; what a deletion leaves |
| `reseau` | 2 parcels, 2 points, 1 caller and 1 administrator; 2 rotations (capacities 1 and 2), 2 agents | uncrossed transfers are exact; loads within the capacity; one propagation per milestone |
| `socle` | 3 messages in a reliable lane and 1 in another, limit 1, queue 1, 1 to 3 attempts; 2 processes with 2 failures; 4 uploads for 2 places | bounds, drain, every reliable send ends; reminders once a day, a late study signalled at most twice; expired proposals are closed; receptions bounded |
| `facture_soldee`, `indemnite_inscrite`, `declaration_figee`, `delai_ferie`, `adresse_par_defaut`, `etude_signalee` | one component of the above | *violated*: section 5 |

**Bounds.** The properties are about what two requests do to each other on one row, so two
requests in flight and the smallest data that both dispute are the interesting size: an invoice
that a payment settles, overruns or half-pays (amounts 1 and 2; a VAT that rounds); a rotation
whose last place two loadings want, and a second rotation that wants the same parcel; a lane of
one with a queue of one, where a full lane and a wake-up occur with three messages; a round whose
capacity is reduced under its bookings. Two codes are enough for "an older one": with three, the
middle one plays the part of either. One write of a cached table, by either process, is enough for
the loads and the invalidations that cross it (`CachesFideles` proves the property for any number).
Counters that only bound the exploration are named `...Max`:
`CodesMax`, `RemisesMax`, `EchecsMax` (5 in the code; 2 distinguishes a try that counts from one
that cancels; so do the 2 tries of `OTP_MAX_TENTATIVES`), `OtpMax`, `NumerosMax`, `NumerosProMax`,
`JetonsMax`, `VersionsMax`, `EssaisMax`, `PannesMax`, `EcrituresMax`, `DepotsMax`, `AppelsMax`,
`DureeMax`, `PassagesMax`, `PoidsMax`, `AvoirsMax`, `EcartsMax` (pick-ups that requests may set
aside), `MontantMax`, `CapaciteMax`, `CreditMax`, `StockMax` (a counter that crossed
transfers make drift). `MAX_PHOTOS`, `MAX_RECEPTIONS`, `LIMITE_ADRESSES`, `TTL`,
`HEURE` and the like are constants of the code, smaller.

**Symmetry** is used for identities that no property names apart, and in no run with liveness.

**Deadlock** is checked in `facture_soldee` and `reseau`. Elsewhere a component
really ends: bounded claims are all treated (`Reclamations`), a process is killed (`ArrierePlan`),
an account is deleted (`Compte`, `Sessions`), the
bounded calls, codes or events are used up.

**Fairness** is assumed in `socle` alone.
In `ArrierePlan`, `Finir` and `Reessayer` are fair because the event loop runs a settled promise
and a fired timer; the end of a call (`FinAppel`) is fair in the lanes of `VoiesFiables` only: push
and WhatsApp calls have a time limit of ten seconds (`AbortSignal.timeout`,
`infrastructure/push.js:65`, `whatsapp.js`), calls to Resend have none, and a message of that lane
may wait for ever. In `Taches`, time passes, a timer that is due fires, the event loop goes on
with the tasks it started, and a stopped process is started again by its supervisor (Docker or
PM2); failures are bounded by `PannesMax`. No request of a user is fair.

## 4. Proofs

TLAPS proves the theorems below for every value of the constants that satisfies the
`Hypotheses`. The property of each is the very definition that a run checks on a small instance
(section 2, Sums); where a theorem states no property of a run, it is the inductive invariant or
the type invariant the others rest on.

| Module | Theorems | For any |
|---|---|---|
| `FacturationProofs` | `TypeCorrect`, `CumulsTenus`, `SansSurPaiement`, `PayeeEstSoldee`, `AnnuleeEstVide`, `RemboursementsBornes`, `AnnulationDefinitive` | finite sets of invoices, payments, credit notes, any agents, prices, VAT rate |
| `SuiviProofs` | `SuiviTypeCorrect`, `StocksExacts`, `EtatsDefinitifs`, `DisponiblesAvecCode`, `MoteurImplementeAcheminement`; `TransfertsExacts` (`StockPoints`); `EstimationsSuivies` (`Douane`), `GrillesSures` (`Grille`) | finite set of parcels, any points, callers, codes, forced statuses (none for `DisponiblesAvecCode`); requests, articles, value of the order; administrators, finite set of rows, reaches, brackets and periods |
| `RotationProofs` | `RotationTypeCorrect`, `ChargementsJustes`, `PropagationsUniques` | finite set of parcels, any rotations, capacities, agents |
| `RemiseProofs` | `CodesUsesUneFois`, `RemisesReglees` | staff, submissions, numbers of codes, tries and hand-overs |
| `EffetsProofs` | `EffetsUniques`; `CollectesTenues` (`Collectes`), `ComptesEffaces` (`Compte`) | requests, subscribers, event codes, attempts, failures; finite sets of requests, pick-ups and parcels, any rounds and capacities; requests, addresses, types and parcels |
| `ColisProofs` | `IndemnitesUniques` (`Reclamations`), `NumerosUniques` (`References`), `DeclarationsJustes`, `CachesFideles`, `FichiersGardes`, `AvisJustifies` (`Evaluations`), `TerritoiresCoherents`, `DossiersCoherents` | claims, agents, amounts; transactions, processes, attempts; finite set of requests, declarations, rounds; processes, loads, TTL; requests, rows, photos, passes of the script; clients, deposits, moderators; requests, cities, points, zones, services; callers, events, first statuses |
| `SocleProofs` | `FileComptee`, `FileBornee` (`ArrierePlan`), `TachesTenues`, `ReceptionsTenues` | finite set of messages, any lanes, limits, attempts; any processes, slots and failures; finite set of uploads, any number of places |
| `ComptesProofs` | `TarifFonde` (`Professionnel`), `CodesServentUneFois`, `RevocationsTenues` (`Sessions`), `EquipesTenues` (`Personnel`) | requests, workers, codes, tokens, tries, agents, points, administrators |

**`FacturationProofs`.** Types are not inductive alone: the total that a discount writes is an
amount only because the discount in flight does not exceed the price it was checked against
(`RemiseBornee`); `IInv` is both. `EffetSurLigne` says what any step does to a row (nothing, one of
four locked changes, or one write computed from a loaded row) and `EffetDesEtapes` proves it of
each action; `SansSurPaiement` follows. For the agreement of status and balance, `SInv` adds
*sane rows* for the invoices no stale write went over, and that requests in flight carry what they
checked. *Sums*: an amount is a sum over a table, and an induction over a finite table is out of
the provers' reach; the same sum is the cardinality of the set of the *units* of the payments
(pairs of a payment and a number below what it brought), and a step adds or removes the units of
one column (`Remplacer`, `ChangerHauteur`); `ComptesTenus` is inductive and `CumulsTenus` is the
property. A cancelled invoice is not left, because leaving it takes a refund, a refund in flight
gives back a positive amount (`RetraitsPositifs`), and a sane cancelled invoice has no payment to
take it from.

**`SuiviProofs`.** Every step leaves the rows alone, gives a code, or applies one permitted event
to one parcel (`EffetDesEtapes`). `EtatsDefinitifs` rests on the check under the lock and on the
table of transitions. `StocksExacts` is by cardinality: a step moves one parcel, adds one where it
arrives, removes one where it was. `DisponiblesAvecCode` needs that a code is never erased and
that a request in flight which will not create one found one (`CodeConnu`); its hypothesis, no
forced status, is real: a caller who forces "disponible_retrait" creates no code.
`MoteurImplementeAcheminement` maps the initial states and every step to `Acheminement`.
`TransfertsExacts` is over `StockPoints`, which adds to the engine the administration of the points.
A transfer counts the parcels, moves those of the list and writes two counters, and engine events go
on in between: the invariant says what the transfer in flight still owes (`TransfertFonde`: the list
it read is the parcels that were at the point, those it has moved are at the other one), that nothing
is counted at no point, and that counters are exact so long as no event crossed a transfer.
*Customs*: value and duties are right between requests, not during one; the invariant says what the
request that changes them still owes, and that the row in its memory is that of the table
(`EstimationDue`); before any request has computed it, the value is the one declared with the order
(`estimee`). *Grid*: the absence of overlaps takes what each control established, which holds for
its request until a write outdates it (`ControlesTenus`); a grid the audit finds complete prices a
weight in the first bracket that reaches it (`AuditSuffisant`, by the least element of a set of
ranks).

**`RotationProofs`.** `ChargementJuste` (counter = parcels aboard, within the capacity, unless
cancelled) is not inductive: the agents' requests must carry what they read (`RequetesFondees`),
and a cancelled rotation must be known to stay cancelled. A milestone is propagated once because
from its departure on a rotation only goes forward (`Etage`), so that the conditional `UPDATE`
succeeds once; `JalonUnique` says that two agents who propagate the same milestone are one.

**`RemiseProofs`.** A code is in one place only (`UneSeulePlace`): on the row, held by the
submission that consumed it, or spent on a hand-over. Writes of stale rows cannot put it back,
since the only value a stale row writes in that column is null. `RemisesReglees` is about steps: a
displayed code is replaced by newer ones, and a hand-over follows a check that saw nothing due.

**`EffetsProofs`.** The invoice is unique because it is inserted where there is none; its link,
because the right to send it belongs to one request: the one that created the invoice, or the one
whose acceptance was committed (`LiensTenus`, `PropositionTenue`), an acceptance whose COMMIT failed
being told apart (`AcceptationPerdue`). Messages are counted against the place of their request in
its list of effects (`Place`); one that left has an event that is committed or "perdu".
*Pick-ups*: the capacity of a round says nothing of the places counted on until the counter of the
row is known to be at least their number, plus one for each place a cancellation has written off and
not yet given back (`PlacesSuivies`): a client's cancellation moves one from the first to the second,
and its own request then moves the counter. A request whose pick-up no other one disputes finds it as
it read it (`LecturesFondees`), without which the same place would be given back twice. The event
of a written pick-up is a later step: a pick-up that failed keeps a parcel that may be cancelled, and
may be planned again, so the property excepts those that have failed once, in sequence or not.
*Account*: what survives the deletion is counted row by row (`Effacees`). One default address per
type is not inductive: a transaction that sets the flag has locked, when it is about to end, every
other row of the type, and one that does not leaves a flag only where it was (`Suivies`); both hold
as long as a transaction is alone on the book (`Seule`).

**`ColisProofs`**, one section per part of the life of a parcel.
*Claims*: that a claim is compensated once is not inductive. A decision being written is alone on
its claim (`VerrouExclusif`), the status still allows it (`DecisionPermise`), the account of a
claim, what each closing decision granted since it was last open, agrees with its status
(`ComptesJustes`): one at most for each, a resolution and a rejection not both, none while it is
open.
*Numbers*: a sequence that is not committed serves only the transaction that created it
(`SuiteTenue`), so that two acts with a number have two numbers; the ranks committed are the first
ones without a gap and the next is held by one transaction at most (`RangsTenus`); a failed attempt
met another act that took the rank after the count it rests on (`EssaisTenus`, by cardinality),
hence a declaration gives up only after as many others as it made attempts. A process that believes
in a sequence that is not there is one of `trompes`: it learned it from its own failed COMMIT and
has not restarted.
*Declarations*: the files of the storage are followed through the steps of the request that sent them
(`Suivis`), and through what it leaves behind when it stops; a number that waits for its insertion is
at most the next of its series, and that of a row not committed is the next one and nobody else's
(`NumerosTenus`), which gives series without a gap or a double (`SeriesTenues`).
*Caches*: an entry's age plus what it has left to live is bounded, and a load in flight has read
nothing that was replaced before it started (`ChargeTenue`, `EntreeTenue`).
*Files*: `FichiersVivants` needs to know of every name held anywhere (rows, requests, list of photos,
script) whether its file is written and for which row: a file not written yet is known to its writer
alone (`Nouveau`), one that is belongs to one row (`FichierDe`), so a deletion reaches no file that
another row points at; and what a request is about to delete is no longer pointed at by its row
(`DemandeTenue`). That invariant was checked by TLC on three requests first.
*Reviews*: a deposit or a moderation in flight was let in by a delivery, and what was replaced
is dated: a query in flight read what was replaced `DureeLecture` ago at most (`LectureTenue`), and a
summary lives for a TTL after its query ended (`SyntheseTenue`).
*Territory*: what its control established for a request still holds, as long as no write outdated it
(`ControlesTenus`); the rows of other tables (`annexes`) follow their keys and are promised nothing.
*File of a parcel*: lines are ranked as they were written, dates are those of the calls and all
different (`FriseTenue`), and the line of highest rank left its status (`StatutTenu`); without
crossed calls, the line of highest rank is that of latest date.

**`SocleProofs`.** The bounds of a lane, and the truth of a drain, are not inductive: they follow
from what the counters count. The queue holds, once each, the messages that wait; the places taken
are those of the calls in flight and of the calls that are over and not yet released; `reessais` is
the number of messages between two attempts. `FileComptee` states that, `FileBornee` what it
implies. *Tasks*: a slot runs once because the process that reserves it is the only one that goes on
with its tasks (`RelanceUnique` for the day, `CreneauUnique` for the hour, whose slot is still fresh
when its alerts are sent); at most two alerts are sent because the second comes more than one slot
after the deadline, and the slot of a third would find the deadline out of the window
(`AlertesDatees`). *Receptions*: the counter is the number of uploads being received, the queue is,
without repetition, the uploads that wait, and nobody waits while a place is free; the removal of a
client that leaves keeps the queue injective.

**`ComptesProofs`.** *Sessions*: `AccesAJour` speaks of copies of the account that each worker
caches and `SessionsFermees` of tokens in the hands of a request; neither is inductive.
`CopiesJustes` ties each copy to a version that was the account's when it was read, and to the age
of the cache; a token that a request is about to rotate was open when it was loaded, and what closed
it since also advanced the version. *Codes*: a row is sound (`CodesSains`: served at most once,
closed once served) and the request that compares one holds a row that existed. *Staff*: two columns
name each other and each has its own `UPDATE`; the invariant follows the agents a request is moving
(`AgentsSuivis`), and a modification that removes a super administrator knows another one, unless
two crossed (`ModificationsSuivies`). *Professional rate*: a rate rests on a control of the tax
number that the account still has, and of its document when there is one (`Controlee`).

### Only model-checked, and why

- Liveness (`ToutEnvoiAboutit`, `PropositionCloturee`): tlapm has no rules for fairness.
- What a recursive definition or a fold computes: `OffreJuste` (surcharges and packaging are
  folded), `DelaiCourtTenu` (days are counted one by one),
  `ReservationsConservees` (sums over requests): the induction theorems of the library take an
  operator as a parameter, which the provers cannot instantiate.

## 5. Disagreements found

1. `facture_soldee`: a payment of all that credit notes leave due keeps the invoice
   "partiellement_payee" (`paiementAdmin.service.js:211`): the cumulated payments alone are
   compared with the total.
2. `indemnite_inscrite`: closing a claim that was resolved with a compensation erases the amount
   it recorded, although the credit note exists (`reclamation.service.js:471`).
3. `declaration_figee`: an article can be withdrawn from a cleared customs declaration, and its
   duties change (`douane.service.js:242`); the other writes refuse it.
4. `delai_ferie`: a long delay in working days runs past the window the holidays were loaded for
   and takes a holiday for a working day (`utils/delais.js:82`).
5. `adresse_par_defaut`: an address whose type alone changes joins another default address of
   that type (`adresse.service.js:135`).
6. `etude_signalee`: two processes out of phase may take two hourly slots within the hour that
   follows the deadline of a study, more than fifty-five minutes apart (`jobs/taches.js:205`), and
   signal it twice, where the comment of lines 67-69 says once. `TachesUneFois` keeps what holds:
   at most twice.

## 6. Windows the code leaves open

Met while modelling. The code promises nothing of them, and the properties set them aside by the
auxiliary variables of section 2 rather than claim them; a careful reader of the code may want to
close some.

- *Invoices.* `appliquerRemise`, `annulerFacture` and `corrigerPesee` write over a row they read
  before (`perime`). A discount may leave a credit of one cent by rounding.
- *Requests.* The welcome bonus is not taken back when a request is proposed a price or cancelled.
  An `ANNULE` event recorded by the administrator closes a parcel and frees nothing
  (`colisAdmin.service.js:328`). The packaging counters are given back in the order of the request
  and taken in that of the quote: two of them can wait for each other (`colisClient.service.js:307`).
- *Pick-ups.* A failed pick-up is planned again without a look at its parcel, cancelled or not
  (`enlevementAdmin.service.js:113`); one that is written "effectue" before its event is recorded
  leaves the client time to cancel the parcel.
- *Claims.* A decision that leaves a claim open may grant an amount, each time
  (`reclamation.service.js:440`, `:477`); a resolution, then the closing of the resolved claim, may
  both grant one.
- *Rotations.* A loading can be written on a rotation closed meanwhile, and on a cancelled one
  (`ChargementJuste` speaks of the others).
- *Points.* A transfer crossed by an event writes counts that are wrong; a point can be
  deactivated with a parcel that arrived after the check (`pointCollecte.service.js:346`).
- *Hand-over.* A code displayed while the previous one is being consumed has no event and no
  agent, and is of no use; two codes in use at once record two hand-overs.
- *Sessions, codes.* A telephone number stays verified by a code sent to the previous one, when it
  changes in between. Two administrators can treat one deletion request; a parcel declared during
  a deletion keeps its names.
- *Staff.* Two super administrators can leave together through `setActive` and `updateAdmin`; an
  agent moved by two requests is left in charge of a point he is not attached to.
- *Professional rate.* No document is required to grant a rate. A rate survives a change of document
  that the administrator did not see; the previous document is not always deleted.
- *Pricing.* The services are compared on the cheapest tariff; duties of the articles are not
  converted; a parameter emptied by the administrator is read as 0.
- *Territory.* A city without active points changes country with its zone, its parcels and its
  addresses, where the comment of `ville.service.js:127` speaks of points and shipments. Addresses
  and pick-ups keep a city from being deleted, by their keys and not by a count. Deleting a service
  makes its surcharges general (`models/index.js:116`) and empties its grid even when the service
  stays; the last active service can be deleted. Deleting a point detaches timelines, against the
  comment of `pointCollecte.service.js:382`, and staff, hubs, rotations and rounds
  (`models/index.js:154`).
- *Customs.* Articles inserted with the order do not change its declared value: value and estimate
  are computed from the articles at their first change only, against the comment of
  `douane.service.js:121`.
- *Reviews.* Of two moderations that cross, the second writes only what differs from the row it read:
  a review may be published with the reason of a refusal, until the next one (`disputes`).
- *Caches.* A parameter read before a write can be stored after its invalidation, for its
  lifetime.
- *Effects.* The hooks that wait for a COMMIT run when the COMMIT itself fails
  (`utils/transactions.js:40-41`): messages leave for an event that is undone (`Effets`), and a
  process looks for a sequence that was rolled back until it restarts (`References`). The public
  timeline follows the order of the calls, not that of the locks.
- *Files.* The migration script can write back a file that was replaced meanwhile; two additions of
  photos lose one.
- *Points, hours.* `estOuvertLe` uses the time zone of the server.

## 7. Not modelled

Layout and texts of documents, e-mails and notifications; dashboards, lists, exports and
statistics (reads only); announcements, FAQ, articles, packaging and surcharges as catalogues
(create, read, update, delete of one row); measures and inventories; the HTTP layer, roles, the
validation schemas (their bounds appear as the sets of inputs) and rate limits, which decide one
request alone; `verrouOptimiste.middleware.js`, a comparison before the handler that narrows
some windows above without closing them and that existing clients do not use; migrations; the
sharing of the cost of a rotation; the proof of delivery; opening hours and the search of points by
distance.

## 8. Plan

Done, in this order: `Facturation` and its proofs; `EtatsColis`, `Suivi`, `Acheminement` and their
proofs; `StockPoints`, `Rotation`, `ArrierePlan`, `Remise`; requests, pick-ups, tasks, accounts,
claims, customs; pricing, grid, delays; territory, caches, files, reviews, effects, file of a
parcel, declaration; the proofs of `Rotation`, `Remise`, `Effets`, `ArrierePlan`, `Reclamations`,
`Professionnel`, `CodesUniques`, `Sessions`, `Personnel`, `Taches`, `Receptions`, `StockPoints`,
`Collectes`, `Compte`, `References`, `Declaration`, `Caches`, `Fichiers`, `Evaluations`,
`Territoire`, `Dossier`, `Douane` and `Grille`.

Left: the sharing of the cost of a rotation and the prices of a proposal (`colisEtude.service.js`),
as operators with `Tarification`.
