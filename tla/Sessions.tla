------------------------------ MODULE Sessions ------------------------------
(***************************************************************************)
(* The sessions of one client account: what opens them (log-in, renewal,   *)
(* confirmation of the address), what closes them (log-out, new password,  *)
(* deletion), and the copy of the account that each worker process keeps   *)
(* for thirty seconds to check access tokens.  Accounts never meet here,   *)
(* so one is enough.                                                       *)
(*                                                                         *)
(* A request in flight (demarche[r], run by the worker Ouvrier[r]) stands  *)
(* between two awaits; `etape` names its next step.  None of these         *)
(* requests locks the account, except its deletion.                        *)
(*                                                                         *)
(* Session n is its refresh token (a row, n \in jetons) and its access     *)
(* token, which bears the version of the account it was signed with.  A    *)
(* password is not represented: a log-in is possible when the account can  *)
(* be found.  The one-time codes are in CodesUniques.  Time is left out: a *)
(* copy may expire at any moment.                                          *)
(***************************************************************************)
EXTENDS Integers, Sequences

CONSTANTS
    Demarches,      \* requests in flight, each between two awaits
    Ouvriers,       \* worker processes, each with its own copy of the account
    Ouvrier,        \* the worker that runs each request
    Redis,          \* REDIS_URL is set: invalidations reach the other workers
    Obligatoire,    \* verification_email_obligatoire
    JetonsMax,      \* bound on the sessions opened
    VersionsMax     \* bound on tokenVersion

\* What the model takes of its constants.
HypothesesSessions ==
    /\ Ouvrier \in [Demarches -> Ouvriers]
    /\ Redis \in BOOLEAN /\ Obligatoire \in BOOLEAN
    /\ JetonsMax \in Nat /\ VersionsMax \in Nat

VARIABLES
    compte,        \* the row of the account
    jetons,        \* refresh tokens in the table
    version,       \* tokenVersion signed in the access token of each session
    noire,         \* access tokens in the blacklist
    demarche,      \* requests in flight
    cache,         \* the copy of each worker
    lecture,       \* the row a worker has read and not yet copied (one at a time)
    annonces,      \* workers an invalidation is on its way to
    croisees,      \* auxiliary: sessions that crossed a revocation, or whose revocation stopped
    perimes        \* auxiliary: workers whose copy crossed a change, or missed one that stopped

lignes == <<compte, jetons, version, noire>>
varsCopies == <<cache, lecture, annonces, perimes>>
varsSessions == <<lignes, demarche, varsCopies, croisees>>

-----------------------------------------------------------------------------
(* Rows *)

LigneCompte == [actif : BOOLEAN, emailVerifie : BOOLEAN, supprime : BOOLEAN, tokenVersion : Nat]

\* What verifyAndCache keeps.
Vue(c) == [actif |-> c.actif, tokenVersion |-> c.tokenVersion]
Vide == [actif |-> FALSE, tokenVersion |-> -1]
AucuneLecture == [ouvrier |-> "aucun"]
SansDemarche == [etape |-> "libre"]

InitSessions ==
    /\ compte = [actif |-> TRUE, emailVerifie |-> FALSE, supprime |-> FALSE,
                 tokenVersion |-> 0]
    /\ jetons = {} /\ version = <<>> /\ noire = {} /\ croisees = {}
    /\ demarche = [r \in Demarches |-> SansDemarche]
    /\ cache = [w \in Ouvriers |-> Vide] /\ lecture = AucuneLecture
    /\ annonces = {} /\ perimes = {}

CommencerDemarche(r, suite) ==
    demarche[r] = SansDemarche /\ demarche' = [demarche EXCEPT ![r] = suite]
PasserDemarche(r, suite) == demarche' = [demarche EXCEPT ![r] = suite]
AEtape(r, etape) == demarche[r].etape = etape

-----------------------------------------------------------------------------
(* Opening a session *)

\* login: the account is found by its address or its number, active and, if asked, confirmed.
LireConnexion(r) ==
    /\ ~compte.supprime /\ compte.actif /\ (Obligatoire => compte.emailVerifie)
    /\ CommencerDemarche(r, [etape |-> "ouvrir", tv |-> compte.tokenVersion])
    /\ UNCHANGED <<lignes, varsCopies, croisees>>

\* refreshToken: DELETE succeeds once.
EncoreJeton(n) == n \in jetons

ConsommerJeton(r, n) ==
    /\ n \in DOMAIN version /\ EncoreJeton(n)
    /\ jetons' = jetons \ {n}
    /\ CommencerDemarche(r, [etape |-> "lire_compte"])
    /\ UNCHANGED <<compte, version, noire, varsCopies, croisees>>

\* A deactivated account is refused, and the token is gone.
LireCompte(r) ==
    /\ AEtape(r, "lire_compte")
    /\ PasserDemarche(r, IF compte.actif THEN [etape |-> "ouvrir", tv |-> compte.tokenVersion]
                         ELSE SansDemarche)
    /\ UNCHANGED <<lignes, varsCopies, croisees>>

\* verifierEmail, once its code is consumed: the row was loaded before the comparison, and a
\* deactivated account is not refused.
LireConfirmation(r) ==
    /\ ~compte.supprime /\ ~compte.emailVerifie
    /\ CommencerDemarche(r, [etape |-> "confirmer_adresse", tv |-> compte.tokenVersion])
    /\ UNCHANGED <<lignes, varsCopies, croisees>>

ConfirmerAdresse(r) ==
    /\ AEtape(r, "confirmer_adresse")
    /\ compte' = [compte EXCEPT !.emailVerifie = TRUE]
    /\ PasserDemarche(r, [etape |-> "ouvrir", tv |-> demarche[r].tv])
    /\ UNCHANGED <<jetons, version, noire, varsCopies, croisees>>

\* issueTokens: the access token bears the version of the row that was loaded.
OuvrirSession(r) ==
    LET n == Len(version) + 1
        tv == demarche[r].tv
    IN /\ AEtape(r, "ouvrir") /\ n <= JetonsMax
       /\ jetons' = jetons \cup {n}
       /\ version' = Append(version, tv)
       /\ croisees' = IF tv # compte.tokenVersion THEN croisees \cup {n} ELSE croisees
       /\ PasserDemarche(r, SansDemarche)
       /\ UNCHANGED <<compte, noire, varsCopies>>

-----------------------------------------------------------------------------
(* Closing sessions *)

\* changePassword and resetPassword, up to the new password.
ChangerMotDePasse(r) ==
    /\ ~compte.supprime
    /\ CommencerDemarche(r, [etape |-> "incrementer"])
    /\ UNCHANGED <<lignes, varsCopies, croisees>>

\* revoquerSessions: the version, then the refresh tokens, then the copies.
IncrementerVersion(r) ==
    /\ AEtape(r, "incrementer") /\ compte.tokenVersion < VersionsMax
    /\ compte' = [compte EXCEPT !.tokenVersion = @ + 1]
    /\ PasserDemarche(r, [etape |-> "detruire"])
    /\ UNCHANGED <<jetons, version, noire, varsCopies, croisees>>

\* Variant: the refresh tokens are left to expire.
JetonsRestantsTous == jetons

JetonsRestants == {}

DetruireSessions(r) ==
    /\ AEtape(r, "detruire")
    /\ jetons' = JetonsRestants
    /\ PasserDemarche(r, [etape |-> "invalider"])
    /\ UNCHANGED <<compte, version, noire, varsCopies, croisees>>

\* logout: the refresh token, then the access token.
SeDeconnecter(r, n) ==
    /\ n \in DOMAIN version \ noire
    /\ jetons' = jetons \ {n}
    /\ CommencerDemarche(r, [etape |-> "inscrire", jeton |-> n])
    /\ UNCHANGED <<compte, version, noire, varsCopies, croisees>>

Inscrire(r) ==
    /\ AEtape(r, "inscrire")
    /\ noire' = noire \cup {demarche[r].jeton}
    /\ PasserDemarche(r, SansDemarche)
    /\ UNCHANGED <<compte, jetons, version, varsCopies, croisees>>

\* pseudonymiser: one transaction under the lock of the account.
Pseudonymiser(r) ==
    /\ ~compte.supprime /\ compte.tokenVersion < VersionsMax
    /\ compte' = [compte EXCEPT !.actif = FALSE, !.emailVerifie = FALSE, !.supprime = TRUE,
                                !.tokenVersion = @ + 1]
    /\ jetons' = {}
    /\ CommencerDemarche(r, [etape |-> "invalider"])
    /\ UNCHANGED <<version, noire, varsCopies, croisees>>

\* setActive, by an administrator.
DefinirActif(r, actif) ==
    /\ compte.actif # actif
    /\ compte' = [compte EXCEPT !.actif = actif]
    /\ CommencerDemarche(r, [etape |-> "invalider"])
    /\ UNCHANGED <<jetons, version, noire, varsCopies, croisees>>

-----------------------------------------------------------------------------
(* Copies of the account *)

\* Variant: only the worker that runs the request forgets its copy.
DestinatairesLocaux(r) == {}

\* invaliderCache publishes to the other workers.
Destinataires(r) == IF Redis THEN Ouvriers \ {Ouvrier[r]} ELSE {}

InvaliderCache(r) ==
    /\ AEtape(r, "invalider")
    /\ cache' = [cache EXCEPT ![Ouvrier[r]] = Vide]
    /\ annonces' = annonces \cup Destinataires(r)
    /\ perimes' = perimes \ {Ouvrier[r]}
    /\ PasserDemarche(r, SansDemarche)
    /\ UNCHANGED <<lignes, lecture, croisees>>

RecevoirInvalidation(w) ==
    /\ w \in annonces
    /\ annonces' = annonces \ {w}
    /\ cache' = [cache EXCEPT ![w] = Vide]
    /\ perimes' = perimes \ {w}
    /\ UNCHANGED <<lignes, demarche, lecture, croisees>>

\* verifyAndCache: the row is read, and copied when the answer comes.
LireAcces(w) ==
    /\ cache[w] = Vide /\ lecture = AucuneLecture
    /\ lecture' = [ouvrier |-> w, vue |-> Vue(compte)]
    /\ UNCHANGED <<lignes, demarche, cache, annonces, perimes, croisees>>

CopierCompte ==
    LET w == lecture.ouvrier
    IN /\ lecture # AucuneLecture
       /\ cache' = [cache EXCEPT ![w] = lecture.vue]
       /\ lecture' = AucuneLecture
       /\ perimes' = IF lecture.vue # Vue(compte) THEN perimes \cup {w} ELSE perimes \ {w}
       /\ UNCHANGED <<lignes, demarche, annonces, croisees>>

ExpirerCopie(w) ==
    /\ cache[w] # Vide
    /\ cache' = [cache EXCEPT ![w] = Vide]
    /\ perimes' = perimes \ {w}
    /\ UNCHANGED <<lignes, demarche, lecture, annonces, croisees>>

-----------------------------------------------------------------------------
(* A request fails, or its process stops: what it wrote before stays. *)

AInvalider == {"detruire", "invalider"}

AbandonnerDemarche(r) ==
    /\ demarche[r] # SansDemarche
    /\ croisees' = IF AEtape(r, "detruire") THEN croisees \cup jetons ELSE croisees
    /\ perimes' = IF demarche[r].etape \in AInvalider THEN Ouvriers ELSE perimes
    /\ PasserDemarche(r, SansDemarche)
    /\ UNCHANGED <<lignes, cache, lecture, annonces>>

Ouvrir(r) ==
    \/ LireConnexion(r) \/ LireConfirmation(r) \/ ConfirmerAdresse(r) \/ LireCompte(r) \/ OuvrirSession(r)
    \/ \E n \in 1..JetonsMax : ConsommerJeton(r, n)

Fermer(r) ==
    \/ ChangerMotDePasse(r) \/ IncrementerVersion(r) \/ DetruireSessions(r)
    \/ \E n \in 1..JetonsMax : SeDeconnecter(r, n)
    \/ Inscrire(r) \/ Pseudonymiser(r)
    \/ \E actif \in BOOLEAN : DefinirActif(r, actif)
    \/ InvaliderCache(r)

NextSessions ==
    \/ \E r \in Demarches : Ouvrir(r) \/ Fermer(r) \/ AbandonnerDemarche(r)
    \/ \E w \in Ouvriers :
          RecevoirInvalidation(w) \/ LireAcces(w) \/ ExpirerCopie(w)
    \/ CopierCompte

SpecSessions == InitSessions /\ [][NextSessions]_varsSessions

-----------------------------------------------------------------------------
(* Properties *)

\* verifyUserFromHeader and checkActiveUser, on a worker that has its copy.
Accepte(w, n) ==
    /\ n \notin noire
    /\ cache[w] # Vide /\ cache[w].actif /\ cache[w].tokenVersion = version[n]

\* "à appeler après toute modification qui doit prendre effet immédiatement": a worker that
\* accepts an access token agrees with the account, unless the news is on its way, its copy
\* was read before the change, or the process that had to tell it stopped.
AccesAJour ==
    \A w \in Ouvriers, n \in DOMAIN version :
        Accepte(w, n) => \/ compte.actif /\ version[n] = compte.tokenVersion
                         \/ w \in annonces \cup perimes
                         \/ ~Redis
                         \/ \E r \in Demarches : demarche[r].etape \in AInvalider

\* Every refresh token is of the current version of the account: a new password and the
\* deletion close all the sessions, those that were being opened meanwhile aside.
SessionsFermees ==
    jetons \subseteq {n \in DOMAIN version : version[n] = compte.tokenVersion} \cup croisees
    \/ \E r \in Demarches : AEtape(r, "detruire")

\* An access token, and a session, that were revoked are of no use any more.
SessionsRevoquees == AccesAJour /\ SessionsFermees
=============================================================================
