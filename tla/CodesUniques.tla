---------------------------- MODULE CodesUniques ----------------------------
(***************************************************************************)
(* The one-time codes of one client account: the confirmation of its       *)
(* address, a forgotten password, the proof of its telephone number.  The  *)
(* rows of UserOtp are compared and counted without a lock; only the       *)
(* consumption of a code is a conditional update.  Sessions has what       *)
(* follows a confirmed address or a new password; time is left out, a code *)
(* may expire at any moment.                                               *)
(***************************************************************************)
EXTENDS Integers, Sequences

CONSTANTS
    Requetes,       \* requests in flight, each between two awaits
    OTP_MAX_TENTATIVES,     \* wrong tries that exhaust a code
    OtpMax,         \* bound on the codes sent
    EssaisMax,      \* bound on the wrong tries of a code
    NumerosMax      \* bound on the changes of number

\* What the model takes of its constants.
HypothesesCodes ==
    /\ OTP_MAX_TENTATIVES \in Nat \ {0} /\ EssaisMax \in Nat
    /\ OtpMax \in Nat /\ NumerosMax \in Nat

VARIABLES
    titulaire,     \* the row of the account
    codes,         \* rows of UserOtp, oldest first
    saisie         \* requests in flight

varsCodes == <<titulaire, codes, saisie>>

-----------------------------------------------------------------------------
(* Rows *)

Titulaire == [supprime : BOOLEAN, emailVerifie : BOOLEAN, telephoneVerifie : BOOLEAN,
           numero : Nat]             \* telephone, as the number of its changes
Types == {"verification_email", "reset_password", "verification_telephone"}
Code == [type : Types, ouvert : BOOLEAN, expire : BOOLEAN, tentatives : Nat,
         numero : Nat,               \* auxiliary: the number it was sent to
         servi : Nat,                \* auxiliary: how many times it was accepted
         fin : {"aucune", "servi", "autre"}]     \* auxiliary: what closed it first
Inactive == [etape |-> "libre"]

InitCodes ==
    /\ titulaire = [supprime |-> FALSE, emailVerifie |-> FALSE, telephoneVerifie |-> FALSE,
                 numero |-> 0]
    /\ codes = <<>>
    /\ saisie = [r \in Requetes |-> Inactive]

CommencerSaisie(r, suite) == saisie[r] = Inactive /\ saisie' = [saisie EXCEPT ![r] = suite]
PasserSaisie(r, suite) == saisie' = [saisie EXCEPT ![r] = suite]
EnSaisie(r, etape) == saisie[r].etape = etape

-----------------------------------------------------------------------------
(* Sending *)

\* A code is asked for the account as it is: an address to confirm, a number to prove.
Demandable(type) ==
    /\ ~titulaire.supprime
    /\ type = "verification_email" => ~titulaire.emailVerifie
    /\ type = "verification_telephone" => ~titulaire.telephoneVerifie

Clore(c, fin) == [c EXCEPT !.ouvert = FALSE, !.fin = IF c.ouvert THEN fin ELSE @]
Servir(c) == [Clore(c, "servi") EXCEPT !.servi = @ + 1]

\* Those sent before are closed first, except for a forgotten password.
RemplacerCodes(r, type) ==
    /\ Demandable(type)
    /\ CommencerSaisie(r, [etape |-> "creer", type |-> type, numero |-> titulaire.numero])
    /\ codes' = [k \in DOMAIN codes |->
          IF type # "reset_password" /\ codes[k].type = type THEN Clore(codes[k], "autre")
          ELSE codes[k]]
    /\ UNCHANGED titulaire

CreerCode(r) ==
    /\ EnSaisie(r, "creer") /\ Len(codes) < OtpMax
    /\ codes' = Append(codes, [type |-> saisie[r].type, ouvert |-> TRUE, expire |-> FALSE,
                               tentatives |-> 0, numero |-> saisie[r].numero, servi |-> 0,
                               fin |-> "aucune"])
    /\ PasserSaisie(r, Inactive)
    /\ UNCHANGED titulaire

-----------------------------------------------------------------------------
(* Typing *)

\* The most recent open code is the one a submission is compared with.
Dernier(k) ==
    /\ codes[k].ouvert
    /\ \A j \in DOMAIN codes : codes[j].ouvert /\ codes[j].type = codes[k].type => j <= k

\* verifierEmail, resetPassword, verifierTelephone, up to the comparison.
LireCode(r, k) ==
    /\ ~titulaire.supprime /\ Dernier(k) /\ ~codes[k].expire
    /\ codes[k].type = "verification_email" => ~titulaire.emailVerifie
    /\ \E etape \in {"faux", "juste"} : CommencerSaisie(r, [etape |-> etape, code |-> k])
    /\ UNCHANGED <<titulaire, codes>>

\* Incremented in the database and read again.
NoterEssai(r) ==
    LET k == saisie[r].code
    IN /\ EnSaisie(r, "faux") /\ codes[k].tentatives < EssaisMax
       /\ codes' = [codes EXCEPT ![k].tentatives = @ + 1]
       /\ PasserSaisie(r, IF codes'[k].tentatives >= OTP_MAX_TENTATIVES
                          THEN [etape |-> "epuiser", code |-> k] ELSE Inactive)
       /\ UNCHANGED titulaire

EpuiserCode(r) ==
    /\ EnSaisie(r, "epuiser")
    /\ codes' = [codes EXCEPT ![saisie[r].code] = Clore(@, "autre")]
    /\ PasserSaisie(r, Inactive)
    /\ UNCHANGED titulaire

\* Variant: the code that was read is closed without a condition.
EncoreOuvertALaLecture(k) == TRUE

\* UPDATE ... WHERE isUsed = false
EncoreOuvert(k) == codes[k].ouvert

ConsommerCode(r) ==
    LET k == saisie[r].code
    IN /\ EnSaisie(r, "juste")
       /\ IF EncoreOuvert(k)
          THEN /\ codes' = [codes EXCEPT ![k] = Servir(@)]
               /\ PasserSaisie(r, [etape |-> "confirmer", type |-> codes[k].type])
          ELSE codes' = codes /\ PasserSaisie(r, Inactive)
       /\ UNCHANGED titulaire

\* What the code opens; the new password and the session are in Sessions.
Confirmer(r) ==
    /\ EnSaisie(r, "confirmer")
    /\ titulaire' = [titulaire EXCEPT
          !.emailVerifie = @ \/ saisie[r].type = "verification_email",
          !.telephoneVerifie = @ \/ saisie[r].type = "verification_telephone"]
    /\ PasserSaisie(r, Inactive)
    /\ UNCHANGED codes

-----------------------------------------------------------------------------
(* What happens to the account meanwhile *)

\* updateProfil with another number, which is to be proved again.
ChangerNumero ==
    /\ ~titulaire.supprime /\ titulaire.numero < NumerosMax
    /\ titulaire' = [titulaire EXCEPT !.numero = @ + 1, !.telephoneVerifie = FALSE]
    /\ UNCHANGED <<codes, saisie>>

\* pseudonymiser deletes the rows of the codes.
EffacerCodes ==
    /\ ~titulaire.supprime
    /\ titulaire' = [titulaire EXCEPT !.supprime = TRUE, !.emailVerifie = FALSE,
                                      !.telephoneVerifie = FALSE]
    /\ codes' = [k \in DOMAIN codes |-> Clore(codes[k], "autre")]
    /\ UNCHANGED saisie

\* The date of a code is passed; the purge deletes such rows.
ExpirerCode(k) ==
    /\ ~codes[k].expire
    /\ codes' = [codes EXCEPT ![k].expire = TRUE]
    /\ UNCHANGED <<titulaire, saisie>>

PurgerCode(k) ==
    /\ codes[k].expire /\ codes[k].ouvert
    /\ codes' = [codes EXCEPT ![k] = Clore(@, "autre")]
    /\ UNCHANGED <<titulaire, saisie>>

\* A request fails, or its process stops: what it wrote before stays.
AbandonnerSaisie(r) ==
    /\ saisie[r] # Inactive
    /\ PasserSaisie(r, Inactive)
    /\ UNCHANGED <<titulaire, codes>>

NextCodes ==
    \/ \E r \in Requetes :
          \/ \E type \in Types : RemplacerCodes(r, type)
          \/ \E k \in DOMAIN codes : LireCode(r, k)
          \/ CreerCode(r) \/ NoterEssai(r) \/ EpuiserCode(r) \/ ConsommerCode(r)
          \/ Confirmer(r) \/ AbandonnerSaisie(r)
    \/ \E k \in DOMAIN codes : ExpirerCode(k) \/ PurgerCode(k)
    \/ ChangerNumero
    \/ EffacerCodes

SpecCodes == InitCodes /\ [][NextCodes]_varsCodes

-----------------------------------------------------------------------------
(* Properties *)

\* "Un même code ne sert qu'une fois, même en parallèle": and never after another code
\* replaced it, or after it was exhausted, purged or erased with the account.
CodeUneFois ==
    \A k \in DOMAIN codes : codes[k].servi = (IF codes[k].fin = "servi" THEN 1 ELSE 0)
=============================================================================
