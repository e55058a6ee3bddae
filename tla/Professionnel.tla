----------------------------- MODULE Professionnel ----------------------------
(***************************************************************************)
(* The professional rate of a company account: the client gives a tax      *)
(* number and its document (profil.service), an administrator looks at     *)
(* them and grants the rate, with a discount of its own                    *)
(* (definirConditionsCommerciales).                                        *)
(*                                                                         *)
(* A request loads the row, does its work, and writes the columns whose    *)
(* value differs from the one it loaded, those and no other.               *)
(***************************************************************************)
EXTENDS Naturals

CONSTANTS
    Depots,         \* requests of the client
    Gerants,        \* administrators
    NumerosProMax,  \* bound on the tax numbers given
    Remises,        \* contractual discounts granted
    RemisePro,      \* remise_professionnelle_pourcent
    SansDocument    \* null

HypothesesPro ==
    /\ NumerosProMax \in Nat \ {0} /\ Remises \subseteq Nat /\ RemisePro \in Nat
    /\ SansDocument \notin Depots

VARIABLES
    entreprise,  \* tax number (0: none), document, validity, contractual discount
    depot,       \* per request of the client: what it loaded and what it writes
    examen,      \* per administrator: what he saw, and what his request loaded
    controle,    \* number and document the administrator had seen when the rate was granted
    aveugle      \* a reset was not written, or a grant bears on what was not seen

varsPro == <<entreprise, depot, examen, controle, aveugle>>

Pieces(c) == [numero |-> c.numero, document |-> c.document]

AucunDepot == [op |-> "libre"]

InitPro ==
    /\ entreprise = [numero |-> 0, document |-> SansDocument, valide |-> FALSE, remise |-> 0]
    /\ depot = [r \in Depots |-> AucunDepot]
    /\ examen = [g \in Gerants |-> AucunDepot]
    /\ controle = Pieces(entreprise)
    /\ aveugle = FALSE

\* What a request writes in a column: nothing if it is what it loaded.
Ecrit(lu, valeur, actuel) == IF lu = valeur THEN actuel ELSE valeur

-----------------------------------------------------------------------------
(* The client *)

\* updateProfil with another number; deposerJustificatifPro, which wants a number first.
ChargerDepot(r, op) ==
    /\ depot[r] = AucunDepot
    /\ op = "numero" => entreprise.numero < NumerosProMax
    /\ op = "document" => entreprise.numero > 0
    /\ depot' = [depot EXCEPT ![r] = [op |-> op, numero |-> entreprise.numero + 1,
                                          valide |-> entreprise.valide]]
    /\ UNCHANGED <<entreprise, examen, controle, aveugle>>

\* Variant: the validity stays with the account.
ValiditeGardee(valide) == valide

\* A new number or a new document must be looked at again.
ValiditeApres(valide) == FALSE

EnregistrerDepot(r) ==
    LET q == depot[r]
        valide == Ecrit(q.valide, ValiditeApres(q.valide), entreprise.valide)
    IN /\ q # AucunDepot
       /\ entreprise' = IF q.op = "numero"
                    THEN [entreprise EXCEPT !.numero = q.numero, !.valide = valide]
                    ELSE [entreprise EXCEPT !.document = r, !.valide = valide]
       /\ aveugle' = (aveugle \/ (~q.valide /\ entreprise.valide))
       /\ depot' = [depot EXCEPT ![r] = AucunDepot]
       /\ UNCHANGED <<examen, controle>>

\* The upload fails, the request is cut short.
RenoncerDepot(r) ==
    /\ depot[r] # AucunDepot
    /\ depot' = [depot EXCEPT ![r] = AucunDepot]
    /\ UNCHANGED <<entreprise, examen, controle, aveugle>>

-----------------------------------------------------------------------------
(* The administration *)

\* getUserById, on which the administrator makes up his mind; nothing wants a document there.
Consulter(g) ==
    /\ examen' = [examen EXCEPT ![g] = [op |-> "vu", vu |-> Pieces(entreprise)]]
    /\ UNCHANGED <<entreprise, depot, controle, aveugle>>

ChargerDecision(g, valide, remise) ==
    /\ examen[g].op = "vu"
    /\ examen' = [examen EXCEPT ![g] = [op |-> "decide", vu |-> @.vu, lu |-> entreprise.valide,
                                        valide |-> valide, luRemise |-> entreprise.remise,
                                        remise |-> remise]]
    /\ UNCHANGED <<entreprise, depot, controle, aveugle>>

DefinirConditions(g) ==
    LET e == examen[g]
        valide == Ecrit(e.lu, e.valide, entreprise.valide)
        accorde == valide /\ e.valide
    IN /\ e.op = "decide"
       /\ entreprise' = [entreprise EXCEPT !.valide = valide,
                                   !.remise = Ecrit(e.luRemise, e.remise, @)]
       /\ controle' = IF accorde THEN e.vu ELSE controle
       /\ aveugle' = (aveugle \/ (accorde /\ e.vu # Pieces(entreprise)))
       /\ examen' = [examen EXCEPT ![g] = AucunDepot]
       /\ UNCHANGED depot

NextPro ==
    \/ \E r \in Depots :
          \/ \E op \in {"numero", "document"} : ChargerDepot(r, op)
          \/ EnregistrerDepot(r) \/ RenoncerDepot(r)
    \/ \E g \in Gerants :
          \/ Consulter(g) \/ DefinirConditions(g)
          \/ \E valide \in BOOLEAN, remise \in Remises : ChargerDecision(g, valide, remise)

SpecPro == InitPro /\ [][NextPro]_varsPro

-----------------------------------------------------------------------------
(* Properties *)

\* calculerAvantages
Avantage ==
    LET pro == IF entreprise.valide THEN RemisePro ELSE 0
    IN IF entreprise.remise > pro THEN entreprise.remise ELSE pro

\* The rate applied above the contractual discount was granted on the number and the document
\* that the account has now, however often they are replaced, unless a request of the client
\* and a grant crossed: the client loaded the account before the grant, and has no reset to
\* write, or the administrator granted the rate on what he had seen before.
TarifProControle ==
    Avantage > entreprise.remise => aveugle \/ controle = Pieces(entreprise)
=============================================================================
