---------------------------- MODULE ComptesProofs ----------------------------
(***************************************************************************)
(* Proofs about what people are allowed: the sessions of a client          *)
(* (Sessions), his one-time codes (CodesUniques), his professional rate    *)
(* (Professionnel) and the staff (Personnel), for any requests in flight,  *)
(* any worker processes, agents, points and administrators.                *)
(*                                                                         *)
(* Each of the four has its own inductive invariant: what a request in     *)
(* flight still has to write is enough to repair what it has half written. *)
(***************************************************************************)
EXTENDS Sessions, CodesUniques, Personnel, Professionnel, TLAPS, FiniteSetTheorems

-----------------------------------------------------------------------------
(* The professional rate *)

PiecesLues == [numero : Nat, document : Depots \cup {SansDocument}]
DepotEnCours == [op : {"numero", "document"}, numero : Nat, valide : BOOLEAN]
Examen ==
    [op : {"vu"}, vu : PiecesLues]
    \cup [op : {"decide"}, vu : PiecesLues, lu : BOOLEAN, valide : BOOLEAN,
          luRemise : Nat, remise : Nat]

ProTypee ==
    /\ entreprise \in [numero : Nat, document : Depots \cup {SansDocument},
                       valide : BOOLEAN, remise : Nat]
    /\ depot \in [Depots -> DepotEnCours \cup {AucunDepot}]
    /\ examen \in [Gerants -> Examen \cup {AucunDepot}]
    /\ aveugle \in BOOLEAN

\* A valid rate was granted on what the account has now.
Controlee == entreprise.valide => aveugle \/ controle = Pieces(entreprise)

InvPro == ProTypee /\ Controlee

LEMMA InitInvPro ==
    ASSUME HypothesesPro, InitPro
    PROVE  InvPro
<1>1. entreprise = [numero |-> 0, document |-> SansDocument, valide |-> FALSE, remise |-> 0]
  BY DEF InitPro
<1>2. depot = [r \in Depots |-> AucunDepot] /\ examen = [g \in Gerants |-> AucunDepot]
  BY DEF InitPro
<1>3. ProTypee
  <2>1. entreprise \in [numero : Nat, document : Depots \cup {SansDocument},
                        valide : BOOLEAN, remise : Nat]
    BY <1>1
  <2>2. /\ depot \in [Depots -> DepotEnCours \cup {AucunDepot}]
        /\ examen \in [Gerants -> Examen \cup {AucunDepot}]
    BY <1>2
  <2>3. QED
    BY <2>1, <2>2 DEF InitPro, ProTypee
<1>4. QED
  BY <1>1, <1>3 DEF InvPro, Controlee

LEMMA ClientTenu ==
    ASSUME HypothesesPro, InvPro, NEW r \in Depots,
           \/ \E op \in {"numero", "document"} : ChargerDepot(r, op)
           \/ EnregistrerDepot(r) \/ RenoncerDepot(r)
    PROVE  InvPro'
<1>1. CASE \E op \in {"numero", "document"} : ChargerDepot(r, op)
  BY <1>1 DEF ChargerDepot, InvPro, ProTypee, Controlee, DepotEnCours
<1>2. CASE EnregistrerDepot(r)
  <2>1. depot[r] \in DepotEnCours
    BY <1>2 DEF EnregistrerDepot, InvPro, ProTypee
  <2>2. entreprise'.valide => ~depot[r].valide /\ entreprise.valide
    BY <1>2, <2>1
       DEF EnregistrerDepot, InvPro, ProTypee, DepotEnCours, Ecrit, ValiditeApres
  <2>3. entreprise'.valide => aveugle'
    BY <1>2, <2>2 DEF EnregistrerDepot
  <2>4. ProTypee'
    BY <1>2, <2>1
       DEF EnregistrerDepot, InvPro, ProTypee, DepotEnCours, Ecrit, ValiditeApres
  <2>5. QED
    BY <2>3, <2>4 DEF InvPro, Controlee
<1>3. CASE RenoncerDepot(r)
  BY <1>3 DEF RenoncerDepot, InvPro, ProTypee, Controlee
<1>4. QED
  BY <1>1, <1>2, <1>3

LEMMA AdministrationTenue ==
    ASSUME HypothesesPro, InvPro, NEW g \in Gerants,
           \/ Consulter(g) \/ DefinirConditions(g)
           \/ \E valide \in BOOLEAN, remise \in Remises : ChargerDecision(g, valide, remise)
    PROVE  InvPro'
<1>1. CASE Consulter(g)
  BY <1>1 DEF Consulter, InvPro, ProTypee, Controlee, Examen, PiecesLues, Pieces
<1>2. ASSUME NEW valide \in BOOLEAN, NEW remise \in Remises,
             ChargerDecision(g, valide, remise)
      PROVE  InvPro'
  <2>1. examen[g] \in [op : {"vu"}, vu : PiecesLues]
    BY <1>2 DEF ChargerDecision, InvPro, ProTypee, Examen, AucunDepot
  <2>2. examen'[g] \in Examen
    BY <1>2, <2>1 DEF ChargerDecision, InvPro, ProTypee, Examen, HypothesesPro
  <2>3. QED
    BY <1>2, <2>2 DEF ChargerDecision, InvPro, ProTypee, Controlee
<1>3. CASE DefinirConditions(g)
  <2> DEFINE e == examen[g]
  <2>1. e \in [op : {"decide"}, vu : PiecesLues, lu : BOOLEAN, valide : BOOLEAN,
               luRemise : Nat, remise : Nat]
    BY <1>3 DEF DefinirConditions, InvPro, ProTypee, Examen, AucunDepot
  <2>2. ProTypee'
    BY <1>3, <2>1 DEF DefinirConditions, InvPro, ProTypee, Ecrit
  <2>3. /\ entreprise' = [entreprise EXCEPT
                             !.valide = Ecrit(e.lu, e.valide, entreprise.valide),
                             !.remise = Ecrit(e.luRemise, e.remise, @)]
        /\ Pieces(entreprise') = Pieces(entreprise)
    BY <1>3 DEF DefinirConditions, InvPro, ProTypee, Pieces
  <2>4. CASE e.valide
    <3>1. /\ controle' = IF entreprise'.valide THEN e.vu ELSE controle
          /\ aveugle' = (aveugle \/ (entreprise'.valide /\ e.vu # Pieces(entreprise)))
      BY <1>3, <2>3, <2>4 DEF DefinirConditions, InvPro, ProTypee
    <3>2. QED
      BY <2>2, <2>3, <3>1 DEF InvPro, Controlee
  <2>5. CASE ~e.valide
    <3>1. controle' = controle /\ aveugle' = aveugle
      BY <1>3, <2>1, <2>5 DEF DefinirConditions, InvPro, ProTypee
    <3>2. entreprise'.valide => entreprise.valide
      BY <2>1, <2>3, <2>5 DEF InvPro, ProTypee, Ecrit
    <3>3. QED
      BY <3>1, <3>2, <2>2, <2>3 DEF InvPro, Controlee
  <2>6. QED
    BY <2>4, <2>5
<1>4. QED
  BY <1>1, <1>2, <1>3

LEMMA NextInvPro ==
    ASSUME HypothesesPro, InvPro, [NextPro]_varsPro
    PROVE  InvPro'
<1>1. CASE NextPro
  BY <1>1, ClientTenu, AdministrationTenue DEF NextPro
<1>2. CASE UNCHANGED varsPro
  BY <1>2 DEF varsPro, InvPro, ProTypee, Controlee
<1>3. QED
  BY <1>1, <1>2

\* The rate of an account was granted on the number and the document that it has, whatever
\* the requests that do not cross a grant.
THEOREM TarifFonde == HypothesesPro /\ SpecPro => []TarifProControle
<1> SUFFICES ASSUME HypothesesPro PROVE SpecPro => []TarifProControle
  OBVIOUS
<1>1. InitPro => InvPro
  BY InitInvPro
<1>2. InvPro /\ [NextPro]_varsPro => InvPro'
  BY NextInvPro
<1>3. InvPro => TarifProControle
  BY DEF InvPro, ProTypee, Controlee, TarifProControle, Avantage
<1>4. QED
  BY <1>1, <1>2, <1>3, PTL DEF SpecPro

-----------------------------------------------------------------------------
(* The one-time codes *)

SaisieEnCours ==
    [etape : {"creer"}, type : Types, numero : Nat]
    \cup [etape : {"faux", "juste", "epuiser"}, code : Nat]
    \cup [etape : {"confirmer"}, type : Types]

SaisiesTypees ==
    /\ saisie \in [Requetes -> SaisieEnCours \cup {Inactive}]
    /\ \A r \in Requetes :
          saisie[r].etape \in {"faux", "juste", "epuiser"} => saisie[r].code \in DOMAIN codes

\* What closed a code first is written once: nobody has accepted an open code.
Sain(c) ==
    /\ c \in Code
    /\ c.ouvert => c.fin = "aucune"
    /\ c.servi = (IF c.fin = "servi" THEN 1 ELSE 0)

CodesSains == codes \in Seq(Code) /\ \A k \in DOMAIN codes : Sain(codes[k])

InvCodes == titulaire \in Titulaire /\ SaisiesTypees /\ CodesSains

LEMMA CloreSain ==
    ASSUME NEW c, Sain(c)
    PROVE  Sain(Clore(c, "autre"))
  BY DEF Clore, Code, Sain

LEMMA ServirSain ==
    ASSUME NEW c, Sain(c), c.ouvert
    PROVE  Sain(Servir(c))
<1> DEFINE d == Clore(c, "servi")
<1>1. d \in Code /\ d.servi = 0 /\ d.fin = "servi" /\ ~d.ouvert
  BY DEF Clore, Code, Sain
<1> HIDE DEF d
<1>2. [d EXCEPT !.servi = @ + 1] \in Code
  BY <1>1 DEF Code
<1>3. LET e == [d EXCEPT !.servi = @ + 1]
      IN e.servi = 1 /\ e.fin = "servi" /\ ~e.ouvert
  BY <1>1 DEF Code
<1>4. Servir(c) = [d EXCEPT !.servi = @ + 1]
  BY DEF Servir, d
<1>5. QED
  BY <1>2, <1>3, <1>4 DEF Sain

\* Neither a wrong try nor its date says anything of what closed a code.
LEMMA EssaiSain ==
    ASSUME NEW c, Sain(c)
    PROVE  Sain([c EXCEPT !.tentatives = @ + 1]) /\ Sain([c EXCEPT !.expire = TRUE])
<1>1. [c EXCEPT !.tentatives = @ + 1] \in Code /\ [c EXCEPT !.expire = TRUE] \in Code
  <2>1. c \in Code
    BY DEF Sain
  <2>2. c.tentatives + 1 \in Nat
    BY <2>1 DEF Code
  <2>3. \A n \in Nat : [c EXCEPT !.tentatives = n] \in Code
    BY <2>1 DEF Code
  <2>4. [c EXCEPT !.expire = TRUE] \in Code
    BY <2>1 DEF Code
  <2>5. QED
    BY <2>2, <2>3, <2>4
<1>2. \A d \in {[c EXCEPT !.tentatives = @ + 1], [c EXCEPT !.expire = TRUE]} :
         d.ouvert = c.ouvert /\ d.fin = c.fin /\ d.servi = c.servi
  BY DEF Sain, Code
<1>3. QED
  BY <1>1, <1>2 DEF Sain

\* Rows are changed in place, but for a new one.
LEMMA CodesChanges ==
    ASSUME CodesSains, DOMAIN codes' = DOMAIN codes,
           codes' = [k \in DOMAIN codes |-> codes'[k]],
           \A k \in DOMAIN codes : Sain(codes'[k])
    PROVE  CodesSains'
<1>1. DOMAIN codes = 1..Len(codes) /\ Len(codes) \in Nat
  BY DEF CodesSains
<1>2. codes' \in [1..Len(codes) -> Code]
  BY <1>1 DEF Sain
<1>3. codes' \in Seq(Code)
  BY <1>1, <1>2
<1>4. QED
  BY <1>3 DEF CodesSains

LEMMA CodeChange ==
    ASSUME CodesSains, NEW k \in DOMAIN codes, NEW c, Sain(c),
           codes' = [codes EXCEPT ![k] = c]
    PROVE  CodesSains' /\ DOMAIN codes' = DOMAIN codes
<1>1. codes = [j \in DOMAIN codes |-> codes[j]]
  BY DEF CodesSains
<1>2. codes' = [j \in DOMAIN codes |-> IF j = k THEN c ELSE codes[j]]
  BY <1>1
<1>3. \A j \in DOMAIN codes : Sain(codes'[j])
  BY <1>2 DEF CodesSains
<1>4. DOMAIN codes' = DOMAIN codes /\ codes' = [j \in DOMAIN codes |-> codes'[j]]
  BY <1>2
<1>5. QED
  BY <1>3, <1>4, CodesChanges

LEMMA SaisiePassee ==
    ASSUME SaisiesTypees, DOMAIN codes \subseteq DOMAIN codes', NEW r \in Requetes,
           NEW suite \in SaisieEnCours \cup {Inactive},
           suite.etape \in {"faux", "juste", "epuiser"} => suite.code \in DOMAIN codes,
           PasserSaisie(r, suite)
    PROVE  SaisiesTypees'
  BY DEF SaisiesTypees, PasserSaisie

LEMMA RequeteCodeTenue ==
    ASSUME HypothesesCodes, InvCodes, NEW r \in Requetes,
           \/ \E type \in Types : RemplacerCodes(r, type)
           \/ \E k \in DOMAIN codes : LireCode(r, k)
           \/ CreerCode(r) \/ NoterEssai(r) \/ EpuiserCode(r) \/ ConsommerCode(r)
           \/ Confirmer(r) \/ AbandonnerSaisie(r)
    PROVE  InvCodes'
<1>1. /\ \A k \in DOMAIN codes : Sain(codes[k]) /\ codes[k] \in Code
      /\ codes \in Seq(Code) /\ DOMAIN codes = 1..Len(codes) /\ Len(codes) \in Nat
      /\ titulaire \in Titulaire /\ titulaire.numero \in Nat
  BY DEF InvCodes, CodesSains, Sain, Titulaire
<1>2. saisie[r] \in SaisieEnCours \cup {Inactive} /\ Inactive.etape = "libre"
  BY DEF InvCodes, SaisiesTypees, Inactive
<1>3. ASSUME CodesSains', DOMAIN codes \subseteq DOMAIN codes', titulaire' \in Titulaire,
             NEW suite \in SaisieEnCours \cup {Inactive}, PasserSaisie(r, suite),
             suite.etape \in {"faux", "juste", "epuiser"} => suite.code \in DOMAIN codes
      PROVE  InvCodes'
  BY <1>3, SaisiePassee DEF InvCodes
<1>4. ASSUME UNCHANGED codes PROVE CodesSains' /\ DOMAIN codes \subseteq DOMAIN codes'
  BY <1>4 DEF InvCodes, CodesSains
<1>5. CASE \E type \in Types : RemplacerCodes(r, type)
  <2>1. PICK type \in Types : RemplacerCodes(r, type)
    BY <1>5
  <2> DEFINE suite == [etape |-> "creer", type |-> type, numero |-> titulaire.numero]
  <2>2. suite \in SaisieEnCours /\ suite.etape = "creer"
    BY <1>1 DEF SaisieEnCours
  <2>3. PasserSaisie(r, suite) /\ UNCHANGED titulaire
    BY <2>1 DEF RemplacerCodes, CommencerSaisie, PasserSaisie
  <2>4. codes' = [k \in DOMAIN codes |->
                     IF type # "reset_password" /\ codes[k].type = type
                     THEN Clore(codes[k], "autre") ELSE codes[k]]
    BY <2>1 DEF RemplacerCodes
  <2>5. CodesSains' /\ DOMAIN codes' = DOMAIN codes
    BY <2>4, <1>1, CloreSain, CodesChanges DEF InvCodes
  <2> HIDE DEF suite
  <2>6. QED
    BY <2>2, <2>3, <2>5, <1>1, <1>3
<1>6. CASE \E k \in DOMAIN codes : LireCode(r, k)
  <2>1. PICK k \in DOMAIN codes, etape \in {"faux", "juste"} :
           /\ CommencerSaisie(r, [etape |-> etape, code |-> k])
           /\ UNCHANGED <<titulaire, codes>>
    BY <1>6 DEF LireCode
  <2>2. [etape |-> etape, code |-> k] \in SaisieEnCours
    BY <1>1 DEF SaisieEnCours
  <2>3. QED
    BY <2>1, <2>2, <1>1, <1>3, <1>4 DEF CommencerSaisie, PasserSaisie
<1>7. CASE CreerCode(r)
  <2>1. saisie[r] \in [etape : {"creer"}, type : Types, numero : Nat]
    BY <1>2, <1>7 DEF CreerCode, EnSaisie, SaisieEnCours
  <2> DEFINE c == [type |-> saisie[r].type, ouvert |-> TRUE, expire |-> FALSE,
                   tentatives |-> 0, numero |-> saisie[r].numero, servi |-> 0,
                   fin |-> "aucune"]
  <2>2. Sain(c) /\ c \in Code
    BY <2>1 DEF Code, Sain
  <2>3. codes' = Append(codes, c) /\ UNCHANGED titulaire /\ PasserSaisie(r, Inactive)
    BY <1>7 DEF CreerCode
  <2> HIDE DEF c
  <2>4. codes' \in Seq(Code) /\ DOMAIN codes \subseteq DOMAIN codes'
    BY <2>2, <2>3, <1>1
  <2>5. \A k \in DOMAIN codes' : (k \in DOMAIN codes /\ codes'[k] = codes[k]) \/ codes'[k] = c
    BY <2>2, <2>3, <1>1
  <2>6. CodesSains'
    BY <2>2, <2>4, <2>5, <1>1 DEF CodesSains
  <2>7. QED
    BY <2>3, <2>4, <2>6, <1>1, <1>2, <1>3
<1>8. CASE NoterEssai(r)
  <2> DEFINE k == saisie[r].code
             c == [codes[k] EXCEPT !.tentatives = @ + 1]
             suite == IF codes'[k].tentatives >= OTP_MAX_TENTATIVES
                      THEN [etape |-> "epuiser", code |-> k] ELSE Inactive
  <2>1. k \in DOMAIN codes
    BY <1>8 DEF NoterEssai, EnSaisie, InvCodes, SaisiesTypees
  <2>2. suite \in SaisieEnCours \cup {Inactive}
    BY <2>1, <1>1 DEF SaisieEnCours
  <2>3. /\ codes' = [codes EXCEPT ![k] = c]
        /\ PasserSaisie(r, suite) /\ UNCHANGED titulaire
    BY <1>8 DEF NoterEssai
  <2>4. suite.etape \in {"faux", "juste", "epuiser"} => suite.code \in DOMAIN codes
    BY <2>1, <1>2
  <2>5. Sain(c)
    BY <2>1, <1>1, EssaiSain
  <2> HIDE DEF suite, c, k
  <2>6. CodesSains' /\ DOMAIN codes' = DOMAIN codes
    BY <2>1, <2>3, <2>5, CodeChange DEF InvCodes
  <2>7. QED
    BY <2>2, <2>3, <2>4, <2>6, <1>1, <1>3
<1>9. CASE EpuiserCode(r)
  <2> DEFINE k == saisie[r].code
  <2>1. k \in DOMAIN codes
    BY <1>9 DEF EpuiserCode, EnSaisie, InvCodes, SaisiesTypees
  <2>2. /\ codes' = [codes EXCEPT ![k] = Clore(codes[k], "autre")]
        /\ PasserSaisie(r, Inactive) /\ UNCHANGED titulaire
    BY <1>9 DEF EpuiserCode
  <2> HIDE DEF k
  <2>3. CodesSains' /\ DOMAIN codes' = DOMAIN codes
    BY <2>1, <2>2, <1>1, CloreSain, CodeChange DEF InvCodes
  <2>4. QED
    BY <2>2, <2>3, <1>1, <1>2, <1>3
<1>10. CASE ConsommerCode(r)
  <2> DEFINE k == saisie[r].code
             c == Servir(codes[k])
             suite == [etape |-> "confirmer", type |-> codes[k].type]
  <2>1. k \in DOMAIN codes
    BY <1>10 DEF ConsommerCode, EnSaisie, InvCodes, SaisiesTypees
  <2>2. CASE ~EncoreOuvert(k)
    <3>1. UNCHANGED <<codes, titulaire>> /\ PasserSaisie(r, Inactive)
      BY <2>2, <1>10 DEF ConsommerCode
    <3>2. QED
      BY <3>1, <1>1, <1>2, <1>3, <1>4
  <2>3. CASE EncoreOuvert(k)
    <3>1. codes' = [codes EXCEPT ![k] = c] /\ PasserSaisie(r, suite) /\ UNCHANGED titulaire
      BY <2>3, <1>10 DEF ConsommerCode
    <3>2. suite \in SaisieEnCours /\ suite.etape = "confirmer"
      BY <2>1, <1>1 DEF SaisieEnCours, Code
    <3>3. Sain(c)
      BY <2>1, <2>3, <1>1, ServirSain DEF EncoreOuvert
    <3> HIDE DEF suite, c, k
    <3>4. CodesSains' /\ DOMAIN codes' = DOMAIN codes
      BY <2>1, <3>1, <3>3, CodeChange DEF InvCodes
    <3>5. QED
      BY <3>1, <3>2, <3>4, <1>1, <1>3
  <2>4. QED
    BY <2>2, <2>3
<1>11. CASE Confirmer(r)
  <2>1. titulaire' \in Titulaire
    BY <1>1, <1>11 DEF Confirmer, Titulaire
  <2>2. QED
    BY <2>1, <1>2, <1>3, <1>4, <1>11 DEF Confirmer
<1>12. CASE AbandonnerSaisie(r)
  BY <1>1, <1>2, <1>3, <1>4, <1>12 DEF AbandonnerSaisie
<1>13. QED
  BY <1>5, <1>6, <1>7, <1>8, <1>9, <1>10, <1>11, <1>12

LEMMA NextInvCodes ==
    ASSUME HypothesesCodes, InvCodes, [NextCodes]_varsCodes
    PROVE  InvCodes'
<1>1. CASE \E k \in DOMAIN codes : ExpirerCode(k) \/ PurgerCode(k)
  <2>1. PICK k \in DOMAIN codes : ExpirerCode(k) \/ PurgerCode(k)
    BY <1>1
  <2>2. PICK c \in {[codes[k] EXCEPT !.expire = TRUE], Clore(codes[k], "autre")} :
           codes' = [codes EXCEPT ![k] = c]
    BY <2>1 DEF ExpirerCode, PurgerCode
  <2>3. Sain(codes[k])
    BY DEF InvCodes, CodesSains
  <2>4. Sain(c)
    BY <2>2, <2>3, CloreSain, EssaiSain
  <2>5. CodesSains' /\ DOMAIN codes' = DOMAIN codes
    BY <2>2, <2>4, CodeChange DEF InvCodes
  <2>6. QED
    BY <2>1, <2>5 DEF ExpirerCode, PurgerCode, InvCodes, SaisiesTypees
<1>2. CASE ChangerNumero
  <2>1. titulaire' \in Titulaire
    <3>1. titulaire.numero + 1 \in Nat
      BY DEF InvCodes, Titulaire
    <3>2. \A n \in Nat :
             [titulaire EXCEPT !.numero = n, !.telephoneVerifie = FALSE] \in Titulaire
      BY DEF InvCodes, Titulaire
    <3>3. QED
      BY <1>2, <3>1, <3>2 DEF ChangerNumero
  <2>2. UNCHANGED <<codes, saisie>>
    BY <1>2 DEF ChangerNumero
  <2>3. QED
    BY <2>1, <2>2 DEF InvCodes, SaisiesTypees, CodesSains
<1>3. CASE EffacerCodes
  <2>1. codes' = [k \in DOMAIN codes |-> Clore(codes[k], "autre")]
    BY <1>3 DEF EffacerCodes
  <2>2. CodesSains' /\ DOMAIN codes' = DOMAIN codes
    BY <2>1, CloreSain, CodesChanges DEF InvCodes, CodesSains
  <2>3. QED
    BY <2>2, <1>3 DEF EffacerCodes, InvCodes, Titulaire, SaisiesTypees
<1>4. CASE UNCHANGED varsCodes
  BY <1>4 DEF varsCodes, InvCodes, SaisiesTypees, CodesSains
<1>5. QED
  BY <1>1, <1>2, <1>3, <1>4, RequeteCodeTenue DEF NextCodes

\* A code is accepted once at most, and never after what closed it first.
THEOREM CodesServentUneFois == HypothesesCodes /\ SpecCodes => []CodeUneFois
<1> SUFFICES ASSUME HypothesesCodes PROVE SpecCodes => []CodeUneFois
  OBVIOUS
<1>1. InitCodes => InvCodes
  BY DEF InitCodes, InvCodes, Titulaire, SaisiesTypees, CodesSains, Inactive
<1>2. InvCodes /\ [NextCodes]_varsCodes => InvCodes'
  BY NextInvCodes
<1>3. InvCodes => CodeUneFois
  BY DEF InvCodes, CodesSains, Sain, CodeUneFois
<1>4. QED
  BY <1>1, <1>2, <1>3, PTL DEF SpecCodes

-----------------------------------------------------------------------------
(* The sessions *)

DemarcheEnCours ==
    [etape : {"ouvrir", "confirmer_adresse"}, tv : Nat]
    \cup [etape : {"lire_compte", "incrementer", "detruire", "invalider"}]
    \cup [etape : {"inscrire"}, jeton : Nat]

VueDuCompte == [actif : BOOLEAN, tokenVersion : Nat]

SessionsTypees ==
    /\ compte \in LigneCompte
    /\ version \in Seq(Nat)
    /\ demarche \in [Demarches -> DemarcheEnCours \cup {SansDemarche}]
    /\ cache \in [Ouvriers -> VueDuCompte \cup {Vide}]
    /\ lecture \in [ouvrier : Ouvriers, vue : VueDuCompte] \cup {AucuneLecture}

EnRevocation == \E r \in Demarches : demarche[r].etape \in AInvalider

\* The copy of a worker is the account, unless the news of a change is still to come.
CopiesJustes ==
    \A w \in Ouvriers :
        cache[w] # Vide =>
            cache[w] = Vue(compte) \/ w \in annonces \cup perimes \/ ~Redis \/ EnRevocation

InvSessions == SessionsTypees /\ CopiesJustes /\ SessionsFermees

LEMMA InitInvSessions ==
    ASSUME HypothesesSessions, InitSessions
    PROVE  InvSessions
<1>1. SessionsTypees
  <2>1. compte \in LigneCompte
    BY DEF InitSessions, LigneCompte
  <2>2. version \in Seq(Nat)
    BY DEF InitSessions
  <2>3. QED
    BY <2>1, <2>2 DEF InitSessions, SessionsTypees
<1>2. CopiesJustes
  BY DEF InitSessions, CopiesJustes
<1>3. SessionsFermees
  BY DEF InitSessions, SessionsFermees
<1>4. QED
  BY <1>1, <1>2, <1>3 DEF InvSessions

\* A request that has nothing to tell leaves the copies as they are, and the sessions too when
\* it neither opens nor closes one.
LEMMA DemarcheSansEffet ==
    ASSUME InvSessions, NEW r \in Demarches,
           NEW suite \in DemarcheEnCours \cup {SansDemarche}, PasserDemarche(r, suite),
           demarche[r].etape \notin AInvalider,
           compte' \in LigneCompte, Vue(compte') = Vue(compte),
           UNCHANGED <<version, varsCopies, croisees>>, jetons' \subseteq jetons
    PROVE  InvSessions'
<1> USE DEF InvSessions
<1>1. demarche' \in [Demarches -> DemarcheEnCours \cup {SansDemarche}]
  BY DEF SessionsTypees, PasserDemarche
<1>2. \A o \in Demarches : demarche[o].etape \in AInvalider => demarche'[o] = demarche[o]
  BY DEF SessionsTypees, PasserDemarche
<1>3. compte'.tokenVersion = compte.tokenVersion
  BY DEF Vue
<1>4. SessionsTypees'
  BY <1>1 DEF SessionsTypees, varsCopies
<1>5. CopiesJustes'
  <2>1. EnRevocation => EnRevocation'
    BY <1>2 DEF EnRevocation
  <2>2. QED
    BY <2>1 DEF CopiesJustes, varsCopies
<1>6. SessionsFermees'
  <2>1. \A o \in Demarches : AEtape(o, "detruire") => AEtape(o, "detruire")'
    BY <1>2 DEF AEtape, AInvalider
  <2>2. QED
    BY <2>1, <1>3 DEF SessionsFermees
<1>7. QED
  BY <1>4, <1>5, <1>6

\* A request that has something to tell: the copies may be stale until it has told it.
LEMMA DemarcheQuiRevoque ==
    ASSUME InvSessions, NEW r \in Demarches,
           NEW suite \in DemarcheEnCours, suite.etape \in AInvalider, PasserDemarche(r, suite),
           compte' \in LigneCompte, UNCHANGED <<version, varsCopies, croisees>>,
           \/ suite.etape = "detruire"
           \/ jetons' = {}
           \/ /\ compte'.tokenVersion = compte.tokenVersion
              /\ jetons' = jetons /\ ~AEtape(r, "detruire")
    PROVE  InvSessions'
<1> USE DEF InvSessions
<1>1. demarche' = [demarche EXCEPT ![r] = suite] /\ demarche'[r] = suite
  BY DEF SessionsTypees, PasserDemarche
<1>2. SessionsTypees'
  BY <1>1 DEF SessionsTypees, varsCopies
<1>3. CopiesJustes'
  BY <1>1 DEF CopiesJustes, EnRevocation
<1>4. SessionsFermees'
  <2>1. CASE suite.etape = "detruire"
    BY <2>1, <1>1 DEF SessionsFermees, AEtape
  <2>2. CASE jetons' = {}
    BY <2>2 DEF SessionsFermees
  <2>3. CASE compte'.tokenVersion = compte.tokenVersion /\ jetons' = jetons
             /\ ~AEtape(r, "detruire")
    <3>1. \A o \in Demarches : AEtape(o, "detruire") => AEtape(o, "detruire")'
      BY <2>3, <1>1 DEF AEtape, SessionsTypees
    <3>2. QED
      BY <2>3, <3>1 DEF SessionsFermees
  <2>4. QED
    BY <2>1, <2>2, <2>3
<1>5. QED
  BY <1>2, <1>3, <1>4

LEMMA OuvrirTenu ==
    ASSUME HypothesesSessions, InvSessions, NEW r \in Demarches, Ouvrir(r)
    PROVE  InvSessions'
<1>1. /\ compte \in LigneCompte /\ compte.tokenVersion \in Nat
      /\ demarche[r] \in DemarcheEnCours \cup {SansDemarche}
      /\ SansDemarche.etape = "libre"
  BY DEF InvSessions, SessionsTypees, LigneCompte, SansDemarche
<1>2. \A e \in {"ouvrir", "confirmer_adresse"} :
         [etape |-> e, tv |-> compte.tokenVersion] \in DemarcheEnCours
  BY <1>1 DEF DemarcheEnCours
<1>3. CASE LireConnexion(r)
  BY <1>1, <1>2, <1>3, DemarcheSansEffet
     DEF LireConnexion, CommencerDemarche, PasserDemarche, lignes, AInvalider
<1>4. CASE LireConfirmation(r)
  BY <1>1, <1>2, <1>4, DemarcheSansEffet
     DEF LireConfirmation, CommencerDemarche, PasserDemarche, lignes, AInvalider
<1>5. CASE ConfirmerAdresse(r)
  <2>1. demarche[r] \in [etape : {"ouvrir", "confirmer_adresse"}, tv : Nat]
    BY <1>1, <1>5 DEF ConfirmerAdresse, AEtape, DemarcheEnCours
  <2>2. [etape |-> "ouvrir", tv |-> demarche[r].tv] \in DemarcheEnCours
    BY <2>1 DEF DemarcheEnCours
  <2>3. compte' \in LigneCompte /\ Vue(compte') = Vue(compte)
    BY <1>1, <1>5 DEF ConfirmerAdresse, LigneCompte, Vue
  <2>4. QED
    BY <2>2, <2>3, <1>5, DemarcheSansEffet DEF ConfirmerAdresse, AEtape, AInvalider
<1>6. CASE LireCompte(r)
  BY <1>1, <1>2, <1>6, DemarcheSansEffet DEF LireCompte, lignes, AEtape, AInvalider
<1>7. CASE \E n \in 1..JetonsMax : ConsommerJeton(r, n)
  <2>1. [etape |-> "lire_compte"] \in DemarcheEnCours
    BY DEF DemarcheEnCours
  <2>2. QED
    BY <2>1, <1>1, <1>7, DemarcheSansEffet
       DEF ConsommerJeton, CommencerDemarche, PasserDemarche, AInvalider
<1>8. CASE OuvrirSession(r)
  <2> DEFINE n == Len(version) + 1
             tv == demarche[r].tv
  <2>1. tv \in Nat
    BY <1>1, <1>8 DEF OuvrirSession, AEtape, DemarcheEnCours
  <2>2. /\ jetons' = jetons \cup {n} /\ version' = Append(version, tv)
        /\ croisees' = IF tv # compte.tokenVersion THEN croisees \cup {n} ELSE croisees
        /\ demarche' = [demarche EXCEPT ![r] = SansDemarche]
        /\ UNCHANGED <<compte, noire, varsCopies>> /\ demarche[r].etape = "ouvrir"
    BY <1>8 DEF OuvrirSession, PasserDemarche, AEtape
  <2>3. version \in Seq(Nat)
    BY DEF InvSessions, SessionsTypees
  <2>4. /\ version' \in Seq(Nat) /\ DOMAIN version' = DOMAIN version \cup {n}
        /\ \A k \in DOMAIN version : version'[k] = version[k]
        /\ version'[n] = tv
    BY <2>1, <2>2, <2>3
  <2>5. SessionsTypees'
    BY <2>2, <2>4 DEF InvSessions, SessionsTypees, varsCopies
  <2>6. \A o \in Demarches : demarche[o].etape # "ouvrir" => demarche'[o] = demarche[o]
    BY <2>2 DEF InvSessions, SessionsTypees
  <2>7. CopiesJustes'
    <3>1. EnRevocation => EnRevocation'
      BY <2>6 DEF EnRevocation, AInvalider
    <3>2. QED
      BY <3>1, <2>2 DEF InvSessions, CopiesJustes, varsCopies
  <2>8. SessionsFermees'
    <3>1. \A o \in Demarches : AEtape(o, "detruire") => AEtape(o, "detruire")'
      BY <2>6 DEF AEtape
    <3> HIDE DEF n, tv
    <3>2. CASE \E o \in Demarches : AEtape(o, "detruire")
      BY <3>1, <3>2 DEF SessionsFermees
    <3>3. CASE ~\E o \in Demarches : AEtape(o, "detruire")
      <4>1. jetons \subseteq {k \in DOMAIN version : version[k] = compte.tokenVersion}
                             \cup croisees
        BY <3>3 DEF InvSessions, SessionsFermees
      <4>2. compte' = compte
        BY <2>2
      <4>3. \A k \in jetons' :
               k \in croisees' \/ (k \in DOMAIN version' /\ version'[k] = compte'.tokenVersion)
        BY <4>1, <4>2, <2>2, <2>4
      <4>4. QED
        BY <4>3 DEF SessionsFermees
    <3>4. QED
      BY <3>2, <3>3
  <2>9. QED
    BY <2>5, <2>7, <2>8 DEF InvSessions
<1>9. QED
  BY <1>3, <1>4, <1>5, <1>6, <1>7, <1>8 DEF Ouvrir

LEMMA FermerTenu ==
    ASSUME HypothesesSessions, InvSessions, NEW r \in Demarches, Fermer(r)
    PROVE  InvSessions'
<1>1. /\ compte \in LigneCompte /\ compte.tokenVersion \in Nat
      /\ demarche[r] \in DemarcheEnCours \cup {SansDemarche}
      /\ SansDemarche.etape = "libre"
  BY DEF InvSessions, SessionsTypees, LigneCompte, SansDemarche
<1>2. \A e \in {"incrementer", "detruire", "invalider"} : [etape |-> e] \in DemarcheEnCours
  BY DEF DemarcheEnCours
<1>3. CASE ChangerMotDePasse(r)
  BY <1>1, <1>2, <1>3, DemarcheSansEffet
     DEF ChangerMotDePasse, CommencerDemarche, PasserDemarche, lignes, AInvalider
<1>4. CASE IncrementerVersion(r)
  <2>1. compte' \in LigneCompte
    <3>1. compte.tokenVersion + 1 \in Nat
      BY <1>1
    <3>2. \A n \in Nat : [compte EXCEPT !.tokenVersion = n] \in LigneCompte
      BY <1>1 DEF LigneCompte
    <3>3. QED
      BY <3>1, <3>2, <1>4 DEF IncrementerVersion
  <2> DEFINE suite == [etape |-> "detruire"]
  <2>2. suite \in DemarcheEnCours /\ suite.etape = "detruire" /\ suite.etape \in AInvalider
    BY <1>2 DEF AInvalider
  <2>3. PasserDemarche(r, suite) /\ UNCHANGED <<version, varsCopies, croisees>>
    BY <1>4 DEF IncrementerVersion
  <2> HIDE DEF suite
  <2>4. QED
    BY <2>1, <2>2, <2>3, DemarcheQuiRevoque
<1>5. CASE DetruireSessions(r)
  <2> DEFINE suite == [etape |-> "invalider"]
  <2>1. suite \in DemarcheEnCours /\ suite.etape \in AInvalider
    BY <1>2 DEF AInvalider
  <2>2. /\ PasserDemarche(r, suite) /\ UNCHANGED <<compte, version, varsCopies, croisees>>
        /\ jetons' = {}
    BY <1>5 DEF DetruireSessions, JetonsRestants
  <2> HIDE DEF suite
  <2>3. QED
    BY <2>1, <2>2, <1>1, DemarcheQuiRevoque
<1>6. CASE \E n \in 1..JetonsMax : SeDeconnecter(r, n)
  <2>1. PICK n \in 1..JetonsMax : SeDeconnecter(r, n)
    BY <1>6
  <2>2. [etape |-> "inscrire", jeton |-> n] \in DemarcheEnCours
    BY <2>1 DEF DemarcheEnCours, HypothesesSessions
  <2>3. QED
    BY <2>1, <2>2, <1>1, DemarcheSansEffet
       DEF SeDeconnecter, CommencerDemarche, PasserDemarche, AInvalider
<1>7. CASE Inscrire(r)
  BY <1>1, <1>7, DemarcheSansEffet DEF Inscrire, AEtape, AInvalider
<1>8. CASE Pseudonymiser(r)
  <2>1. compte' \in LigneCompte
    <3>1. compte.tokenVersion + 1 \in Nat
      BY <1>1
    <3>2. \A n \in Nat : [compte EXCEPT !.actif = FALSE, !.emailVerifie = FALSE,
                                        !.supprime = TRUE, !.tokenVersion = n] \in LigneCompte
      BY <1>1 DEF LigneCompte
    <3>3. QED
      BY <3>1, <3>2, <1>8 DEF Pseudonymiser
  <2> DEFINE suite == [etape |-> "invalider"]
  <2>2. suite \in DemarcheEnCours /\ suite.etape \in AInvalider
    BY <1>2 DEF AInvalider
  <2>3. /\ PasserDemarche(r, suite) /\ UNCHANGED <<version, varsCopies, croisees>>
        /\ jetons' = {}
    BY <1>8 DEF Pseudonymiser, CommencerDemarche, PasserDemarche
  <2> HIDE DEF suite
  <2>4. QED
    BY <2>1, <2>2, <2>3, DemarcheQuiRevoque
<1>9. CASE \E actif \in BOOLEAN : DefinirActif(r, actif)
  <2>1. PICK actif \in BOOLEAN : DefinirActif(r, actif)
    BY <1>9
  <2>2. compte' \in LigneCompte /\ compte'.tokenVersion = compte.tokenVersion
    BY <2>1, <1>1 DEF DefinirActif, LigneCompte
  <2> DEFINE suite == [etape |-> "invalider"]
  <2>3. suite \in DemarcheEnCours /\ suite.etape \in AInvalider
    BY <1>2 DEF AInvalider
  <2>4. /\ PasserDemarche(r, suite) /\ UNCHANGED <<jetons, version, varsCopies, croisees>>
        /\ ~AEtape(r, "detruire")
    BY <2>1, <1>1 DEF DefinirActif, CommencerDemarche, PasserDemarche, AEtape
  <2> HIDE DEF suite
  <2>5. QED
    BY <2>2, <2>3, <2>4, DemarcheQuiRevoque
<1>10. CASE InvaliderCache(r)
  <2>1. /\ cache' = [cache EXCEPT ![Ouvrier[r]] = Vide]
        /\ annonces' = annonces \cup Destinataires(r)
        /\ perimes' = perimes \ {Ouvrier[r]}
        /\ demarche' = [demarche EXCEPT ![r] = SansDemarche]
        /\ UNCHANGED <<lignes, lecture, croisees>>
        /\ demarche[r].etape = "invalider"
    BY <1>10 DEF InvaliderCache, PasserDemarche, AEtape
  <2>2. SessionsTypees'
    BY <2>1 DEF InvSessions, SessionsTypees, lignes
  <2>3. CopiesJustes'
    <3>1. \A w \in Ouvriers : Redis => cache'[w] = Vide \/ w \in annonces'
      BY <2>1 DEF InvSessions, SessionsTypees, Destinataires
    <3>2. QED
      BY <3>1, <2>1 DEF CopiesJustes
  <2>4. SessionsFermees'
    <3>1. \A o \in Demarches : AEtape(o, "detruire") => AEtape(o, "detruire")'
      BY <2>1 DEF AEtape, InvSessions, SessionsTypees
    <3>2. QED
      BY <3>1, <2>1 DEF InvSessions, SessionsFermees, lignes
  <2>5. QED
    BY <2>2, <2>3, <2>4 DEF InvSessions
<1>11. QED
  BY <1>3, <1>4, <1>5, <1>6, <1>7, <1>8, <1>9, <1>10 DEF Fermer

LEMMA AbandonTenu ==
    ASSUME HypothesesSessions, InvSessions, NEW r \in Demarches, AbandonnerDemarche(r)
    PROVE  InvSessions'
<1>1. /\ demarche' = [demarche EXCEPT ![r] = SansDemarche]
      /\ croisees' = IF AEtape(r, "detruire") THEN croisees \cup jetons ELSE croisees
      /\ perimes' = IF demarche[r].etape \in AInvalider THEN Ouvriers ELSE perimes
      /\ UNCHANGED <<lignes, cache, lecture, annonces>>
  BY DEF AbandonnerDemarche, PasserDemarche
<1>2. SessionsTypees'
  BY <1>1 DEF InvSessions, SessionsTypees, lignes
<1>3. \A o \in Demarches \ {r} : demarche'[o] = demarche[o]
  BY <1>1 DEF InvSessions, SessionsTypees
<1>4. CopiesJustes'
  <2>1. CASE demarche[r].etape \in AInvalider
    BY <2>1, <1>1 DEF CopiesJustes
  <2>2. CASE demarche[r].etape \notin AInvalider
    <3>1. EnRevocation => EnRevocation'
      BY <2>2, <1>3 DEF EnRevocation
    <3>2. QED
      BY <3>1, <2>2, <1>1 DEF InvSessions, CopiesJustes, lignes
  <2>3. QED
    BY <2>1, <2>2
<1>5. SessionsFermees'
  <2>1. CASE AEtape(r, "detruire")
    BY <2>1, <1>1 DEF SessionsFermees, lignes
  <2>2. CASE ~AEtape(r, "detruire")
    <3>1. \A o \in Demarches : AEtape(o, "detruire") => AEtape(o, "detruire")'
      BY <2>2, <1>3 DEF AEtape
    <3>2. QED
      BY <3>1, <2>2, <1>1 DEF InvSessions, SessionsFermees, lignes
  <2>3. QED
    BY <2>1, <2>2
<1>6. QED
  BY <1>2, <1>4, <1>5 DEF InvSessions

\* The copies come and go, whatever the requests do.
LEMMA CopieTenue ==
    ASSUME HypothesesSessions, InvSessions,
           \/ \E w \in Ouvriers : RecevoirInvalidation(w) \/ LireAcces(w) \/ ExpirerCopie(w)
           \/ CopierCompte
    PROVE  InvSessions'
<1>1. UNCHANGED <<compte, jetons, version, demarche, croisees>>
  BY DEF RecevoirInvalidation, LireAcces, ExpirerCopie, CopierCompte, lignes
<1>2. SessionsFermees'
  BY <1>1 DEF InvSessions, SessionsFermees, AEtape
<1>3. EnRevocation' = EnRevocation /\ Vue(compte') = Vue(compte)
  BY <1>1 DEF EnRevocation
<1>4. ASSUME NEW w \in Ouvriers, RecevoirInvalidation(w) \/ ExpirerCopie(w)
      PROVE  SessionsTypees' /\ CopiesJustes'
  <2>1. /\ cache' = [cache EXCEPT ![w] = Vide] /\ lecture' = lecture
        /\ annonces \subseteq annonces' \cup {w} /\ perimes' = perimes \ {w}
    BY <1>4 DEF RecevoirInvalidation, ExpirerCopie
  <2>2. SessionsTypees'
    BY <2>1, <1>1 DEF InvSessions, SessionsTypees
  <2>3. QED
    BY <2>1, <2>2, <1>3 DEF InvSessions, SessionsTypees, CopiesJustes
<1>5. ASSUME NEW w \in Ouvriers, LireAcces(w)
      PROVE  SessionsTypees' /\ CopiesJustes'
  <2>1. Vue(compte) \in VueDuCompte
    BY DEF InvSessions, SessionsTypees, LigneCompte, Vue, VueDuCompte
  <2>2. lecture' = [ouvrier |-> w, vue |-> Vue(compte)] /\ UNCHANGED <<cache, annonces, perimes>>
    BY <1>5 DEF LireAcces
  <2>3. QED
    BY <2>1, <2>2, <1>1, <1>3 DEF InvSessions, SessionsTypees, CopiesJustes
<1>6. ASSUME CopierCompte
      PROVE  SessionsTypees' /\ CopiesJustes'
  <2> DEFINE w == lecture.ouvrier
  <2>1. lecture \in [ouvrier : Ouvriers, vue : VueDuCompte]
    BY <1>6 DEF CopierCompte, InvSessions, SessionsTypees
  <2>2. /\ cache' = [cache EXCEPT ![w] = lecture.vue] /\ lecture' = AucuneLecture
        /\ perimes' = IF lecture.vue # Vue(compte) THEN perimes \cup {w} ELSE perimes \ {w}
        /\ annonces' = annonces
    BY <1>6 DEF CopierCompte
  <2>3. SessionsTypees'
    BY <2>1, <2>2, <1>1 DEF InvSessions, SessionsTypees
  <2>4. \A o \in Ouvriers \ {w} : cache'[o] = cache[o] /\ (o \in perimes => o \in perimes')
    BY <2>2 DEF InvSessions, SessionsTypees
  <2>5. cache'[w] = lecture.vue /\ (lecture.vue = Vue(compte) \/ w \in perimes')
    BY <2>1, <2>2 DEF InvSessions, SessionsTypees
  <2> HIDE DEF w
  <2>6. CopiesJustes'
    BY <2>2, <2>4, <2>5, <1>3 DEF InvSessions, CopiesJustes
  <2>7. QED
    BY <2>3, <2>6
<1>7. QED
  BY <1>2, <1>4, <1>5, <1>6 DEF InvSessions

LEMMA NextInvSessions ==
    ASSUME HypothesesSessions, InvSessions, [NextSessions]_varsSessions
    PROVE  InvSessions'
<1>1. CASE UNCHANGED varsSessions
  BY <1>1 DEF varsSessions, lignes, varsCopies, InvSessions, SessionsTypees, CopiesJustes,
              EnRevocation, SessionsFermees, AEtape
<1>2. QED
  BY <1>1, OuvrirTenu, FermerTenu, AbandonTenu, CopieTenue DEF NextSessions

\* What was revoked is of no use any more: no worker accepts an access token of another version
\* of the account once it has the news, and no refresh token of another version remains.
THEOREM RevocationsTenues == HypothesesSessions /\ SpecSessions => []SessionsRevoquees
<1> SUFFICES ASSUME HypothesesSessions PROVE SpecSessions => []SessionsRevoquees
  OBVIOUS
<1>1. InitSessions => InvSessions
  BY InitInvSessions
<1>2. InvSessions /\ [NextSessions]_varsSessions => InvSessions'
  BY NextInvSessions
<1>3. InvSessions => SessionsRevoquees
  <2> SUFFICES ASSUME InvSessions PROVE AccesAJour
    BY DEF InvSessions, SessionsRevoquees
  <2> SUFFICES ASSUME NEW w \in Ouvriers, NEW n \in DOMAIN version, Accepte(w, n), Redis,
                      w \notin annonces \cup perimes, ~EnRevocation
               PROVE  compte.actif /\ version[n] = compte.tokenVersion
    BY DEF AccesAJour, EnRevocation
  <2>1. cache[w] = Vue(compte)
    BY DEF Accepte, InvSessions, CopiesJustes
  <2>2. QED
    BY <2>1 DEF Accepte, Vue
<1>4. QED
  BY <1>1, <1>2, <1>3, PTL DEF SpecSessions

-----------------------------------------------------------------------------
(* The staff *)

GesteDePersonnel ==
    {q \in [etape : {"nommer", "ecrire_personnel", "quitter_point", "rejoindre_point"},
            agents : SUBSET Employes, agent : Employes,
            ancien : Points \cup {Vacant}, nouveau : Points] :
        q.agents = {q.agent}}
GesteDePoint ==
    {q \in [etape : {"ecrire_point", "detacher", "rattacher"}, agents : SUBSET Employes,
            point : Points, ancien : Employes \cup {Vacant},
            nouveau : Employes \cup {Vacant}] :
        q.agents = {q.ancien, q.nouveau} \ {Vacant} /\ q.ancien # q.nouveau}

AgentsTypes ==
    /\ point \in [Employes -> Points \cup {Vacant, Absent}]
    /\ responsable \in [Points -> Employes \cup {Vacant}]
    /\ bureau \in [Gestes -> GesteDePersonnel \cup GesteDePoint \cup {AuRepos}]
    /\ croises \subseteq Employes

\* The agent a is in charge of no point but those of S.
PiloteDans(a, S) == \A p \in Points : responsable[p] = a => p \in S

\* What is left to write repairs what is written, for an agent that the request q alone moves.
GesteSuivi(q, a) ==
    /\ q.etape = "ecrire_personnel" => PiloteDans(a, {q.ancien})
    /\ q.etape = "quitter_point" => PiloteDans(a, {q.ancien}) /\ point[a] = q.nouveau
    /\ q.etape \in {"nommer", "rejoindre_point"} => PiloteDans(a, {}) /\ point[a] = q.nouveau
    /\ q.etape = "ecrire_point" /\ a = q.nouveau => PiloteDans(a, {})
    /\ q.etape = "ecrire_point" /\ a = q.ancien => PiloteDans(a, {q.point})
    /\ q.etape \in {"detacher", "rattacher"} /\ a = q.nouveau => PiloteDans(a, {q.point})
    /\ q.etape \in {"detacher", "rattacher"} /\ a = q.ancien => PiloteDans(a, {})

\* The agents a request moves have an account, and so have those in charge of a point.
AgentsConnus ==
    /\ \A p \in Points : responsable[p] # Vacant => point[responsable[p]] # Absent
    /\ \A r \in Gestes : \A a \in Deplaces(r) : point[a] # Absent

AgentsSuivis ==
    \A a \in Employes \ croises :
        /\ (\A r \in Gestes : a \notin Deplaces(r)) => PiloteDans(a, {point[a]})
        /\ \A r \in Gestes : a \in Deplaces(r) =>
              /\ GesteSuivi(bureau[r], a)
              /\ \A o \in Gestes : a \in Deplaces(o) => o = r

InvAgents == AgentsTypes /\ AgentsConnus /\ AgentsSuivis

LEMMA GestesDisjoints ==
    /\ \A q \in GesteDePersonnel :
          q.etape \in {"nommer", "ecrire_personnel", "quitter_point", "rejoindre_point"}
    /\ \A q \in GesteDePoint : q.etape \in {"ecrire_point", "detacher", "rattacher"}
    /\ AuRepos.etape = "libre"
    /\ AuRepos \notin GesteDePersonnel \cup GesteDePoint
  BY DEF GesteDePersonnel, GesteDePoint, AuRepos

\* The agents a request moves once the request r has stepped to q.
LEMMA DeplacesApres ==
    ASSUME AgentsTypes, NEW r \in Gestes,
           NEW q \in GesteDePersonnel \cup GesteDePoint \cup {AuRepos}, PasserBureau(r, q)
    PROVE  /\ bureau' \in [Gestes -> GesteDePersonnel \cup GesteDePoint \cup {AuRepos}]
           /\ bureau'[r] = q
           /\ Deplaces(r)' = IF q = AuRepos THEN {} ELSE q.agents
           /\ \A o \in Gestes \ {r} : bureau'[o] = bureau[o] /\ Deplaces(o)' = Deplaces(o)
  BY DEF AgentsTypes, PasserBureau, Deplaces

\* A request writes: nothing changes but for the agents it moves, who are followed one step
\* further, or are where they should be when it ends.
LEMMA EcritureSuivie ==
    ASSUME AgentsTypes, AgentsSuivis, NEW r \in Gestes,
           NEW q \in GesteDePersonnel \cup GesteDePoint, q = bureau[r],
           NEW suite \in GesteDePersonnel \cup GesteDePoint \cup {AuRepos},
           suite # AuRepos => suite.agents = q.agents,
           PasserBureau(r, suite), UNCHANGED croises,
           \A a \in Employes \ q.agents :
              point'[a] = point[a] /\ \A p \in Points : responsable'[p] = a => responsable[p] = a,
           \A a \in q.agents : GesteSuivi(q, a) =>
              IF suite = AuRepos THEN PiloteDans(a, {point[a]})' ELSE GesteSuivi(suite, a)'
    PROVE  AgentsSuivis'
<1>1. /\ bureau'[r] = suite
      /\ Deplaces(r)' = IF suite = AuRepos THEN {} ELSE q.agents
      /\ \A o \in Gestes \ {r} : bureau'[o] = bureau[o] /\ Deplaces(o)' = Deplaces(o)
      /\ Deplaces(r) = q.agents
  BY DeplacesApres, GestesDisjoints DEF Deplaces
<1>2. SUFFICES ASSUME NEW a \in Employes \ croises
               PROVE  /\ (\A o \in Gestes : a \notin Deplaces(o)') => PiloteDans(a, {point[a]})'
                      /\ \A o \in Gestes : a \in Deplaces(o)' =>
                            /\ GesteSuivi(bureau[o], a)'
                            /\ \A s \in Gestes : a \in Deplaces(s)' => s = o
  BY DEF AgentsSuivis
<1>3. CASE a \in q.agents
  <2>1. \A o \in Gestes : a \in Deplaces(o) => o = r
    BY <1>1, <1>3 DEF AgentsSuivis
  <2>2. GesteSuivi(q, a)
    BY <1>1, <1>3 DEF AgentsSuivis
  <2>3. \A o \in Gestes : a \in Deplaces(o)' => o = r
    BY <2>1, <1>1
  <2>4. CASE suite = AuRepos
    BY <2>2, <2>3, <2>4, <1>1, <1>3
  <2>5. CASE suite # AuRepos
    <3>1. GesteSuivi(suite, a)' /\ a \in Deplaces(r)'
      BY <2>2, <2>5, <1>1, <1>3
    <3>2. GesteSuivi(bureau[r], a)'
      BY <3>1, <1>1 DEF GesteSuivi
    <3>3. QED
      BY <2>3, <3>1, <3>2
  <2>6. QED
    BY <2>4, <2>5
<1>4. CASE a \notin q.agents
  <2>1. point'[a] = point[a] /\ \A p \in Points : responsable'[p] = a => responsable[p] = a
    BY <1>4
  <2>2. \A S : PiloteDans(a, S) => PiloteDans(a, S)'
    BY <2>1 DEF PiloteDans
  <2>3. \A o \in Gestes : (a \in Deplaces(o)') <=> (a \in Deplaces(o))
    BY <1>1, <1>4
  <2>4. a \notin Deplaces(r) /\ a \notin Deplaces(r)'
    BY <1>1, <1>4
  <2>5. (\A o \in Gestes : a \notin Deplaces(o)') => PiloteDans(a, {point[a]})'
    BY <2>1, <2>3 DEF PiloteDans, AgentsSuivis
  <2>6. ASSUME NEW o \in Gestes, a \in Deplaces(o)'
        PROVE  GesteSuivi(bureau[o], a)' /\ \A s \in Gestes : a \in Deplaces(s)' => s = o
    <3>1. a \in Deplaces(o) /\ bureau'[o] = bureau[o]
      BY <2>3, <2>4, <2>6, <1>1
    <3>2. GesteSuivi(bureau[o], a) /\ \A s \in Gestes : a \in Deplaces(s) => s = o
      BY <3>1 DEF AgentsSuivis
    <3>3. GesteSuivi(bureau[o], a)'
      BY <3>1, <3>2, <2>1 DEF GesteSuivi, PiloteDans
    <3>4. QED
      BY <3>2, <3>3, <2>3
  <2>7. QED
    BY <2>5, <2>6
<1>5. QED
  BY <1>3, <1>4

\* A request starts: the agents it moves were where they should be, or another moves them.
LEMMA LectureSuivie ==
    ASSUME AgentsTypes, AgentsSuivis, NEW r \in Gestes, bureau[r] = AuRepos,
           NEW suite \in GesteDePersonnel \cup GesteDePoint, PasserBureau(r, suite),
           croises \subseteq croises',
           suite.agents \cap UNION {Deplaces(o) : o \in Gestes} \subseteq croises',
           UNCHANGED <<point, responsable>>,
           \A a \in suite.agents \ croises' : PiloteDans(a, {point[a]}) => GesteSuivi(suite, a)
    PROVE  AgentsSuivis'
<1>1. /\ bureau'[r] = suite /\ Deplaces(r)' = suite.agents /\ Deplaces(r) = {}
      /\ \A o \in Gestes \ {r} : bureau'[o] = bureau[o] /\ Deplaces(o)' = Deplaces(o)
  BY DeplacesApres, GestesDisjoints DEF Deplaces
<1>2. \A q, a : GesteSuivi(q, a) => GesteSuivi(q, a)'
  BY DEF GesteSuivi, PiloteDans
<1>3. SUFFICES ASSUME NEW a \in Employes \ croises'
               PROVE  /\ (\A o \in Gestes : a \notin Deplaces(o)') => PiloteDans(a, {point[a]})'
                      /\ \A o \in Gestes : a \in Deplaces(o)' =>
                            /\ GesteSuivi(bureau[o], a)'
                            /\ \A s \in Gestes : a \in Deplaces(s)' => s = o
  BY DEF AgentsSuivis
<1>4. PiloteDans(a, {point[a]})' = PiloteDans(a, {point[a]})
  BY DEF PiloteDans
<1>5. CASE a \in suite.agents
  <2>1. \A o \in Gestes : a \notin Deplaces(o)
    BY <1>5
  <2>2. PiloteDans(a, {point[a]})
    BY <2>1 DEF AgentsSuivis
  <2>3. GesteSuivi(suite, a)'
    BY <2>2, <1>2, <1>5
  <2>4. GesteSuivi(bureau[r], a)'
    BY <2>3, <1>1 DEF GesteSuivi
  <2>5. \A o \in Gestes : a \in Deplaces(o)' => o = r
    BY <2>1, <1>1
  <2>6. QED
    BY <2>4, <2>5, <1>1, <1>5
<1>6. CASE a \notin suite.agents
  <2>1. \A o \in Gestes : (a \in Deplaces(o)') <=> (a \in Deplaces(o))
    BY <1>1, <1>6
  <2>2. ASSUME NEW o \in Gestes, a \in Deplaces(o)'
        PROVE  GesteSuivi(bureau[o], a)' /\ \A s \in Gestes : a \in Deplaces(s)' => s = o
    <3>1. a \in Deplaces(o) /\ bureau'[o] = bureau[o]
      BY <2>1, <2>2, <1>1, <1>6
    <3>2. GesteSuivi(bureau[o], a) /\ \A s \in Gestes : a \in Deplaces(s) => s = o
      BY <3>1 DEF AgentsSuivis
    <3>3. GesteSuivi(bureau[o], a)'
      BY <3>1, <3>2, <1>2 DEF GesteSuivi, PiloteDans
    <3>4. QED
      BY <3>2, <3>3, <2>1
  <2>3. QED
    BY <2>1, <2>2, <1>4 DEF AgentsSuivis
<1>7. QED
  BY <1>5, <1>6

\* Nobody is forgotten: an account stays, and who is put in charge has one.
LEMMA ConnusTenus ==
    ASSUME HypothesesPersonnel, AgentsTypes, AgentsConnus, NEW r \in Gestes,
           NEW suite \in GesteDePersonnel \cup GesteDePoint \cup {AuRepos},
           PasserBureau(r, suite),
           suite # AuRepos => \A a \in suite.agents : point[a] # Absent \/ point'[a] # Absent,
           \A a \in Employes : point[a] # Absent => point'[a] # Absent,
           \A p \in Points :
              responsable'[p] \in {responsable[p], Vacant} \cup Deplaces(r)
    PROVE  AgentsConnus'
<1>1. /\ Deplaces(r)' = IF suite = AuRepos THEN {} ELSE suite.agents
      /\ \A o \in Gestes \ {r} : Deplaces(o)' = Deplaces(o)
  BY DeplacesApres
<1>2. \A o \in Gestes : Deplaces(o) \subseteq Employes
  BY DEF Deplaces, AgentsTypes, GesteDePersonnel, GesteDePoint
<1>3. suite # AuRepos => suite.agents \subseteq Employes
  BY DEF GesteDePersonnel, GesteDePoint
<1>4. \A p \in Points : responsable[p] \in Employes \cup {Vacant}
  BY DEF AgentsTypes
<1>5. ASSUME NEW p \in Points, responsable'[p] # Vacant
      PROVE  point'[responsable'[p]] # Absent
  <2>1. responsable'[p] \in Employes /\ point[responsable'[p]] # Absent
    BY <1>2, <1>4, <1>5 DEF AgentsConnus
  <2>2. QED
    BY <2>1
<1>6. ASSUME NEW o \in Gestes, NEW a \in Deplaces(o)'
      PROVE  point'[a] # Absent
  <2>1. a \in Employes /\ (point[a] # Absent \/ point'[a] # Absent)
    BY <1>1, <1>2, <1>3, <1>6 DEF AgentsConnus
  <2>2. QED
    BY <2>1
<1>7. QED
  BY <1>5, <1>6 DEF AgentsConnus

LEMMA LirePersonnelTenu ==
    ASSUME HypothesesPersonnel, InvAgents, NEW r \in Gestes, NEW a \in Employes,
           NEW p \in Points, LirePersonnel(r, a, p)
    PROVE  InvAgents'
<1> USE DEF InvAgents
<1>1. PICK q : q = [etape |-> "ecrire_personnel", agents |-> {a}, agent |-> a,
                    ancien |-> point[a], nouveau |-> p]
  OBVIOUS
<1>2. /\ PasserBureau(r, q) /\ bureau[r] = AuRepos /\ point[a] # Absent
      /\ croises' = croises \cup ({a} \cap UNION {Deplaces(o) : o \in Gestes})
      /\ UNCHANGED <<point, responsable>>
  BY <1>1 DEF LirePersonnel, CommencerBureau, PasserBureau, Croise
<1>3. q \in GesteDePersonnel
  BY <1>1, <1>2 DEF GesteDePersonnel, AgentsTypes
<1>4. AgentsTypes'
  BY <1>2, <1>3, DeplacesApres DEF AgentsTypes
<1>5. AgentsConnus'
  BY <1>1, <1>2, <1>3, ConnusTenus
<1>6. PiloteDans(a, {point[a]}) => GesteSuivi(q, a)
  BY <1>1 DEF GesteSuivi
<1>7. AgentsSuivis'
  BY <1>1, <1>2, <1>3, <1>6, LectureSuivie
<1>8. QED
  BY <1>4, <1>5, <1>7

LEMMA LireResponsableTenu ==
    ASSUME HypothesesPersonnel, InvAgents, NEW r \in Gestes, NEW a \in Employes \cup {Vacant},
           NEW p \in Points, LireResponsable(r, p, a)
    PROVE  InvAgents'
<1> USE DEF InvAgents
<1>1. PICK q : q = [etape |-> "ecrire_point", agents |-> {a, responsable[p]} \ {Vacant},
                    point |-> p, ancien |-> responsable[p], nouveau |-> a]
  OBVIOUS
<1>2. /\ PasserBureau(r, q) /\ bureau[r] = AuRepos /\ a # responsable[p]
      /\ a # Vacant => point[a] # Absent
      /\ UNCHANGED <<point, responsable>>
  BY <1>1 DEF LireResponsable, CommencerBureau, PasserBureau
<1>3. q \in GesteDePoint
  BY <1>1, <1>2 DEF GesteDePoint, AgentsTypes
<1>4. bureau' \in [Gestes -> GesteDePersonnel \cup GesteDePoint \cup {AuRepos}] /\ bureau'[r] = q
  BY <1>2, <1>3, DeplacesApres
<1>5. croises' = croises \cup (q.agents \cap UNION {Deplaces(o) : o \in Gestes})
                         \cup {b \in {a} \ {Vacant} : \E x \in Points : responsable[x] = b}
  BY <1>4 DEF LireResponsable
<1>6. AgentsTypes'
  BY <1>2, <1>3, <1>4, <1>5 DEF AgentsTypes, GesteDePoint
<1>7. AgentsConnus'
  <2>1. \A b \in q.agents : point[b] # Absent
    BY <1>1, <1>2 DEF AgentsConnus
  <2>2. QED
    BY <2>1, <1>2, <1>3, ConnusTenus
<1>8. ASSUME NEW b \in q.agents \ croises', PiloteDans(b, {point[b]})
      PROVE  GesteSuivi(q, b)
  <2>1. b = a => PiloteDans(b, {})
    BY <1>1, <1>5, <1>8 DEF PiloteDans
  <2>2. b = responsable[p] => PiloteDans(b, {p})
    BY <1>8 DEF PiloteDans
  <2>3. QED
    BY <2>1, <2>2, <1>1 DEF GesteSuivi
<1>9. AgentsSuivis'
  BY <1>2, <1>3, <1>5, <1>8, LectureSuivie
<1>10. QED
  BY <1>6, <1>7, <1>9

\* The steps of updatePersonnel: the agent's row, the point he leaves, the point he joins; and
\* the last one of createPersonnel.
LEMMA EcrirePersonnelTenu ==
    ASSUME HypothesesPersonnel, InvAgents, NEW r \in Gestes,
           \/ NommerResponsable(r)
           \/ EcrirePersonnel(r) \/ QuitterPoint(r) \/ RejoindrePoint(r)
    PROVE  InvAgents'
<1> USE DEF InvAgents
<1>1. PICK q \in GesteDePersonnel : q = bureau[r]
  BY GestesDisjoints
     DEF NommerResponsable, EcrirePersonnel, QuitterPoint, RejoindrePoint, AuBureau, AgentsTypes
<1>2. /\ q.agents = {q.agent} /\ q.agent \in Employes /\ q.nouveau \in Points
      /\ Deplaces(r) = {q.agent}
  BY <1>1, GestesDisjoints DEF GesteDePersonnel, Deplaces
<1>3. CASE EcrirePersonnel(r)
  <2>1. PICK suite : suite = [q EXCEPT !.etape = "quitter_point"]
    OBVIOUS
  <2>2. /\ suite \in GesteDePersonnel /\ suite.agents = q.agents /\ suite.nouveau = q.nouveau
        /\ suite.ancien = q.ancien /\ suite.etape = "quitter_point"
    BY <2>1 DEF GesteDePersonnel
  <2>3. /\ PasserBureau(r, suite) /\ UNCHANGED <<responsable, croises>>
        /\ point' = [point EXCEPT ![q.agent] = q.nouveau] /\ q.etape = "ecrire_personnel"
    BY <2>1, <1>1, <1>3 DEF EcrirePersonnel, AuBureau
  <2>4. AgentsTypes'
    BY <2>2, <2>3, <1>2, DeplacesApres DEF AgentsTypes
  <2>5. AgentsConnus'
    BY <2>2, <2>3, <1>2, ConnusTenus DEF HypothesesPersonnel, AgentsTypes, AgentsConnus
  <2>6. GesteSuivi(q, q.agent) => GesteSuivi(suite, q.agent)'
    BY <2>2, <2>3, <1>2 DEF GesteSuivi, PiloteDans, AgentsTypes
  <2>7. AgentsSuivis'
    <3>1. suite # AuRepos
      BY <2>2, GestesDisjoints
    <3>2. \A b \in q.agents : GesteSuivi(q, b) =>
             IF suite = AuRepos THEN PiloteDans(b, {point[b]})' ELSE GesteSuivi(suite, b)'
      BY <3>1, <2>6, <1>2
    <3>3. \A b \in Employes \ q.agents : point'[b] = point[b]
      BY <2>3, <1>2 DEF AgentsTypes
    <3>4. QED
      BY <3>2, <3>3, <2>2, <2>3, <1>1, EcritureSuivie
  <2>8. QED
    BY <2>4, <2>5, <2>7
<1>4. CASE QuitterPoint(r)
  <2>1. PICK suite : suite = [q EXCEPT !.etape = "rejoindre_point"]
    OBVIOUS
  <2>2. /\ suite \in GesteDePersonnel /\ suite.agents = q.agents /\ suite.nouveau = q.nouveau
        /\ suite.etape = "rejoindre_point"
    BY <2>1 DEF GesteDePersonnel
  <2>3. /\ PasserBureau(r, suite) /\ UNCHANGED <<point, croises>>
        /\ responsable' = PointQuitte(q.ancien, q.agent) /\ q.etape = "quitter_point"
    BY <2>1, <1>1, <1>4 DEF QuitterPoint, AuBureau
  <2>4. /\ responsable' \in [Points -> Employes \cup {Vacant}]
        /\ \A p \in Points : /\ responsable'[p] \in {responsable[p], Vacant}
                             /\ p = q.ancien => responsable'[p] # q.agent
    BY <2>3, <1>2 DEF PointQuitte, AgentsTypes, HypothesesPersonnel
  <2>5. AgentsTypes'
    BY <2>2, <2>3, <2>4, DeplacesApres DEF AgentsTypes
  <2>6. AgentsConnus'
    BY <2>2, <2>3, <2>4, <1>2, ConnusTenus DEF AgentsConnus
  <2>7. GesteSuivi(q, q.agent) => GesteSuivi(suite, q.agent)'
    BY <2>2, <2>3, <2>4, <1>2 DEF GesteSuivi, PiloteDans, HypothesesPersonnel
  <2>8. AgentsSuivis'
    <3>1. \A b \in Employes, p \in Points : responsable'[p] = b => responsable[p] = b
      BY <2>4 DEF HypothesesPersonnel
    <3>2. suite # AuRepos
      BY <2>2, GestesDisjoints
    <3>3. \A b \in q.agents : GesteSuivi(q, b) =>
             IF suite = AuRepos THEN PiloteDans(b, {point[b]})' ELSE GesteSuivi(suite, b)'
      BY <3>2, <2>7, <1>2
    <3>4. QED
      BY <3>1, <3>3, <2>2, <2>3, <1>1, EcritureSuivie
  <2>9. QED
    BY <2>5, <2>6, <2>8
<1>5. CASE RejoindrePoint(r)
  <2>1. /\ PasserBureau(r, AuRepos) /\ UNCHANGED <<point, croises>>
        /\ responsable' = [responsable EXCEPT ![q.nouveau] = q.agent]
        /\ q.etape = "rejoindre_point"
    BY <1>1, <1>5 DEF RejoindrePoint, AuBureau
  <2>2. AgentsTypes'
    BY <2>1, <1>2, DeplacesApres DEF AgentsTypes
  <2>3. AgentsConnus'
    BY <2>1, <1>2, ConnusTenus DEF AgentsTypes
  <2>4. GesteSuivi(q, q.agent) => PiloteDans(q.agent, {point[q.agent]})'
    BY <2>1, <1>2 DEF GesteSuivi, PiloteDans, AgentsTypes
  <2>5. \A b \in Employes \ {q.agent}, p \in Points :
           responsable'[p] = b => responsable[p] = b
    BY <2>1 DEF AgentsTypes
  <2>6. AgentsSuivis'
    BY <2>1, <2>4, <2>5, <1>1, <1>2, EcritureSuivie
  <2>7. QED
    BY <2>2, <2>3, <2>6
<1>6. CASE NommerResponsable(r)
  <2>1. /\ PasserBureau(r, AuRepos) /\ UNCHANGED <<point, croises>>
        /\ responsable' = [responsable EXCEPT ![q.nouveau] = IF @ = Vacant THEN q.agent ELSE @]
        /\ q.etape = "nommer"
    BY <1>1, <1>6 DEF NommerResponsable, AuBureau
  <2>2. AgentsTypes'
    BY <2>1, <1>2, DeplacesApres DEF AgentsTypes
  <2>3. AgentsConnus'
    BY <2>1, <1>2, ConnusTenus DEF AgentsTypes
  <2>4. GesteSuivi(q, q.agent) => PiloteDans(q.agent, {point[q.agent]})'
    BY <2>1, <1>2 DEF GesteSuivi, PiloteDans, AgentsTypes
  <2>5. \A b \in Employes \ {q.agent}, p \in Points :
           responsable'[p] = b => responsable[p] = b
    BY <2>1 DEF AgentsTypes
  <2>6. AgentsSuivis'
    BY <2>1, <2>4, <2>5, <1>1, <1>2, EcritureSuivie
  <2>7. QED
    BY <2>2, <2>3, <2>6
<1>7. QED
  BY <1>3, <1>4, <1>5, <1>6

\* The steps of updatePoint: the row of the point, the agent it had, the agent it gets.
LEMMA EcrirePointTenu ==
    ASSUME HypothesesPersonnel, InvAgents, NEW r \in Gestes,
           EcrirePoint(r) \/ DetacherAncien(r) \/ RattacherNouveau(r)
    PROVE  InvAgents'
<1> USE DEF InvAgents
<1>1. PICK q \in GesteDePoint : q = bureau[r]
  BY GestesDisjoints
     DEF EcrirePoint, DetacherAncien, RattacherNouveau, AuBureau, AgentsTypes
<1>2. /\ q.agents = {q.ancien, q.nouveau} \ {Vacant} /\ q.ancien # q.nouveau
      /\ q.point \in Points /\ q.ancien \in Employes \cup {Vacant}
      /\ q.nouveau \in Employes \cup {Vacant}
      /\ Deplaces(r) = q.agents
  BY <1>1, GestesDisjoints DEF GesteDePoint, Deplaces
<1>3. ASSUME NEW e \in {"detacher", "rattacher"}, NEW suite,
             suite = [q EXCEPT !.etape = e]
      PROVE  /\ suite \in GesteDePoint /\ suite.agents = q.agents /\ suite.etape = e
             /\ suite.nouveau = q.nouveau /\ suite.ancien = q.ancien /\ suite.point = q.point
             /\ suite # AuRepos
  <2>1. /\ suite \in GesteDePoint /\ suite.agents = q.agents /\ suite.etape = e
        /\ suite.nouveau = q.nouveau /\ suite.ancien = q.ancien /\ suite.point = q.point
    BY <1>3 DEF GesteDePoint
  <2>2. QED
    BY <2>1, GestesDisjoints
<1>4. CASE EcrirePoint(r)
  <2>1. PICK suite : suite = [q EXCEPT !.etape = "detacher"]
    OBVIOUS
  <2>2. /\ PasserBureau(r, suite) /\ UNCHANGED <<point, croises>>
        /\ responsable' = [responsable EXCEPT ![q.point] = q.nouveau]
        /\ q.etape = "ecrire_point"
    BY <2>1, <1>1, <1>4 DEF EcrirePoint, AuBureau
  <2>3. AgentsTypes'
    BY <2>1, <2>2, <1>2, <1>3, DeplacesApres DEF AgentsTypes
  <2>4. AgentsConnus'
    <3>1. \A p \in Points : responsable'[p] \in {responsable[p], Vacant} \cup Deplaces(r)
      BY <2>2, <1>2 DEF AgentsTypes
    <3>2. QED
      BY <3>1, <2>1, <2>2, <1>2, <1>3, ConnusTenus DEF AgentsConnus
  <2>5. ASSUME NEW b \in q.agents, GesteSuivi(q, b)
        PROVE  GesteSuivi(suite, b)'
    <3>1. b = q.nouveau => PiloteDans(b, {q.point})'
      BY <2>2, <2>5 DEF GesteSuivi, PiloteDans, AgentsTypes
    <3>2. b = q.ancien => PiloteDans(b, {})'
      BY <2>2, <2>5, <1>2 DEF GesteSuivi, PiloteDans, AgentsTypes
    <3>3. QED
      BY <3>1, <3>2, <2>1, <1>3 DEF GesteSuivi
  <2>6. \A b \in Employes \ q.agents, p \in Points :
           responsable'[p] = b => responsable[p] = b
    BY <2>2, <1>2 DEF AgentsTypes, HypothesesPersonnel
  <2>7. AgentsSuivis'
    BY <2>1, <2>2, <2>5, <2>6, <1>1, <1>3, EcritureSuivie
  <2>8. QED
    BY <2>3, <2>4, <2>7
<1>5. CASE DetacherAncien(r)
  <2>1. PICK suite : suite = [q EXCEPT !.etape = "rattacher"]
    OBVIOUS
  <2>2. /\ PasserBureau(r, suite) /\ UNCHANGED <<responsable, croises>>
        /\ point' = Affecter(q.ancien, Vacant) /\ q.etape = "detacher"
    BY <2>1, <1>1, <1>5 DEF DetacherAncien, AuBureau
  <2>3. /\ point' \in [Employes -> Points \cup {Vacant, Absent}]
        /\ \A b \in Employes : b # q.ancien => point'[b] = point[b]
        /\ \A b \in Employes : point'[b] \in {point[b], Vacant}
    BY <2>2, <1>2 DEF Affecter, AgentsTypes
  <2>4. AgentsTypes'
    BY <2>1, <2>2, <2>3, <1>3, DeplacesApres DEF AgentsTypes
  <2>5. AgentsConnus'
    BY <2>1, <2>2, <2>3, <1>2, <1>3, ConnusTenus DEF AgentsConnus, HypothesesPersonnel
  <2>6. \A b \in q.agents : GesteSuivi(q, b) => GesteSuivi(suite, b)'
    BY <2>1, <2>2, <1>2, <1>3 DEF GesteSuivi, PiloteDans
  <2>7. AgentsSuivis'
    <3>1. /\ suite \in GesteDePoint /\ suite # AuRepos /\ suite.agents = q.agents
          /\ PasserBureau(r, suite) /\ UNCHANGED <<responsable, croises>>
      BY <2>1, <2>2, <1>3
    <3>2. \A a \in Employes \ q.agents : a # q.ancien
      BY <1>2 DEF HypothesesPersonnel
    <3>3. \A a \in Employes \ q.agents :
             point'[a] = point[a] /\ \A p \in Points : responsable'[p] = a => responsable[p] = a
      BY <2>3, <3>1, <3>2
    <3>4. \A a \in q.agents : GesteSuivi(q, a) =>
             IF suite = AuRepos THEN PiloteDans(a, {point[a]})' ELSE GesteSuivi(suite, a)'
      BY <2>6, <3>1
    <3>5. QED
      BY <1>1, <3>1, <3>3, <3>4, EcritureSuivie
  <2>8. QED
    BY <2>4, <2>5, <2>7
<1>6. CASE RattacherNouveau(r)
  <2>1. /\ PasserBureau(r, AuRepos) /\ UNCHANGED <<responsable, croises>>
        /\ point' = Affecter(q.nouveau, q.point) /\ q.etape = "rattacher"
    BY <1>1, <1>6 DEF RattacherNouveau, AuBureau
  <2>2. /\ point' \in [Employes -> Points \cup {Vacant, Absent}]
        /\ \A b \in Employes : b # q.nouveau => point'[b] = point[b]
        /\ \A b \in Employes : b = q.nouveau => point'[b] = q.point
    BY <2>1, <1>2 DEF Affecter, AgentsTypes, HypothesesPersonnel
  <2>3. AgentsTypes'
    BY <2>1, <2>2, DeplacesApres DEF AgentsTypes
  <2>4. AgentsConnus'
    BY <2>1, <2>2, <1>2, ConnusTenus DEF HypothesesPersonnel
  <2>5. \A b \in q.agents : GesteSuivi(q, b) => PiloteDans(b, {point[b]})'
    BY <2>1, <2>2, <1>2 DEF GesteSuivi, PiloteDans, HypothesesPersonnel
  <2>6. AgentsSuivis'
    BY <2>1, <2>2, <2>5, <1>1, <1>2, EcritureSuivie DEF HypothesesPersonnel
  <2>7. QED
    BY <2>3, <2>4, <2>6
<1>7. QED
  BY <1>4, <1>5, <1>6

\* The account of a new agent: nobody else moves him, and he is in charge of nothing yet.
LEMMA CreerPersonnelTenu ==
    ASSUME HypothesesPersonnel, InvAgents, NEW r \in Gestes, NEW a \in Employes,
           NEW p \in Points, CreerPersonnel(r, a, p)
    PROVE  InvAgents'
<1> USE DEF InvAgents
<1>1. PICK q : q = [etape |-> "nommer", agents |-> {a}, agent |-> a,
                    ancien |-> Vacant, nouveau |-> p]
  OBVIOUS
<1>2. /\ PasserBureau(r, q) /\ bureau[r] = AuRepos /\ point[a] = Absent
      /\ point' = [point EXCEPT ![a] = p]
      /\ UNCHANGED <<responsable, croises>>
  BY <1>1 DEF CreerPersonnel, CommencerBureau, PasserBureau
<1>3. q \in GesteDePersonnel /\ q.agents = {a} /\ q.nouveau = p /\ q.etape = "nommer"
  BY <1>1 DEF GesteDePersonnel
<1>4. /\ bureau' \in [Gestes -> GesteDePersonnel \cup GesteDePoint \cup {AuRepos}]
      /\ bureau'[r] = q /\ Deplaces(r)' = {a} /\ Deplaces(r) = {}
      /\ \A o \in Gestes \ {r} : bureau'[o] = bureau[o] /\ Deplaces(o)' = Deplaces(o)
  BY <1>2, <1>3, DeplacesApres, GestesDisjoints DEF Deplaces
<1>5. AgentsTypes'
  BY <1>2, <1>4 DEF AgentsTypes
<1>6. /\ \A b \in Employes \ {a} : point'[b] = point[b]
      /\ point'[a] = p /\ p # Absent
  BY <1>2 DEF AgentsTypes, HypothesesPersonnel
<1>7. AgentsConnus'
  BY <1>2, <1>3, <1>6, ConnusTenus
<1>8. /\ \A o \in Gestes : a \notin Deplaces(o)
      /\ \A x \in Points : responsable[x] # a
  BY <1>2 DEF AgentsConnus, HypothesesPersonnel, AgentsTypes
<1>9. AgentsSuivis'
  <2>1. ASSUME NEW b \in Employes \ croises'
        PROVE  /\ (\A o \in Gestes : b \notin Deplaces(o)') => PiloteDans(b, {point[b]})'
               /\ \A o \in Gestes : b \in Deplaces(o)' =>
                     /\ GesteSuivi(bureau[o], b)'
                     /\ \A s \in Gestes : b \in Deplaces(s)' => s = o
    <3>1. CASE b = a
      <4>1. \A o \in Gestes : b \in Deplaces(o)' => o = r
        BY <3>1, <1>4, <1>8
      <4>2. GesteSuivi(q, a)'
        BY <1>2, <1>3, <1>6, <1>8 DEF GesteSuivi, PiloteDans
      <4>3. GesteSuivi(bureau[r], a)'
        BY <4>2, <1>4 DEF GesteSuivi
      <4>4. QED
        BY <4>1, <4>3, <3>1, <1>4
    <3>2. CASE b # a
      <4>1. \A o \in Gestes : (b \in Deplaces(o)') <=> (b \in Deplaces(o))
        BY <3>2, <1>4
      <4>2. (\A o \in Gestes : b \notin Deplaces(o)') => PiloteDans(b, {point[b]})'
        BY <4>1, <3>2, <2>1, <1>2, <1>6 DEF AgentsSuivis, PiloteDans
      <4>3. ASSUME NEW o \in Gestes, b \in Deplaces(o)'
            PROVE  GesteSuivi(bureau[o], b)' /\ \A s \in Gestes : b \in Deplaces(s)' => s = o
        <5>1. b \in Deplaces(o) /\ bureau'[o] = bureau[o]
          BY <4>1, <4>3, <3>2, <1>4
        <5>2. GesteSuivi(bureau[o], b) /\ \A s \in Gestes : b \in Deplaces(s) => s = o
          BY <5>1, <2>1, <1>2 DEF AgentsSuivis
        <5>3. GesteSuivi(bureau[o], b)'
          BY <5>1, <5>2, <3>2, <2>1, <1>2, <1>6 DEF GesteSuivi, PiloteDans
        <5>4. QED
          BY <5>2, <5>3, <4>1
      <4>4. QED
        BY <4>2, <4>3
    <3>3. QED
      BY <3>1, <3>2
  <2>2. QED
    BY <2>1 DEF AgentsSuivis
<1>10. QED
  BY <1>5, <1>7, <1>9

LEMMA AbandonBureauTenu ==
    ASSUME HypothesesPersonnel, InvAgents, NEW r \in Gestes, AbandonnerBureau(r)
    PROVE  InvAgents'
<1> USE DEF InvAgents
<1>1. /\ PasserBureau(r, AuRepos) /\ croises' = croises \cup Deplaces(r)
      /\ UNCHANGED <<point, responsable>>
  BY DEF AbandonnerBureau
<1>2. /\ bureau' \in [Gestes -> GesteDePersonnel \cup GesteDePoint \cup {AuRepos}]
      /\ Deplaces(r)' = {}
      /\ \A o \in Gestes \ {r} : bureau'[o] = bureau[o] /\ Deplaces(o)' = Deplaces(o)
  BY <1>1, DeplacesApres
<1>3. Deplaces(r) \subseteq Employes
  BY DEF Deplaces, AgentsTypes, GesteDePersonnel, GesteDePoint
<1>4. AgentsTypes'
  BY <1>1, <1>2, <1>3 DEF AgentsTypes
<1>5. AgentsConnus'
  BY <1>1, ConnusTenus
<1>6. AgentsSuivis'
  <2>1. ASSUME NEW a \in Employes \ croises'
        PROVE  /\ (\A o \in Gestes : a \notin Deplaces(o)') => PiloteDans(a, {point[a]})'
               /\ \A o \in Gestes : a \in Deplaces(o)' =>
                     /\ GesteSuivi(bureau[o], a)'
                     /\ \A s \in Gestes : a \in Deplaces(s)' => s = o
    <3>1. \A o \in Gestes : (a \in Deplaces(o)') <=> (a \in Deplaces(o))
      BY <2>1, <1>1, <1>2
    <3>2. (\A o \in Gestes : a \notin Deplaces(o)') => PiloteDans(a, {point[a]})'
      BY <2>1, <3>1, <1>1 DEF AgentsSuivis, PiloteDans
    <3>3. ASSUME NEW o \in Gestes, a \in Deplaces(o)'
          PROVE  /\ GesteSuivi(bureau[o], a)'
                 /\ \A s \in Gestes : a \in Deplaces(s)' => s = o
      <4>1. a \in Deplaces(o) /\ bureau'[o] = bureau[o]
        BY <3>1, <3>3, <1>2
      <4>2. GesteSuivi(bureau[o], a) /\ \A s \in Gestes : a \in Deplaces(s) => s = o
        BY <4>1, <2>1, <1>1 DEF AgentsSuivis
      <4>3. GesteSuivi(bureau[o], a)'
        BY <4>1, <4>2, <1>1 DEF GesteSuivi, PiloteDans
      <4>4. QED
        BY <4>2, <4>3, <3>1
    <3>4. QED
      BY <3>2, <3>3
  <2>2. QED
    BY <2>1 DEF AgentsSuivis
<1>7. QED
  BY <1>4, <1>5, <1>6

LEMMA NextInvAgents ==
    ASSUME HypothesesPersonnel, InvAgents, [NextAgents]_varsAgents
    PROVE  InvAgents'
<1>1. CASE UNCHANGED varsAgents
  BY <1>1 DEF varsAgents, InvAgents, AgentsTypes, AgentsConnus, AgentsSuivis, Deplaces,
              PiloteDans, GesteSuivi
<1>2. QED
  BY <1>1, LirePersonnelTenu, LireResponsableTenu, EcrirePersonnelTenu, EcrirePointTenu,
     CreerPersonnelTenu, AbandonBureauTenu DEF NextAgents

-----------------------------------------------------------------------------
(* The administrators *)

Modification == [etape : {"ecrire"}, admin : Admins, voulu : Admin, lu : Admin]

AdminsTypes ==
    /\ admin \in [Admins -> Admin]
    /\ modification \in [Gestes -> Modification \cup {AuRepos}]
    /\ recoupes \in BOOLEAN

\* A request alone in flight writes the row it read, and the check it made still holds.
ModificationsSuivies ==
    \A r, o \in Gestes :
        modification[r] # AuRepos =>
            LET m == modification[r]
            IN /\ modification[o] # AuRepos => o = r
               /\ m.lu = admin[m.admin]
               /\ m.voulu.role # m.lu.role \/ ~m.voulu.isActive => ~DernierSuperAdmin(m.admin)

InvAdmins == AdminsTypes /\ (~recoupes => SuperActifs # {} /\ ModificationsSuivies)

LEMMA DernierSeul ==
    ASSUME HypothesesPersonnel, NEW a \in Admins, ~DernierSuperAdmin(a), SuperActifs # {}
    PROVE  \E b \in SuperActifs : b # a
<1> SUFFICES ASSUME \A b \in SuperActifs : b = a PROVE FALSE
  OBVIOUS
<1>1. SuperActifs = {a} /\ admin[a].role = "super_admin"
  BY DEF SuperActifs
<1>2. Cardinality({a}) = 1
  BY FS_Singleton
<1>3. QED
  BY <1>1, <1>2 DEF DernierSuperAdmin

LEMMA LireAdminTenu ==
    ASSUME HypothesesPersonnel, InvAdmins, NEW r \in Gestes, NEW a \in Admins,
           NEW voulu \in Admin, LireAdmin(r, a, voulu)
    PROVE  InvAdmins'
<1>0. PICK m : m = [etape |-> "ecrire", admin |-> a, voulu |-> voulu, lu |-> admin[a]]
  OBVIOUS
<1>1. /\ modification' = [modification EXCEPT ![r] = m] /\ admin' = admin
      /\ modification[r] = AuRepos
      /\ recoupes' = (recoupes \/ \E o \in Gestes : modification[o] # AuRepos)
      /\ voulu.role # admin[a].role \/ ~voulu.isActive => ~DernierSuperAdmin(a)
  BY <1>0 DEF LireAdmin
<1>2. m \in Modification
  BY <1>0 DEF Modification, InvAdmins, AdminsTypes
<1>3. AdminsTypes'
  BY <1>1, <1>2 DEF InvAdmins, AdminsTypes
<1>4. ASSUME ~recoupes'
      PROVE  SuperActifs' # {} /\ ModificationsSuivies'
  <2>1. ~recoupes /\ \A o \in Gestes : modification[o] = AuRepos
    BY <1>1, <1>4 DEF InvAdmins, AdminsTypes
  <2>2. SuperActifs' = SuperActifs /\ \A b : DernierSuperAdmin(b)' = DernierSuperAdmin(b)
    BY <1>1 DEF SuperActifs, DernierSuperAdmin
  <2>3. modification'[r] = m /\ \A o \in Gestes \ {r} : modification'[o] = AuRepos
    BY <1>1, <2>1 DEF InvAdmins, AdminsTypes
  <2>4. m.lu = admin[a] /\ m.admin = a /\ m.voulu = voulu
    BY <1>0
  <2>5. voulu.role # admin[a].role \/ ~voulu.isActive => ~DernierSuperAdmin(a)'
    BY <1>1, <2>2
  <2>6. ASSUME NEW s \in Gestes, NEW o \in Gestes, modification'[s] # AuRepos
        PROVE  /\ modification'[o] # AuRepos => o = s
               /\ modification'[s] = m /\ m.lu = admin'[m.admin]
               /\ m.voulu.role # m.lu.role \/ ~m.voulu.isActive
                     => ~DernierSuperAdmin(m.admin)'
    <3>1. s = r /\ modification'[s] = m /\ (modification'[o] # AuRepos => o = s)
      BY <2>3, <2>6
    <3>2. m.lu = admin'[m.admin]
      BY <2>4, <1>1
    <3>3. m.voulu.role # m.lu.role \/ ~m.voulu.isActive => ~DernierSuperAdmin(a)'
      BY <2>4, <2>5
    <3>4. QED
      BY <3>1, <3>2, <3>3, <2>4
  <2>7. ModificationsSuivies'
    BY <2>6 DEF ModificationsSuivies
  <2>8. QED
    BY <2>1, <2>2, <2>7 DEF InvAdmins
<1>5. QED
  BY <1>3, <1>4 DEF InvAdmins

LEMMA EcrireAdminTenu ==
    ASSUME HypothesesPersonnel, InvAdmins, NEW r \in Gestes, EcrireAdmin(r)
    PROVE  InvAdmins'
<1>1. PICK q \in Modification : q = modification[r]
  BY DEF EcrireAdmin, InvAdmins, AdminsTypes
<1>2. q.admin \in Admins /\ q.voulu \in Admin /\ q.lu \in Admin
  BY DEF Modification
<1>3. PICK ecrit : ecrit = [role |-> IF q.voulu.role # q.lu.role THEN q.voulu.role
                                     ELSE admin[q.admin].role,
                            isActive |-> IF q.voulu.isActive # q.lu.isActive
                                         THEN q.voulu.isActive ELSE admin[q.admin].isActive]
  OBVIOUS
<1>4. /\ admin' = [admin EXCEPT ![q.admin] = ecrit]
      /\ modification' = [modification EXCEPT ![r] = AuRepos]
      /\ recoupes' = recoupes /\ modification[r] # AuRepos
  BY <1>1, <1>3 DEF EcrireAdmin
<1>5. ecrit \in Admin
  BY <1>2, <1>3 DEF Admin, InvAdmins, AdminsTypes
<1>6. AdminsTypes'
  BY <1>4, <1>5 DEF InvAdmins, AdminsTypes
<1>7. ASSUME ~recoupes
      PROVE  SuperActifs' # {} /\ ModificationsSuivies'
  <2>1. /\ SuperActifs # {} /\ q.lu = admin[q.admin]
        /\ q.voulu.role # q.lu.role \/ ~q.voulu.isActive => ~DernierSuperAdmin(q.admin)
        /\ \A o \in Gestes : modification[o] # AuRepos => o = r
    BY <1>1, <1>4, <1>7 DEF InvAdmins, ModificationsSuivies
  <2>2. \A o \in Gestes : modification'[o] = AuRepos
    BY <2>1, <1>4 DEF InvAdmins, AdminsTypes
  <2>3. /\ \A b \in Admins \ {q.admin} : admin'[b] = admin[b]
        /\ admin'[q.admin] = ecrit
    BY <1>2, <1>4 DEF InvAdmins, AdminsTypes
  <2>4. CASE ~DernierSuperAdmin(q.admin)
    <3>1. PICK b \in SuperActifs : b # q.admin
      BY <2>1, <2>4, <1>2, DernierSeul
    <3>2. b \in SuperActifs'
      BY <3>1, <2>3 DEF SuperActifs
    <3>3. QED
      BY <3>2, <2>2 DEF ModificationsSuivies
  <2>5. CASE q.voulu.role = q.lu.role /\ q.voulu.isActive
    <3>1. ecrit.role = admin[q.admin].role /\ ecrit.isActive
      BY <2>1, <2>5, <1>3
    <3>2. SuperActifs \subseteq SuperActifs'
      BY <3>1, <2>3 DEF SuperActifs
    <3>3. QED
      BY <3>2, <2>1, <2>2 DEF ModificationsSuivies
  <2>6. QED
    BY <2>1, <2>4, <2>5
<1>8. QED
  BY <1>4, <1>6, <1>7 DEF InvAdmins

LEMMA NextInvAdmins ==
    ASSUME HypothesesPersonnel, InvAdmins, [NextAdmins]_varsAdmins
    PROVE  InvAdmins'
<1>1. CASE UNCHANGED varsAdmins
  BY <1>1 DEF varsAdmins, InvAdmins, AdminsTypes, ModificationsSuivies, SuperActifs,
              DernierSuperAdmin
<1>2. QED
  BY <1>1, LireAdminTenu, EcrireAdminTenu DEF NextAdmins

-----------------------------------------------------------------------------
\* An agent in charge of a point is attached to it once no request moves him, and one active
\* super administrator remains, requests that cross aside.
THEOREM EquipesTenues == HypothesesPersonnel /\ SpecAgents /\ SpecAdmins => []EquipeTenue
<1> SUFFICES ASSUME HypothesesPersonnel PROVE SpecAgents /\ SpecAdmins => []EquipeTenue
  OBVIOUS
<1>1. InitAgents => InvAgents
  BY DEF InitAgents, InvAgents, AgentsTypes, AgentsConnus, AgentsSuivis, Deplaces, PiloteDans,
         HypothesesPersonnel
<1>2. InvAgents /\ [NextAgents]_varsAgents => InvAgents'
  BY NextInvAgents
<1>3. InitAdmins => InvAdmins
  <2> SUFFICES ASSUME InitAdmins PROVE InvAdmins
    OBVIOUS
  <2>1. AdminsTypes
    BY DEF InitAdmins, AdminsTypes, Admin, Roles
  <2>2. SuperActifs = Admins /\ \A r \in Gestes : modification[r] = AuRepos
    BY DEF InitAdmins, SuperActifs
  <2>3. QED
    BY <2>1, <2>2 DEF InvAdmins, ModificationsSuivies, HypothesesPersonnel
<1>4. InvAdmins /\ [NextAdmins]_varsAdmins => InvAdmins'
  BY NextInvAdmins
<1>5. InvAgents /\ InvAdmins => EquipeTenue
  <2> SUFFICES ASSUME InvAgents, InvAdmins PROVE ResponsableRattache
    BY DEF EquipeTenue, ResteUnSuperAdmin, InvAdmins
  <2> SUFFICES ASSUME NEW p \in Points, responsable[p] # Vacant,
                      responsable[p] \notin croises,
                      \A r \in Gestes : responsable[p] \notin Deplaces(r)
               PROVE  point[responsable[p]] = p
    BY DEF ResponsableRattache
  <2>1. responsable[p] \in Employes \ croises
    BY DEF InvAgents, AgentsTypes
  <2>2. QED
    BY <2>1 DEF InvAgents, AgentsSuivis, PiloteDans
<1>6. QED
  BY <1>1, <1>2, <1>3, <1>4, <1>5, PTL DEF SpecAgents, SpecAdmins
=============================================================================
