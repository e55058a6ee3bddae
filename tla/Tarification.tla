---------------------------- MODULE Tarification ----------------------------
(* The pricing engine of tarification.service.js and the two money helpers *)
(* of utils/devise.js, from the weight billed to the total, with the quote *)
(* shown for every service and the referral credit the order then spends.  *)
(*                                                                         *)
(* An amount is an integer in the smallest unit of its currency (cents of  *)
(* euro, francs CFA), a weight is in grams, a length in centimetres. What  *)
(* the code computes with floating-point numbers is an exact fraction      *)
(* here, rounded where the code rounds.                                    *)
EXTENDS Integers, FiniteSetsExt, SequencesExt

CONSTANTS
    Parametres,     \* the system parameters the engine reads
    Services,       \* the active services, with their limits
    Tarifs,         \* the rows of the price grid
    SurchargesAuto, \* the automatic surcharges, in their order of application
    GrilleArticles, \* the flat-rate grid
    Demandes,       \* the requests that are priced
    Credits,        \* the balances of referral credit requests are priced at, in cents
    Nul             \* no quote is displayed

\* What the model takes of its constants.
Hypotheses ==
    /\ Parametres.taux \in Nat \ {0}
    /\ Parametres.pas \in Nat \ {0}
    /\ Parametres.grilleCollecte # <<>>
    /\ Credits \subseteq Nat

VARIABLES
    credit,   \* User.creditParrainage
    devis     \* the quote displayed: the request, and the offer of each service

vars == <<credit, devis>>

-----------------------------------------------------------------------------
(* Money                                                                   *)

\* Math.round of the fraction n / d.
Arrondi(n, d) == (2 * n + d) \div (2 * d)

\* The amount n / d of a currency, in another, rounded to its precision.
Convertir(n, d, de, vers) ==
    CASE de = vers -> Arrondi(n, d)
      [] de = "EUR" /\ vers = "XOF" -> Arrondi(n * Parametres.taux, 100 * d)
      [] de = "XOF" /\ vers = "EUR" -> Arrondi(n * 100, d * Parametres.taux)

\* Units of a currency in one euro or one franc, hundredths in a unit.
Facteur(devise) == IF devise = "EUR" THEN 100 ELSE 1
Centiemes(devise) == 100 \div Facteur(devise)

Somme(f(_), suite) == FoldLeft(LAMBDA acc, x: acc + f(x), 0, suite)

PaysFacturation(d) == IF d.payeur = "destinataire" THEN d.arrivee.pays ELSE d.depart.pays

DeviseDeFacturation(d) == IF PaysFacturation(d) = "FR" THEN "EUR" ELSE "XOF"

TauxTvaDe(d) == IF PaysFacturation(d) = "FR" THEN Parametres.tvaFr ELSE Parametres.tvaSn

International(d) == d.depart.pays # d.arrivee.pays

-----------------------------------------------------------------------------
(* Rules of the category                                                   *)

SurDevis(d) == d.categorie = "colis_xxl"

ModesDepot(categorie) ==
    CASE categorie = "documents" -> {"point_collecte", "envoi_postal", "boite_aux_lettres"}
      [] categorie = "colis_moyen" ->
             {"point_collecte", "enlevement_domicile", "envoi_postal", "boite_aux_lettres"}
      [] categorie = "colis_xxl" -> {"point_collecte", "enlevement_domicile"}

Contenu(d) == IF d.categorie = "documents" THEN "document" ELSE d.contenu

Accepte(s, d) ==
    /\ d.modeDepot \in ModesDepot(d.categorie)
    /\ Contenu(d) \in s.contenus
    /\ d.dangereux => s.mode # "aerien" /\ d.categorie # "documents"

-----------------------------------------------------------------------------
(* Flat-rate grid                                                          *)

\* The articles chosen; documents without one take the corridor's own rate.
Choisis(s, d) ==
    LET defaut == {a \in GrilleArticles :
                      /\ a.categorie = "documents"
                      /\ a.depart = d.depart.pays /\ a.arrivee = d.arrivee.pays
                      /\ a.mode = s.mode /\ a.actif}
    IN  IF d.articles # <<>> \/ d.categorie # "documents" \/ defaut = {} THEN d.articles
        ELSE <<[article |-> CHOOSE a \in defaut : TRUE, quantite |-> 1]>>

ForfaitPropose(s, d) ==
    \A i \in DOMAIN d.articles :
        LET a == d.articles[i].article
        IN  /\ a.actif /\ a.mode = s.mode
            /\ a.depart = d.depart.pays /\ a.arrivee = d.arrivee.pays

\* Variants of a demand: what is decided once is added to it as a field, for what follows.
AvecChoisis(s, d) == d @@ [choisis |-> Choisis(s, d)]

AuForfait(d) == d.choisis # <<>>

\* Dakar or the regions: the column of the Senegalese town of the journey.
ZoneDakar(d) ==
    IF d.arrivee.pays = "SN" THEN d.arrivee.dakar ELSE d.depart.pays = "SN" /\ d.depart.dakar

FretForfait(d) ==
    LET devise == DeviseDeFacturation(d)
        Prix(l) == l.quantite * (IF ZoneDakar(d) THEN l.article.prixDakar ELSE l.article.prixRegions)
        somme == Somme(LAMBDA l: Convertir(Prix(l), 1, l.article.devise, devise), d.choisis)
    IN  IF Parametres.prixTtc THEN Arrondi(100 * somme, 100 + TauxTvaDe(d)) ELSE somme

-----------------------------------------------------------------------------
(* Weight                                                                  *)

SansPoids(d) == d.pieces = <<>> /\ d.poids = 0

Enveloppe == [l |-> 0, w |-> 0, h |-> 0, poids |-> 500]

\* One piece per unit of an article when the client describes no parcel.
PiecesDepuisForfait(d) ==
    FlattenSeq([i \in DOMAIN d.choisis |->
        [k \in 1 .. d.choisis[i].quantite |->
            [Enveloppe EXCEPT !.poids = d.choisis[i].article.poids]]])

PiecesRetenues(d) ==
    CASE ~SansPoids(d) -> d.pieces
      [] SansPoids(d) /\ AuForfait(d) -> PiecesDepuisForfait(d)
      [] OTHER -> IF d.categorie = "documents" THEN <<Enveloppe>> ELSE <<>>

AvecPieces(d) == d @@ [retenues |-> PiecesRetenues(d)]

PoidsVolumetrique(p, coefficient) == Arrondi(p.l * p.w * p.h * 1000, coefficient)

PoidsReel(d) ==
    IF d.retenues = <<>> THEN d.poids ELSE Somme(LAMBDA p: p.poids, d.retenues)

PoidsVolume(s, d) == Somme(LAMBDA p: PoidsVolumetrique(p, s.coefficient), d.retenues)

\* The basis of the price: the heavier of the two, up to the commercial step.
PoidsFacture(s, d) ==
    LET pas == Parametres.pas
        brut == Max({PoidsReel(d), PoidsVolume(s, d)})
    IN  Max({pas, ((brut + pas - 1) \div pas) * pas})

Pesee(s, d) == d @@ [reel |-> PoidsReel(d), facture |-> PoidsFacture(s, d)]

-----------------------------------------------------------------------------
(* Price grid                                                              *)

\* Tarif.calculerFret, in thousandths of the unit of the row's currency.
FretMillieme(t, poids) == 1000 * t.prix + Max({0, poids - t.inclus}) * t.prixKg

Applicables(s, d) ==
    {t \in Tarifs :
        /\ t.service = s.code
        /\ t.depart = d.depart.pays /\ t.arrivee = d.arrivee.pays
        /\ t.zoneDepart \in {Nul, d.depart.zone}
        /\ t.zoneArrivee \in {Nul, d.arrivee.zone}
        /\ t.min <= d.facture /\ d.facture <= t.max}

Specificite(t) ==
    (IF t.zoneDepart # Nul THEN 1 ELSE 0) + (IF t.zoneArrivee # Nul THEN 1 ELSE 0)

\* The figures are compared as they stand, whatever their currency.
Nominal(t, poids) == FretMillieme(t, poids) * Centiemes(t.devise)

Precede(t, u, poids) ==
    \/ Specificite(t) > Specificite(u)
    \/ Specificite(t) = Specificite(u) /\ Nominal(t, poids) <= Nominal(u, poids)

TrouverTarif(tarifs, poids) ==
    CHOOSE t \in tarifs : \A u \in tarifs : Precede(t, u, poids)

\* What a row bills: its minimum, its currency, the markup of the arrival zone.
FretDuTarif(t, d) ==
    LET devise == DeviseDeFacturation(d)
        brut == Max({FretMillieme(t, d.facture), 1000 * t.minimum})
        fret == IF t.devise = devise THEN brut
                ELSE 1000 * Convertir(brut, 1000, t.devise, devise)
        majoration == Arrondi(fret * d.arrivee.majoration, 100000)
    IN  Arrondi(fret + 1000 * majoration, 1000)

\* An estimate of a parcel on quotation does without a row.
FretAuPoids(tarifs, d) ==
    IF tarifs = {} THEN 0 ELSE FretDuTarif(TrouverTarif(tarifs, d.facture), d)

Tarifable(s, d) ==
    AuForfait(d) \/ SurDevis(d) \/ (d.reel <= s.poidsMax /\ Applicables(s, d) # {})

Fret(s, d) == IF AuForfait(d) THEN FretForfait(d) ELSE FretAuPoids(Applicables(s, d), d)

AvecFret(s, d) == d @@ [fret |-> Fret(s, d)]

\* The two discounts taken in full.
RemiseSansPlafond(d) == Arrondi(d.fret * (d.remise + d.bonus), 100)

\* Contract or professional discount and welcome bonus, on the freight.
Remise(d) == Arrondi(d.fret * Min({100, d.remise + d.bonus}), 100)

FretNet(d) == d.fret - Remise(d)

-----------------------------------------------------------------------------
(* Surcharges: amounts of a surcharge are in hundredths of its currency    *)

HorsGabarit(s, d) ==
    \E i \in DOMAIN d.retenues :
        LET piece == d.retenues[i] IN piece.l + piece.w + piece.h > s.dimensionsMax

Declenchee(x, s, d) ==
    CASE x.type = "zone_eloignee" -> d.arrivee.eloignee \/ d.depart.eloignee
      [] x.type = "marchandise_dangereuse" -> d.dangereux
      [] x.type = "hors_gabarit" -> HorsGabarit(s, d)
      [] x.type = "manutention" -> d.fragile \/ HorsGabarit(s, d)
      [] x.type = "livraison_domicile" -> d.modeLivraison = "livraison_domicile"
      [] x.type = "formalites_douane" -> International(d) /\ Contenu(d) # "document"
      [] OTHER -> x.type \notin {"assurance", "stockage"}

\* A flat rate includes everything, but for a parcel on quotation.
Applicable(x, s, d) ==
    /\ ~(AuForfait(d) /\ ~SurDevis(d))
    /\ x.service \in {Nul, s.code}
    /\ x.international => International(d)
    /\ x.pays \in {Nul, d.depart.pays, d.arrivee.pays}
    /\ Declenchee(x, s, d)

\* Surcharge.calculer, in hundredths.
Brute(x, assiette, poids) ==
    CASE x.mode = "pourcentage" -> Arrondi(assiette * x.valeur, 100)
      [] x.mode = "par_kg" -> Arrondi(poids * x.valeur, 1000)
      [] x.mode = "fixe" -> x.valeur

MontantSurcharge(x, d, cumul) ==
    LET devise == DeviseDeFacturation(d)
        assiette ==
            CASE x.assiette = "fret_et_surcharges" -> (FretNet(d) + cumul) * Centiemes(devise)
              [] x.assiette = "valeur_declaree" -> d.valeur * Centiemes(d.deviseValeur)
              [] x.assiette = "fret" -> FretNet(d) * Centiemes(devise)
        centiemes == Min({x.maximum, Max({x.minimum, Brute(x, assiette, d.facture)})})
        source == IF x.mode = "pourcentage" THEN devise ELSE x.devise
    IN  Convertir(centiemes * Facteur(source), 100, source, devise)

Ajouter(acc, x, m) ==
    IF m <= 0 THEN acc
    ELSE [total |-> acc.total + m, taxable |-> acc.taxable + (IF x.soumiseTva THEN m ELSE 0)]

\* One after the other, each on what the previous ones have added up to.
CalculerSurcharges(s, d) ==
    FoldLeft(LAMBDA acc, x: IF Applicable(x, s, d)
                            THEN Ajouter(acc, x, MontantSurcharge(x, d, acc.total)) ELSE acc,
             [total |-> 0, taxable |-> 0], SurchargesAuto)

-----------------------------------------------------------------------------
(* Additional services: home pick-up, postal label, packaging              *)

\* The price of the first bracket that covers a value; Nul beyond the last.
PrixPalier(grille, valeur) ==
    LET couvrants == {i \in DOMAIN grille : valeur <= grille[i].borne}
    IN  IF couvrants = {} THEN Nul ELSE grille[Min(couvrants)].prix

PiecesPostees(d) ==
    IF d.retenues # <<>> THEN d.retenues ELSE <<[Enveloppe EXCEPT !.poids = d.reel]>>

\* Beyond the last bracket the progression of the grid goes on.
Collecte(d) ==
    LET g == Parametres.grilleCollecte
        nb == Max({1, Len(PiecesPostees(d))})
        dernier == g[Len(g)]
        pas == IF Len(g) > 1 THEN dernier.prix - g[Len(g) - 1].prix ELSE 0
        prix == IF PrixPalier(g, nb) # Nul THEN PrixPalier(g, nb)
                ELSE dernier.prix + pas * (nb - dernier.borne)
    IN  CASE d.modeDepot # "enlevement_domicile" -> 0
          [] d.modeDepot = "enlevement_domicile" /\ d.depart.pays = "FR" ->
                Convertir(prix, 1, "EUR", DeviseDeFacturation(d))
          [] OTHER -> Convertir(Parametres.collecteXof, 1, "XOF", DeviseDeFacturation(d))

AvecEtiquette(d) == d.modeDepot = "envoi_postal" /\ d.colissimo

PrixEtiquette(d, i) == PrixPalier(Parametres.grilleColissimo, PiecesPostees(d)[i].poids)

EtiquettePossible(d) ==
    AvecEtiquette(d) =>
        /\ Parametres.colissimoActif
        /\ d.depart.pays = "FR"
        /\ \A i \in DOMAIN PiecesPostees(d) : PrixEtiquette(d, i) # Nul

Etiquette(d) ==
    IF ~AvecEtiquette(d) THEN 0
    ELSE Convertir(Somme(LAMBDA i: PrixEtiquette(d, i),
                         [i \in DOMAIN PiecesPostees(d) |-> i]),
                   1, "EUR", DeviseDeFacturation(d))

EmballagesPossibles(d) ==
    \A i \in DOMAIN d.emballages :
        /\ d.emballages[i].article.actif
        /\ d.categorie \in d.emballages[i].article.categories
        /\ d.emballages[i].quantite <= d.emballages[i].article.stock

PrixEmballage(e, d) ==
    IF Parametres.prixTtc
    THEN Convertir(100 * e.article.prix * e.quantite, 100 + TauxTvaDe(d),
                   e.article.devise, DeviseDeFacturation(d))
    ELSE Convertir(e.article.prix * e.quantite, 1, e.article.devise, DeviseDeFacturation(d))

CalculerAnnexes(d) ==
    Collecte(d) + Etiquette(d) + Somme(LAMBDA e: PrixEmballage(e, d), d.emballages)

-----------------------------------------------------------------------------
(* Insurance and customs                                                   *)

ValeurCible(d) == Convertir(d.valeur, 1, d.deviseValeur, DeviseDeFacturation(d))

Assurance(s, d) ==
    LET devise == DeviseDeFacturation(d)
        assiette == Max({0, ValeurCible(d) - s.assuranceIncluse * Facteur(devise)})
        minimum == Convertir(Parametres.primeMinimumXof, 1, "XOF", devise)
    IN  IF ~d.assurance \/ d.valeur = 0 \/ assiette = 0 THEN 0
        ELSE Max({Arrondi(assiette * Parametres.tauxAssurance, 100), minimum})

\* The duties of detailed articles are figures of the declared currency.
Douane(d) ==
    LET devise == DeviseDeFacturation(d)
        franchise == Convertir(Parametres.franchiseXof, 1, "XOF", devise)
        diviseur == 100 * Facteur(d.deviseValeur)
        droits == IF d.articlesDouane = <<>>
                  THEN ValeurCible(d) * Parametres.tauxDroits * Facteur(d.deviseValeur)
                  ELSE Somme(LAMBDA a: a.valeur * a.taux, d.articlesDouane) * Facteur(devise)
        taxes == (ValeurCible(d) * diviseur + droits) * Parametres.tvaSn
    IN  IF ~International(d) \/ Contenu(d) = "document" \/ ValeurCible(d) <= franchise THEN 0
        ELSE Arrondi(100 * droits + taxes, 100 * diviseur)

\* The duties are billed only under DDP, where the carrier advances them.
DroitsFactures(d) == IF d.incoterm = "DDP" THEN Douane(d) ELSE 0

-----------------------------------------------------------------------------
(* The whole quote                                                         *)

Etudiee(s, d) == Pesee(s, AvecPieces(AvecChoisis(s, d)))

\* The parts of the price before tax, taxable surcharges apart.
Chiffree(s, d, surcharges) ==
    d @@ [net |-> FretNet(d), deduite |-> Remise(d), surcharges |-> surcharges.total,
          taxables |-> surcharges.taxable, annexes |-> CalculerAnnexes(d),
          prime |-> Assurance(s, d)]

HtAvantCredit(d) == d.net + d.surcharges + d.annexes + d.prime

\* The credit deducted as if it were an amount before tax.
CreditHtSansTva(d, c) ==
    LET disponible == Convertir(c, 1, "EUR", DeviseDeFacturation(d))
    IN  IF SurDevis(d) THEN 0 ELSE Min({disponible, HtAvantCredit(d)})

\* The credit is granted tax included, and deducted as an amount before tax.
CreditHt(d, c) ==
    LET disponible == Convertir(c, 1, "EUR", DeviseDeFacturation(d))
    IN  IF SurDevis(d) THEN 0
        ELSE Min({Arrondi(100 * disponible, 100 + TauxTvaDe(d)), HtAvantCredit(d)})

Tva(d, creditHt) ==
    Arrondi(Max({0, d.net + d.taxables + d.annexes + d.prime - creditHt}) * TauxTvaDe(d), 100)

CreditTtc(d, creditHt) == Arrondi(creditHt * (100 + TauxTvaDe(d)), 100)

Devis(d, creditHt, tva, creditTtc) ==
    [poids |-> d.facture,
     remiseContractuelle |-> d.deduite - Arrondi(d.fret * d.bonus, 100),
     fret |-> d.net,
     totalHt |-> HtAvantCredit(d) - creditHt, tva |-> tva, droits |-> DroitsFactures(d),
     total |-> HtAvantCredit(d) - creditHt + tva + DroitsFactures(d),
     creditTtc |-> creditTtc,
     creditEur |-> IF SurDevis(d) THEN 0
                   ELSE Convertir(creditTtc, 1, DeviseDeFacturation(d), "EUR")]

Arreter(d, creditHt) == Devis(d, creditHt, Tva(d, creditHt), CreditTtc(d, creditHt))

Accorder(d, c) == Arreter(d, CreditHt(d, c))

Chiffrer(s, d) == Chiffree(s, d, CalculerSurcharges(s, d))

CalculerDevis(s, d, c) == Accorder(Chiffrer(s, AvecFret(s, Etudiee(s, d))), c)

Chiffrable(s, d) ==
    /\ Accepte(s, d)
    /\ ForfaitPropose(s, d)
    /\ Tarifable(s, Etudiee(s, d))
    /\ EtiquettePossible(Etudiee(s, d))
    /\ EmballagesPossibles(d)

\* comparerServices: every active service gives an offer or is set aside.
Offres(d, c) == [s \in {x \in Services : Chiffrable(x, d)} |-> CalculerDevis(s, d, c)]

-----------------------------------------------------------------------------
Init ==
    /\ credit \in Credits
    /\ devis = Nul

\* The client, who is logged in, has a request priced (Credits bounds the
\* balances this is followed for).
Simuler(d) ==
    /\ credit \in Credits
    /\ devis = Nul
    /\ devis' = [demande |-> d, offres |-> Offres(d, credit)]
    /\ UNCHANGED credit

\* The client leaves the quote without ordering.
Quitter ==
    /\ devis # Nul
    /\ devis' = Nul
    /\ UNCHANGED credit

\* The order follows one of the offers and spends the credit it counts on;
\* a credit that does not suffice refuses the order.
Declarer(s) ==
    /\ devis # Nul
    /\ s \in DOMAIN devis.offres
    /\ devis.offres[s].creditEur <= credit
    /\ credit' = credit - devis.offres[s].creditEur
    /\ devis' = Nul

Next ==
    \/ \E d \in Demandes : Simuler(d)
    \/ \E s \in Services : Declarer(s)
    \/ Quitter

Spec == Init /\ [][Next]_vars

-----------------------------------------------------------------------------
(* Properties                                                              *)

\* Whatever discounts, bonus and credit add up to, no amount of an offer is negative, and the
\* credit an offer spends is what it takes off the total, tax included, to within the
\* roundings: the client pays exactly with the credit he loses.
OffreJuste ==
    devis # Nul =>
        \A s \in DOMAIN devis.offres :
            LET o == devis.offres[s]
                sansCredit == CalculerDevis(s, devis.demande, 0)
            IN  /\ o.fret >= 0 /\ o.remiseContractuelle >= 0
                /\ o.totalHt >= 0 /\ o.tva >= 0 /\ o.droits >= 0
                /\ (sansCredit.total - o.total) - o.creditTtc \in -1 .. 1
                /\ o.creditEur <= credit + 1
=============================================================================
