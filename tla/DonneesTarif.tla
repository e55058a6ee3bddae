---------------------------- MODULE DonneesTarif ----------------------------
(* Small data for Tarification: parameters, services, price rows and the   *)
(* requests TLC prices. Amounts are in cents of euro or francs, weights in *)
(* grams.                                                                  *)
EXTENDS Integers, Sequences

CONSTANTS Nul, zDakar

MCParametres ==
    [taux |-> 656, pas |-> 500, tvaFr |-> 20, tvaSn |-> 18, prixTtc |-> TRUE,
     grilleCollecte |-> <<[borne |-> 1, prix |-> 250], [borne |-> 2, prix |-> 400]>>,
     collecteXof |-> 1000, colissimoActif |-> TRUE,
     grilleColissimo |-> <<[borne |-> 1000, prix |-> 333]>>,
     tauxAssurance |-> 3, primeMinimumXof |-> 50, franchiseXof |-> 500, tauxDroits |-> 10]

Avion == [code |-> "avion", mode |-> "aerien", contenus |-> {"document", "marchandise"},
          coefficient |-> 5000, poidsMax |-> 3000, dimensionsMax |-> 100, assuranceIncluse |-> 0]
Bateau == [Avion EXCEPT !.code = "bateau", !.mode = "maritime", !.contenus = {"marchandise"},
           !.coefficient = 4000, !.poidsMax = 9000, !.assuranceIncluse = 10]
MCServices == {Avion, Bateau}

Paris == [pays |-> "FR", zone |-> Nul, majoration |-> 0, eloignee |-> FALSE, dakar |-> FALSE]
Dakar == [pays |-> "SN", zone |-> zDakar, majoration |-> 0, eloignee |-> FALSE, dakar |-> TRUE]
Matam == [Dakar EXCEPT !.zone = Nul, !.majoration = 15, !.eloignee = TRUE, !.dakar = FALSE]

Ligne(service, depart, arrivee, min, max, prix, prixKg, devise) ==
    [service |-> service, depart |-> depart, arrivee |-> arrivee,
     zoneDepart |-> Nul, zoneArrivee |-> Nul, min |-> min, max |-> max,
     prix |-> prix, inclus |-> min, prixKg |-> prixKg, minimum |-> 0, devise |-> devise]

\* Rows of the same reach overlap by their bounds, and may differ by currency
\* or by minimum; one row is the delivery zone's own.
MCTarifs ==
    {Ligne("avion", "FR", "SN", 0, 1000, 601, 0, "EUR"),
     [Ligne("avion", "FR", "SN", 1000, 9000, 3000, 900, "XOF") EXCEPT !.minimum = 3600],
     [Ligne("avion", "FR", "SN", 0, 9000, 700, 111, "EUR") EXCEPT !.zoneArrivee = zDakar],
     Ligne("bateau", "FR", "SN", 0, 9000, 303, 77, "EUR"),
     Ligne("bateau", "SN", "FR", 0, 9000, 1999, 333, "XOF")}

Fixe(type, mode, valeur, assiette, devise) ==
    [type |-> type, mode |-> mode, valeur |-> valeur, assiette |-> assiette, devise |-> devise,
     minimum |-> 0, maximum |-> 1000000, service |-> Nul, international |-> FALSE,
     pays |-> Nul, soumiseTva |-> TRUE]

MCSurcharges ==
    <<Fixe("carburant", "pourcentage", 12, "fret", "EUR"),
      [Fixe("formalites_douane", "fixe", 65600, "fret", "XOF") EXCEPT !.international = TRUE],
      Fixe("zone_eloignee", "pourcentage", 7, "fret_et_surcharges", "EUR"),
      [Fixe("livraison_domicile", "par_kg", 55, "fret", "EUR") EXCEPT !.pays = "SN"],
      Fixe("assurance", "pourcentage", 3, "valeur_declaree", "EUR")>>

Telephone ==
    [categorie |-> "colis_moyen", depart |-> "FR", arrivee |-> "SN", mode |-> "aerien",
     actif |-> TRUE, prixDakar |-> 1501, prixRegions |-> 1999, devise |-> "EUR", poids |-> 700]
Pli == [Telephone EXCEPT !.categorie = "documents", !.prixDakar = 4001, !.devise = "XOF",
                         !.prixRegions = 4500, !.poids = 500]
MCArticles == {Telephone, Pli}

Carton == [prix |-> 199, devise |-> "EUR", categories |-> {"colis_moyen"}, stock |-> 2, actif |-> TRUE]

-----------------------------------------------------------------------------
(* Requests: the choices a client makes on the form                        *)

Base ==
    [depart |-> Paris, arrivee |-> Dakar, categorie |-> "colis_moyen", contenu |-> "marchandise",
     articles |-> <<>>, pieces |-> <<>>, poids |-> 0, emballages |-> <<>>, colissimo |-> FALSE,
     valeur |-> 0, deviseValeur |-> "EUR", assurance |-> FALSE, modeDepot |-> "point_collecte",
     modeLivraison |-> "point_retrait", incoterm |-> "DAP", payeur |-> "expediteur",
     fragile |-> FALSE, dangereux |-> FALSE, articlesDouane |-> <<>>, remise |-> 0, bonus |-> 0]

Piece(l, poids) == [l |-> l, w |-> 20, h |-> 20, poids |-> poids]

Envois ==
    {[Base EXCEPT !.categorie = "documents"],
     [Base EXCEPT !.articles = <<[article |-> Telephone, quantite |-> 2]>>],
     [Base EXCEPT !.poids = 700],
     [Base EXCEPT !.pieces = <<Piece(10, 900)>>],
     [Base EXCEPT !.pieces = <<Piece(10, 900), Piece(30, 1600)>>],
     [Base EXCEPT !.pieces = <<Piece(70, 5000)>>, !.categorie = "colis_xxl"]}

Trajets == {<<Paris, Dakar>>, <<Paris, Matam>>, <<Dakar, Paris>>}
Remises == {<<0, 0>>, <<10, 5>>, <<60, 50>>}
ModesDepot == {"point_collecte", "enlevement_domicile", "envoi_postal"}

\* The declared value, its currency, the insurance, the duties and who pays.
Valeurs ==
    {<<0, "EUR", FALSE, "DAP", <<>>>>, <<305, "EUR", TRUE, "DDP", <<>>>>,
     <<1999, "XOF", TRUE, "DDP", <<[valeur |-> 1500, taux |-> 20]>>>>}

MCDemandes ==
    {[e EXCEPT !.depart = t[1], !.arrivee = t[2], !.remise = r[1], !.bonus = r[2],
               !.modeDepot = m, !.colissimo = (m = "envoi_postal"),
               !.modeLivraison = IF p = "expediteur" THEN "livraison_domicile" ELSE "point_retrait",
               !.payeur = p, !.dangereux = (r[2] = 5),
               !.emballages = IF e.pieces # <<>> THEN <<[article |-> Carton, quantite |-> 2]>> ELSE <<>>,
               !.valeur = v[1], !.deviseValeur = v[2], !.assurance = v[3],
               !.incoterm = v[4], !.articlesDouane = v[5]] :
        e \in Envois, t \in Trajets, r \in Remises, m \in ModesDepot, v \in Valeurs,
        p \in {"expediteur", "destinataire"}}
=============================================================================
