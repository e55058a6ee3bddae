SPECIFICATION SpecParties
CONSTANTS
    r1 = r1  r2 = r2  n1 = n1  n2 = n2  c1 = c1  p = p  f1 = f1  e1 = e1  zDakar = zDakar
    Parties = {"delais"}
    Nul = Nul
    NulPart = NulPart
    Colis <- MCColis
    Points <- MCPoints
    Acteurs <- MCActeurs
    Codes <- MCCodes
    Forces = {"aucun", "annule"}
    Factures <- MCFactures
    Paiements <- MCPoints
    Avoirs <- MCPoints
    Caissiers <- MCActeurs
    MontantMax = 1
    TauxTva = 50
    Requetes <- MCActeurs
    Declarants <- MCActeurs
    Redacteurs <- MCActeurs
    Articles = {2}
    ValeurDeclaree = 1
    Franchise = 1
    Parametres <- MCParametres
    Services <- MCServices
    Tarifs <- MCTarifs
    SurchargesAuto <- MCSurcharges
    GrilleArticles <- MCArticles
    Demandes <- MCDemandes
    Credits = {0, 261, 1000}
    Rangs <- MCPoints
    Portees = {"national", "zone"}
    National = "national"
    Tranches <- MCTranches
    Periodes <- MCPeriodes
    Toujours <- MCToujours
    PoidsMax = 6
    Depots <- MCDepots
    ServicesDelai <- MCServicesDelai
    Supplements = {0, 2}
    Feries <- MCFeries
    Recurrents <- MCRecurrents
    Annee = 365
    DelaiSur = 20
    Comptes <- MCComptes
    Filleuls <- MCFilleuls
    Parrain <- MCParrain
    Expeditions <- MCPoints
    Client <- MCClient
    Emballages <- MCEmballages
    Evenements = {"RECEPTION", "ANNULE"}
    NonSuivi = NonSuivi
    Gain = 1
    CreditMax = 1
    StockMax = 1
INVARIANT
    DelaiTenu
CHECK_DEADLOCK FALSE
