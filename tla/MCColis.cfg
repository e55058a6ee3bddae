SPECIFICATION SpecParties
CONSTANTS
    s1 = s1  s2 = s2  s3 = s3  p1 = p1  p2 = p2  c1 = c1  g1 = g1  t1 = t1  l1 = l1  l2 = l2
    Parties = {"declaration", "references", "reclamations", "dossier", "territoire", "caches",
               "avis", "fichiers"}
    Nul = Nul
    Requetes <- MCClients
    Dossiers <- MCProcessus
    Expeditions = {c1}
    Plafond = 2
    TotalFacture = 3
    Montants = {0, 2}
    AvoirsMax = 2
    Neant = Neant
    Demandeurs <- MCDemandeurs
    Demandes <- MCDeclarations
    Parametres <- MCParametres
    Tournees <- MCTournees
    Capacite <- MCCapacite
    Essais = 2
    NonDefini = NonDefini
    Administrateurs <- MCClients
    CODES_PAYS = {"FR", "SN"}
    Zones <- MCZones
    PaysDe <- MCPaysDe
    Villes = {v1}
    Points = {g1}
    Services = {sv1}
    Tarifs = {tf1}
    Colis = {c1}
    Annexes = {l1}
    SansEntree = SansEntree
    Processus <- MCProcessus
    Lectures <- MCClients
    Genres = {"parametres", "faq", "modeles"}
    TTL = 2
    DureePanne = 1
    DureeMax = 1
    EcrituresMax = 1
    Personne = Personne
    Serveurs <- MCProcessus
    Actes <- MCDemandeurs
    Tentatives = 2
    Intervenants <- MCClients
    Faits = {"RECEPTION", "DEPOT", "EN_LIVRAISON", "LIV_ECHEC", "LIVRE"}
    Departs = {"en_attente", "en_livraison", "incident"}
    AppelsMax = 4
    Domicile = Domicile
    PointsRetrait = {g1}
    SansAvis = SansAvis
    Envois <- MCClients
    Moderateurs <- MCProcessus
    TTL_PUBLIC = 2
    DureeLecture = 1
    DepotsMax = 2
    VersionsMax = 2
    Obligatoire = TRUE
    Lignes <- MCLignes
    Genre <- MCGenre
    Guichets <- MCClients
    MAX_PHOTOS = 1
    PassagesMax = 1
    PannesMax = 1
    Ancien = Ancien
    Aucun = Aucun
    Detruite = Detruite
SYMMETRY Symetrie
INVARIANTS
    DeclarationJuste
    TerritoireCoherent
    CacheFidele
    IndemniteUnique
    ReferencesSures
    DossierCoherent
    AvisFondes
    FichiersVivants
CHECK_DEADLOCK FALSE
