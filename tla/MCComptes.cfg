SPECIFICATION SpecParties
CONSTANTS
    r1 = r1  r2 = r2  w1 = w1  w2 = w2  d1 = d1  d2 = d2
    a1 = a1  a2 = a2  p1 = p1  p2 = p2  Vacant = Vacant  Absent = Absent  SansDocument = SansDocument  g1 = g1
    Parties = {"remise", "sessions", "codes", "agents", "administrateurs", "professionnel"}
    Requetes <- MCRequetes
    Demarches <- MCRequetes
    Gestes <- MCRequetes
    Depots <- MCRequetes
    Ouvriers <- MCOuvriers
    Ouvrier <- MCOuvrier
    Admins <- MCAdmins
    Employes <- MCAgents
    Agents = {g1}
    Saisies <- MCRequetes
    Personne = Personne
    RemisesMax = 2
    CodesAilleurs = {"EN_LIVRAISON"}
    Points <- MCPoints
    Redis = TRUE
    Obligatoire = TRUE
    JetonsMax = 2
    VersionsMax = 1
    EchecsMax = 2
    CodesMax = 2
    OTP_MAX_TENTATIVES = 1
    OtpMax = 2
    EssaisMax = 1
    NumerosMax = 1
    NumerosProMax = 1
    Gerants <- MCGerants
    Remises = {0, 10}
    RemisePro = 5
SYMMETRY Symetrie
INVARIANTS
    UnCodeUneRemise
    SessionsRevoquees
    CodeUneFois
    EquipeTenue
    TarifProControle
PROPERTIES
    RemiseReglee
CHECK_DEADLOCK FALSE
