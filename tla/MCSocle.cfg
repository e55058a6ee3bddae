SPECIFICATION SpecParties
CONSTANTS
    p1 = p1  p2 = p2
    n1 = n1  n2 = n2  n3 = n3  e1 = e1  push = push  email = email
    Parties = {"file", "taches", "receptions"}
    Processus <- MCProcessus
    Envois <- MCEnvois
    Voies <- MCVoies
    VoieDe <- MCVoieDe
    VoiesFiables <- MCVoiesFiables
    Limite = 1
    MaxFile = 1
    Tentatives <- MCTentatives
    HEURE = 4
    PERIODE_HORAIRE = 2
    Jour = 8
    HEURE_QUOTIDIENNE = 3
    PannesMax = 2
    Televersements = {1, 2, 3, 4}
    MAX_RECEPTIONS = 2
CHECK_DEADLOCK FALSE
INVARIANTS
    TachesUneFois
    ReceptionsBornees
PROPERTIES
    FileTenue
    ToutEnvoiAboutit
    PropositionCloturee
