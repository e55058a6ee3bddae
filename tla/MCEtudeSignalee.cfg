SPECIFICATION SpecParties
CONSTANTS
    p1 = p1  p2 = p2
    n1 = n1  n2 = n2  n3 = n3  e1 = e1  push = push  email = email
    Parties = {"taches"}
    Processus <- MCProcessus
    Envois <- MCEnvois
    Voies <- MCVoies
    VoieDe <- MCVoieDe
    VoiesFiables <- MCVoiesFiables
    Limite = 1
    MaxFile = 1
    Tentatives <- MCTentatives
    HEURE = 24
    PERIODE_HORAIRE = 22
    Jour = 48
    HEURE_QUOTIDIENNE = 16
    PannesMax = 1
    Televersements = {1, 2, 3, 4}
    MAX_RECEPTIONS = 2
CHECK_DEADLOCK FALSE
INVARIANT EtudeSignaleeUneFois
