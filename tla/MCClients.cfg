SPECIFICATION SpecParties
CONSTANTS
    s1 = s1  s2 = s2  t1 = t1  e1 = e1  e2 = e2  c1 = c1  g1 = g1
    Parties = {"effets", "collecte", "compte"}
    Nul = Nul  SansAdresse = SansAdresse
    Requetes <- MCRequetes
    Guichets <- MCRequetes
    Expeditions <- MCColis
    Tournees <- MCTournees
    Enlevements <- MCEnlevements
    Colis <- MCColis
    CapaciteMax = 2
    EcartsMax = 1
    Adresses <- MCEnlevements
    Types = {"domicile", "travail"}
    LIMITE_ADRESSES = 2
    Evenements <- MCRequetes
    Abonnes = {g1}
    Etapes = {"DEPOT", "DEVIS_ACCEPTE", "INFO"}
    EssaisMax = 3
    PannesMax = 3
SYMMETRY Symetrie
INVARIANTS
    EffetsJustes
    CollecteTenue
    CompteEfface
CHECK_DEADLOCK FALSE
