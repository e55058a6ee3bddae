SPECIFICATION SpecFactures
CONSTANTS
    f1 = f1  p1 = p1  p2 = p2  v1 = v1  v2 = v2  a1 = a1  a2 = a2
    Factures <- MCFactures
    Paiements <- MCPaiements
    Avoirs <- MCAvoirs
    Caissiers <- MCAgents
    MontantMax = 1
    TauxTva = 50
SYMMETRY Symetrie
PROPERTY
    EncaissementSoldeLaFacture
