SPECIFICATION SpecParties
CONSTANTS
    c1 = c1  c2 = c2  n1 = n1  n2 = n2  a1 = a1  o1 = o1  o2 = o2
    Parties = {"points", "rotations"}
    NulPart = NulPart
    ATerre = ATerre
    Colis <- MCColis
    Cargaison <- MCColis
    Points <- MCPoints
    Acteurs <- MCActeurs
    Codes = {"DEPOT", "TRI", "DEPART_HUB"}
    Forces = {"aucun"}
    StockMax = 2
    Rotations <- MCRotations
    Agents <- MCAgents
    CapaciteColis <- MCCapacite
    CodesAilleurs = {"AVARIE"}
SYMMETRY Symetrie
INVARIANTS
    TransfertExact
    ChargementJuste
    PropagationUnique
