\* Every book and stake of a small grid on paper; every answer of the CLOB.
SPECIFICATION Spec
CONSTANTS
    Prices = {1, 2, 3}
    MaxSize = 8
    Lot = 2
    Cap = 2
    Haircut = 80
    Falls = {2}
    Tokens = {Up, Down}
    None = None
    Stakes = {3, 9, 12}
    Whole = 2
    SecureMin = 2
    MaxLost = 2
INVARIANTS TypeOK SweepBounds SweepIsGreedy Exposure
PROPERTIES BrokerSpec
