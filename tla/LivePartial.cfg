\* A sale that is refused half way; no answer is lost.
SPECIFICATION Spec
CONSTANTS
    Prices = {1, 2, 3}
    MaxSize = 2
    Lot = 2
    Cap = 2
    Haircut = 60
    Falls = {2}
    Tokens = {Up, Down}
    None = None
    Stakes = {8}
    Whole = 2
    SecureMin = 2
    MaxLost = 0
PROPERTY KeptMeansNothingSold
