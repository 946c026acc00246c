CONSTANTS
    Pantallas <- LasPantallas
SPECIFICATION Spec
INVARIANTS TipoPantalla SinTaparse Tocables HaySitio
CHECK_DEADLOCK FALSE
