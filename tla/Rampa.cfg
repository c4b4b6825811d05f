SPECIFICATION Spec
CONSTANTS
    velocidade_alvo = 4
    passo_aceleracao = 3
    DELAY = 1
    WRITE = 1
    LEITURA = 3
    INVERSAO = 12
    LOOP = 1
    CLOCK_MOD = 29
INVARIANTS Mirrored ReadInTime
PROPERTIES Gentle NoEarlyReversal
