SPECIFICATION Spec
CONSTANTS
    a1 = a1
    a2 = a2
    png = png
    mp4 = mp4
    Requests = {r1, r2}
    Bodies <- MCBodies
    Assets = {a1, a2}
    Images = {png}
    Videos = {mp4}
    Environments = {"mainnet", "dev"}
    MaxMsaId = 12
    None = None
INVARIANTS TypeOK AcceptedCanBeBuilt NothingIsLeftOut IconsAreImages FiledUnderItsSchema OneSpellingPerUser ResentIsRecognized
CHECK_DEADLOCK FALSE
