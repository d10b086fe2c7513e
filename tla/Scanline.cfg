SPECIFICATION LineSpec
CONSTANTS
    PIXELS_PER_ROW = 4
    SCREEN_HEIGHT = 3
    TILE = 2
    BYTE = 16
    Slots = {1, 2}
    Xs = {0, 1, 3, 5, 6}
    Ys = {0, 1, 3, 6}
    Numbers = {3}
    Flips = {TRUE, FALSE}
    Priorities = {TRUE, FALSE}
    Shades = {1}
    Scrolls = {0, 1, 6, 13, 15}
    Windows = {0, 1, 2, 4, 5, 9}
    Layers = {"background", "window", "sprites", "extended"}
    Models = {TRUE, FALSE}
INVARIANTS BackgroundIsMapped SpritesAreRight
CHECK_DEADLOCK FALSE
