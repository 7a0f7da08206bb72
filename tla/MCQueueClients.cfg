SPECIFICATION ClientSpec
CONSTANTS
    Producers = {p1, p2}
    Consumers = {c1, c2}
    Quota = 3
    Sizes = {0, 3, 4}
INVARIANTS QueueInv StrandsNobody
PROPERTIES EverythingArrives
