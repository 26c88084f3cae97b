\* Commands in any number and order, to every block.
SPECIFICATION Spec
CONSTANTS
    dev = dev
    res = res
    group = group
    inGroup = inGroup
    composite = composite
    inComposite = inComposite
    last = last
    NoNode = NoNode
    Node <- MCNode
    Device = dev
    Resources = {res}
    Groups = {group}
    mChildren <- MCChildren
INVARIANTS TypeOK ReadyMeansDone
PROPERTY ExecutionFollowsBlocks
